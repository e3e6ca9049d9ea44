# TLA+ models of the NJU network protocol experiments

The repository holds the programs of a course on network protocols. Its largest
part is a protocol stack in user space, written four times with growing scope
(`src/Exp4/Exp4-1` to `Exp4-4`): STCP, a transport protocol (go-back-N data
transfer, connection management), over SIP, a network layer with
distance-vector routing, over SON, an overlay of TCP connections. Beside it
there are a weather client (`Exp2`), a game server and its client (`Exp3`) and
parts of a BitTorrent client (`Exp5`).

These modules model the last version of the stack, `Exp4-4`, layer by layer, the
STCP of the two first versions, `Exp4-1` and `Exp4-2`, and the programs beside
the stack: the weather client, the game, and the piece manager, the peer
connections and the hashing of the BitTorrent client.

## 1. The system

### Components

| component | state | operations | talks to |
|---|---|---|---|
| STCP client (`Exp4-4/client/stcp_client.c`) | `tcb_list`: per connection the state, `next_seqNum`, the send buffer list (`sendBufHead`, `sendBufunSent`, `sendBufTail`), `unAck_segNum`, `bufMutex` | `stcp_client_sock`, `connect`, `send`, `disconnect`, `close`; threads `seghandler` (one) and `sendBuf_timer` (one per append to an empty buffer) | SIP process by TCP |
| STCP server (`Exp4-4/server/stcp_server.c`) | `tcb_list`: state, `expect_seqNum`, `recvBuf`, `usedBufLen`, `bufMutex`; `st_mutex`, `st_cond` | `stcp_server_sock`, `accept`, `recv`, `close`; threads `seghandler` and `timer_thread` | SIP process by TCP |
| segments (`common/seg.c`) | a framing automaton per call | `sip_sendseg`, `sip_recvseg`, `getsegToSend`, `forwardsegToSTCP`, `seglost`, `checksum`, `checkchecksum` | STCP and SIP |
| applications (`client/app_*.c`, `server/app_*.c`) | sockets in local variables | two connections with a few strings, or one with a file; exit when a call fails | STCP |
| SIP (`sip/sip.c`, `dvtable.c`, `nbrcosttable.c`, `routingtable.c`) | neighbour costs, distance vectors, routing table, `dv_mutex`, `routingtable_mutex` | threads `routeupdate_daemon`, `pkthandler`, `waitSTCP`; signal handler `sip_stop` | STCP and SON by TCP |
| SON (`son/son.c`, `neighbortable.c`, `common/pkt.c`) | neighbour table with a connection each, `sip_conn` | `waitNbrs`, `connectNbrs`, a `listen_to_neighbor` thread per neighbour, `waitSIP`, `son_stop` | SIP and other SON by TCP |
| topology (`topology/topology.c`) | the file `topology.dat` | look-ups | SIP, SON, STCP |
| `Exp4-1`, `Exp4-2`, `Exp4-3` | earlier versions of the above | the same with less | |
| game server (`Exp3/server_nb`) | `ulist` and `glist` under `rwlock` | a thread per player: seven requests, and every half second a look at the player's game | game clients |
| game client (`Exp3/client_game`) | `stage`, opponent, hands, scores | what the person types, what the server sends | game server |
| weather client (`Exp2`) | menu level | a loop around `select` | a web service |
| piece manager (`Exp5/src/piecemanager.cpp`, `piece.cpp`) | pieces missing, in progress, had; pending requests; peers; the file | next request, block received, expiry, peers that come and go | connections |
| peer connection (`pwp.cpp`, `connect.cpp`, `sharedqueue.h`) | its peer, `choked`, `requestPending`; a queue of peers | handshake, messages, request | peers, piece manager |
| SHA-1 (`sha1.cpp`) | a context | octets in, blocks processed, padding, digest | piece |

### What is hard

- *Threads without a common lock.* `stcp_client_send` changes `sendBufunSent`
  and `unAck_segNum` without the mutex under which `seghandler` changes the
  same buffer; the server adds to `usedBufLen` outside the mutex under which
  `stcp_server_recv` subtracts; both seghandlers look an entry up before, and use
  it after, it may have been freed.
- *The network.* Segments are lost, damaged (`seglost`), repeated (several timer
  threads and the first transmission) and overtaken; so are acknowledgements.
- *Timeouts against late answers.* SYN, FIN and DATA are sent again although the
  answer may be on its way, and the answer arrives in a later state.
- *Failure of one step.* A failing `sip_sendseg` leaves a mutex locked or ends a
  thread others wait for.
- *Routing.* Neighbours' vectors arrive in any order, nodes go and come back.
- *Frames.* A segment or packet is put on a TCP connection by three calls of
  `send`, and several threads write to one connection without a lock.
- *Processes that end.* Nobody handles SIGPIPE; signal handlers send, and exit.
- *Stale numbers.* A player's thread looks up a game by a number it read before
  it took the lock; a connection thread hands over a block of a piece that
  another one has just finished.

`PROJECT.json` lists every hazard with its line and the properties that would
catch it. Where the code does go wrong the models do too: a property then has the case as its
exception, and a note beside the hazard says so.

### What makes each component correct

- Data transfer: the server takes over the client's data once and in order; the
  client discards only what the server has taken over; a buffer that holds
  something is looked at again; what is sent is acknowledged eventually.
- Connection management: what one end calls open or closed, the other end has
  opened or closed; a late segment opens or closes nothing; every call returns.
- Segments and framing: a frame that is received was sent as a whole.
- Routing: an advertised cost is that of a path; without failures routes have no
  loop; after failures the costs become those of the remaining network.
- Overlay: every pair of neighbours ends up with one connection.
- Game: a round is decided once, by two answers of the same round.
- Piece manager: a block is asked for until it has come, a piece is written once
  and with the right hash.
- SHA-1: the digest of a message, wherever it ends in a block.
- Weather client: a menu belongs to a city the server has confirmed.

## 2. The modules

### Data transfer over one connection

| module | models |
|---|---|
| `StcpNet` | what an STCP process sees of SIP, SON and the far end: the segments in flight, in two sets |
| `StcpSender` | `stcp_client_send`, the DATAACK branch of the client's `seghandler`, the `sendBuf_timer` threads |
| `StcpReceiver` | the DATA branch of the server's `seghandler`, `stcp_server_recv` |
| `StcpData` | both with the network between them; fairness; properties |
| `StcpStream` | the abstract specification: a stream that is written, taken over, released; `StcpTransfer` implements it too |
| `StcpDataInv` | the inductive invariant |
| `StcpDataClaims` | what the comments of the headers say and the code does not keep |
| `MCStcpData` | instances for TLC |
| `StcpData_proofs` | the theorems |

*Steps.* An action is what a thread does between two points where another thread
can interfere: a critical section of `bufMutex`, or one load or store of a field
the code touches without it. The program is compiled without optimisation, so
`unAck_segNum++`, `unAck_segNum--`, `usedBufLen += length` and
`usedBufLen -= length` are a load and a store. A loop under a mutex
(`FreeHead`, `TimerResend`) is one step per iteration, because others can see its
fields without the mutex.

*State.* The nodes of the send buffer are numbered as they are linked, and NULL
is 0: `sendSegs[i]` is the segment in node *i*, freed nodes included, because
the application thread can still follow a pointer to one. Which nodes are freed
follows from `sendBufHead`. A freed node keeps its `next` (on this platform
the allocator overwrites the first 16 bytes of the 240-byte block, which are in
the segment's header) and its segment is either intact or fails the checksum.
`polling` and `checking` count the timer threads at each of their two places.
Threads' locals (`appReg`, `hdlReg`, `srvReg`, `rcvReg`: loaded counters) are 0
outside their scope.

*Abstractions.* Every segment has one unit of data, so sequence numbers, buffer
space and lengths count segments. `next_seqNum` does not wrap (the applications
send less than 1 MB on a connection). Time is left out: a timer may find the
head timed out whenever it looks. The network is a set per direction: any
order, any number of copies, loss in the receiving call; more than the overlay
can do, never less. `unAck_segNum` keeps its width as `UINT` values. The server
process ends when its SIP connection does; only the client's SIP connection can fail here.

### Opening and closing connections

| module | models |
|---|---|
| `StcpSession` | every function of the two APIs but send and recv, the SYN and FIN branches of both `seghandler`s, `timer_thread`, failing calls, exits and crashes of the two processes |
| `StcpConnection` | the abstract specification: a connection is opened by the server, established, finished by the client's FIN, which the server takes, and disconnected; in this order, and nothing is taken back |
| `StcpSessionInv` | the inductive invariant |
| `StcpSessionClaims` | what the comments say and the code does not keep |
| `MCStcpSession`, `StcpSession_proofs` | instance, theorems |

The state of a connection is the pair of `tcb_list` entries (`"NULL"` where there
is none) with the stage each application has reached. The client's `st_mutex` has one user
and excludes nobody, so reading and writing `state` are separate steps of its
`seghandler`; the server's `st_mutex` makes a branch of its `seghandler` one step.
In both processes the look-up of the port is a step before the use of the entry:
when the entry has gone meanwhile the process crashes. Segments of each kind are
counted per connection; a step loses or delivers any of them. Each application
uses a pair of ports once, as those of the repository do, and exits when a call fails.

Two connections share one client `seghandler`, one server `seghandler` and one
`timer_thread`, so they can disturb each other; that is why the instance has two.

### Routing

| module | models |
|---|---|
| `SipRouting` | the SIP processes of a network: start, `routeupdate_daemon`, both branches of `pkthandler`, `waitSTCP`, `sip_stop`, restart |
| `SipRoutingInv` | the properties of the routing tables and the inductive invariant |
| `MCSipRouting` | an instance, its shortest paths, convergence |
| `SipRoutingClaims` | what a comment says of stopped nodes and the code does not keep |
| `SipRouting_proofs` | theorems |

| variable | code |
|---|---|
| `sip` | whether the process runs, or is between the CLOSE of `sip_stop` and `exit` |
| `first` | the local variable of `routeupdate_daemon` |
| `nct` | the neighbour cost table |
| `dv`, `own` | the distance vector table: the rows of the neighbours, and row `nbrNum` |
| `next` | the routing table; -1 and a missing entry are `NoNode` |
| `chan`, `pkts` | what is on the TCP connections between the nodes: route updates in order, data packets |

*Steps.* `pkthandler` changes all tables under `dv_mutex`, so a route update is
one step (`TakeRouteMsg`): the row of the sender, the whole of the node's own
vector, the whole routing table. It does not hold `routingtable_mutex` then, so
`waitSTCP` may look up an entry between two assignments; but it looks up one
entry, an `int`, and sees the old or the new one. `routeupdate_daemon` copies the vector
under the mutex and sends the copy later: between the two the copy is as good as on the
link, which keeps its order, so `Update` is one step.

*Abstractions.* The topology file, the same for all nodes, is the constant
`Cost`, symmetric as `topology_getCost` makes it. Among equally good next hops
the code takes the one the file lists first and the model some fixed one. The
wait of `SIP_WAITTIME` before `waitSTCP` is left out: a packet may be sent at once. The
SON processes stay up; the SIP processes are started and stopped at any
moment. A SON throws away what arrives while its SIP process is down
(`DropRouteMsg`). The connection between SIP and its SON does not fail and
does not mix the frames of several threads.

### The overlay

| module | models |
|---|---|
| `SonFrames` | the three sends of a frame, and the automata of `recvpkt` and `son_recvpkt` / `getpktToSend` on a stream of such pieces |
| `SonOverlay` | SON processes that start, connect (`waitNbrs`, `connectNbrs`), pass packets on (`waitSIP`), listen, stop and start again |
| `SonSipLink` | a SON and its SIP process on their connection: two listeners write in one direction, the three threads of SIP in the other |
| `Son_proofs` | theorems about `SonSipLink` and `SonOverlay` |
| `MCStack` | the instance |

What one `send` writes is a token. `recvpkt`, the receiver of SON, gives the
connection up at a token it does not expect; `son_recvpkt`, the receiver of
SIP, looks for the next beginning. A connection of the overlay is
`<<a, b, k>>`, from node `a` in its `k`-th run to node `b`: a kernel completes it
without the process, `conn` says which one each neighbour table holds, and
`backlog` which ones `waitNbrs` has not accepted. A `send` on a connection whose other
end is gone does nothing, returns -1, or kills the process: all three happen,
depending on whether the reset has arrived. In `SonSipLink` both processes also end for reasons outside
their connection (`outside`): SIP by a signal or by SIGPIPE on its connection to STCP (`StopSip`); SON by `son_stop` or its CLOSE
to a neighbour that has gone (`SonStops`), or when `waitSIP` passes a packet on to such a neighbour (`GetToken`). It is
not started again there: what follows concerns the next connection.

### The first two versions of STCP

| module | models |
|---|---|
| `StcpHandshake` | Exp4-1: connect, accept, disconnect and close of two sockets, over one TCP connection |
| `StcpTransfer` | Exp4-2: one connection from connect to close, with its data |
| `StcpHandshake_proofs`, `StcpTransfer_proofs` | theorems |

`StcpTransfer` has what `StcpData` and `StcpSession` leave out between them: what
closing does to data that is still in a buffer, and to the threads that still use
the entry. The code of these functions is the same in Exp4-4. It refines two
specifications at once, `StcpStream` with its data and `StcpConnection` with its opening and closing. Segments go over one TCP
connection, in order; `seglost` drops some at the receiver. What happens under
one lock is one step; the code between locks is split where it can be disturbed
(`SendData`, `Advance`, `Count`; `Handles`, `ServerAdds`; `RecvLooks`,
`RecvTakes`). The list from head to tail is a range of numbers; a pointer that is
left on a freed node is one below `sendBufHead`. The history variables `bufRaced` and `countRaced`
say that the two unlocked counters were changed by two threads at once; the outcomes
are then all that a load and a store can give.

### The programs beside the stack

| module | models |
|---|---|
| `GameServer` | Exp3: the threads of the server, a request or a look at a game in one step under `rwlock`; reading the game number, before the lock, is a step of its own |
| `GameClient` | Exp3: the clients and their persons, the environment of `GameServer` |
| `PieceManager` | Exp5: the lists and what each call does to them; `blockReceived` as a sequence of steps, because most of it is outside the lock; the layout of pieces and blocks |
| `PeerConnection` | Exp5: the connection threads around one piece manager, the queue of peers, peers that answer well, badly or not at all |
| `Sha1` | Exp5: `SHA1Input`, `SHA1ProcessMessageBlock`, `SHA1PadMessage`, `SHA1Result` |
| `WeatherClient` | Exp2: the menu, a person, and a server that answers in order (external) |
| `PeerConnection_proofs` | theorems about `PieceManager` and `PeerConnection` |
| `Clients_proofs` | theorems about `WeatherClient` and about `GameServer` with `GameClient` |
| `MCApplications` | the instance |

*State.* `ulist`, `glist`, `missingPieces`, `ongoingPieces`, `havePieces`,
`pendingRequests`, `menulevel`, `cityname` and the fields of `SHA1Context` keep
their names. `operator[]` of a map creates what it does not find, so a look at a
game that is gone is undefined behaviour (`down`), and a request that names a stale opponent
adds a third player. `status` and `data` of a block are fields of `Block`; the
file is a map from places, one per piece and one for what is behind the last, to the quality of what was written
there. `position` is the put position of the stream `downloadedFile`, which all connection threads move and use without
the lock: `write` is two steps, the `seekp` (`Seek`) and the `<<` (`Write`). When another piece is written in between, it goes to its own place and
this one behind it, and when another thread has only moved the position, this piece goes to the place of the other; `mixed` says that a
`seekp` came between the two steps of another thread. A word of SHA-1 is a pair of
16-bit halves, because TLC's integers are signed 32-bit.

*Abstractions.* Data is good or bad, and a hash matches when all blocks of a piece are good. All pieces have one length here
(`LayoutExact` is about the last one). Any block of any piece may arrive, asked for or not, because the code compares `index` and `begin` with nothing;
`MaxBad` bounds the blocks that are bad or were not asked for. Numbers of no piece or block are left out. Time is left out: a
request may expire, and a thread may look, at any moment. The user list that the
server sends to be displayed is left out, as is its terminal.

## 3. What TLC checks

| run | question | bounds |
|---|---|---|
| `data_flow` | inductive invariant (`IInv`, with the types and buffer bounds), timer threads, refinement of `StcpStream` | 2 segments, window 2, `UINT` 4, buffer of 1, SIP may fail |
| `data_gbn` | `AcceptedIsPrefix`, `NoPrematureFree` | 3 segments, window 2, buffer of 3, no reader |
| `data_live` | `LaunchedFreed` under `FairSpec` | 2 segments, window 1, `UINT` 2 |
| `session` | agreement of the two ends, nothing reopened, refinement of `StcpConnection`, calls return, the inductive invariant | 2 connections, 2 SYN and 1 FIN retries, SIP may fail |
| `routing` | the tables are right at every moment; shortest paths in the end; packets do not circle for ever | 4 nodes in a row, cost 1, infinity 5, 1 stop, 1 restart, 1 update per link, 1 packet |
| `stack` | the mesh of SON processes; frames between SON and SIP; the data and the closing of Exp4-2; the handshakes of Exp4-1; both as refinements | see below |
| `applications` | game, piece manager, layout, SHA-1, weather menu | see below |
| `claim_send` | refutes that `stcp_client_send` returns | as `data_live`, no fault of the network needed |
| `claim_recv` | refutes that `stcp_server_recv` returns the stream | 3 segments |
| `claim_seghandler` | refutes that `seghandler` lives as long as the SIP connection | as `session` |
| `claim_connect` | refutes that a SYNACK that arrives makes `connect` return 1 | as `session` |
| `claim_link` | refutes that the link to a stopped node gets an infinite cost | as `routing`, no restart, 2 updates per link |

The bounds are the smallest in which the cases of interest happen. With a buffer
of one segment the second segment finds it full, is dropped, and is taken after
the application has read; with two segments there is a head, a node that is not
sent yet, a second call on a non-empty buffer, two timer threads, and a wrapped
`unAck_segNum`. Three segments and a window of two let the window slide, a
segment overtake another and an old acknowledgement arrive late. `SYN_MAX_RETRY`
of 2 puts two SYNs and two SYNACKs in flight, so one can be delayed into any
later state. Deadlock is not checked: the applications stop when they are done.

`stack` and `applications` each put several programs that have nothing to do with each
other into one specification: the variable `program` is chosen in the initial
state and never changes, and the state of the others stays as it was. A property
of one program holds trivially while another one runs, and its mutant shows that it can fail in its own.

| program | bounds | the cases that happen in them |
|---|---|---|
| overlay | 3 nodes, the first the neighbour of both others; 4 starts; 1 packet | a node starts too late, is stopped in the middle of a frame, is restarted and counted twice |
| link | 2 listeners, 2 SIP processes one after another, 3 packets | frames of two, and of three, threads overlap; SIP is stopped and started again, SON is stopped, or ended by a neighbour that has gone, and either process is killed by SIGPIPE on their connection |
| transfer | calls of 1 and 2 segments, window 2, buffer 2, 1 repetition of SYN, FIN and DATA | full window, full buffer, FIN before the last DATAACK, a timer thread after close, torn frames |
| handshake | 2 sockets, the 5 repetitions of the source | FINACKs that come after close; a connection closed by a reset |
| game | 2 players, 2 of the 3 hands, a score of 1 wins, 2 games, 2 rounds, 1 packet per client on its way, 1 exit | invitations that cross, refusals, quitting and leaving at every stage, a draw and a win |
| pieces | 2 connections, 2 peers in 2 queue entries, 2 pieces of 2 blocks, 1 block that is bad or was not asked for, 1 expiry | both connections in one piece, in `blockReceived` at once, writing two pieces at once, a late answer, a block nobody asked for, a hash that fails |
| layout | files of 1 to 24 octets, pieces of 1 to 8, blocks of 4 | every remainder |
| SHA-1 | `abc`, 56 octets (the two messages of `shatest.cpp`), none, 55 and 64 octets | padding inside a block, in a second block, an empty and an exactly full block |
| weather | 2 cities, one known, 5 packets | a second city before the answer to the first |

*Fairness.* `FairSpec` of `StcpData` assumes that a runnable thread runs, that it
gets a mutex whose other users sleep between two uses (strong fairness of the
steps that take one), that a segment sent again and again is delivered once
(`seglost` drops one in twenty and damages as many), and that a timer finds an unacknowledged head
timed out at some time. Nothing makes the client application write. `FairSpec` of
`StcpSession` assumes only that the thread inside a call runs.

*What the runs show.* The data path as far as the receive buffer is right, for
every interleaving: the lost updates of `unAck_segNum` and `usedBufLen` do not
lose, repeat or reorder what is accepted, and never write past `recvBuf`. What
they do break is in the two claims: `stcp_client_send` can spin for ever, and
`stcp_server_recv` can return wrong data. Connection management keeps the two
ends in agreement for a call that returned 1, and every connection goes through the stages of
`StcpConnection` (`ImplementsConnection`); the claims show that a call that
returned -1 may leave the server open, and that one late FINACK silences the client.

The faulty variants beside some actions (`..._NoWait`, `..._Once`, ...) are not
part of the specification: each is a plausible mistake that breaks the
property it was written for, which shows that the property can fail.

*The overlay.* Two neighbours that run have one connection, the same at both
ends, as long as no process is started twice (`MeshOnce`). The condition is needed: `waitNbrs` counts
connections and not neighbours, so a neighbour that is restarted is counted twice and another one
waits in the backlog for ever; and `connectNbrs` exits when a neighbour is not there yet. Frames that are not
overlapped are received whatever came before them (`LoneFrameArrives`); as long as
SIP's threads do not overlap and nothing outside the connection ends SIP, SON closes no connection and ends only for a reason of its own, a signal or a
neighbour that has gone, and while it lives SIP is up and connected to it (`KilledExplained`).
When they do overlap, `waitSIP` closes the connection and SIP dies, or is silent,
at its next send. A whole CLOSE is read before the end of the connection
(`CloseAnnounced`); one that `son_stop` sends behind half a frame is not.

*Exp4-2 and Exp4-1.* The stream arrives in order and the window is right unless the unlocked
counters collide (`StreamKept`, `WindowTrue`). A server application that waits for ever on a
closed connection was left by a FIN that was sent before all data was acknowledged, or by
`timer_thread`, which throws away unread data, or by a collision (`StarvedExplained`): three
real ways to lose the end of a file. What the server takes into its buffer is right even then
(`ImplementsTransfer`): the collisions spoil what the application reads, and nothing before it. In Exp4-1 a success of connect or disconnect means that
the server has seen it, and the server closes nothing too early (`HandshakeAgrees`). A failure
means little: a repeated FINACK for the first socket ends the client's `seghandler`, and
disconnecting the second then fails although nothing was wrong.

*The programs beside the stack.* The two tables of the game server agree as long as no thread acts on a
number or a name that is out of date (`PointersValid`), and two clients that are shown the same round of the same
game are shown the same two hands, each from its own side (`RoundsAgree`), unless besides a hand was counted in a game it was
not played in, or a player was moved from one game to another. Which game a packet or a screen is of the code does not
know: the games are counted and the number goes along as history (`id` of a game, `game` of a packet, `seen`), and no
guard reads it. A client must be in a game or just after it, because in the menu it still
has the hands shown last. The model reaches the exceptions: a thread that
reads its game number just before the opponent leaves finds no game; `gameaccept` of an
invitation that has been withdrawn joins a game of others; and an acceptor, who is sent `gamestart` twice,
may take the second one for the start of the next game and play a hand too early. The piece manager loses no piece and keeps
none twice in progress (`PiecePartition`), and every piece that is had is in its place on disk, and nothing behind the last (`FileIsGood`), with
two exceptions. When two connections were in `blockReceived` with blocks of one piece, `havePieces` may count a piece twice
or the assertion of `getData` ends the process (`AbortsExplained`). And when two connections write two different pieces, one may
move the put position between the `seekp` and the `<<` of the other, and the file is wrong though both hashes were right. The first block of a piece gets no
pending request, so it alone is never repeated, and nothing is requested any more once `missingPieces` is
empty; `NoLostBlock` is about the others. `LayoutExact` says for which lengths the blocks of
`initiatePieces` add up to the file: only when pieces are whole blocks and the last is shorter than one, because `ceil` is
taken of a quotient that was rounded down before. `HashRight` compares with the digests in
`shatest.cpp`. The menu of the weather client belongs to a city that exists if the person waits for the answer
(`MenuOfKnownCity`).

*Routing.* A row of four nodes `a b c d` is the smallest network in which
costs count up: when `c` stops, `a` and `b` each believe that the other still
has a way to `d`, and send packets for `d` to and fro while their costs climb to
`INFINITE_COST`. With an infinity of 5 they pass through every value between.
`d` never runs, `c` may be stopped at any moment and started again, and one
update per link delays the others; every order of updates of different
neighbours happens. `RealDistance` says that costs may be too high after a stop but never too
low. `RoutesAgree` says that no packet is sent over a link that is closed,
although updates of a neighbour still arrive after its CLOSE. Before
any stop there is no loop (`NoRoutingLoop`); after one there may be, for a while:
`PacketsEnd` says that it ends, and `Converges` that the tables become those of the shortest paths.

`Converges` assumes that from some time on a link has its cost at the two ends
exactly when both processes run (`LinksRight`). The code does not ensure it, for two reasons.
A neighbour that was never started counts as reachable, because its
cost is read from the file. And `routeupdate_daemon` may send its first message, CONNECT,
after the CLOSE of `sip_stop`; the neighbours then route to a dead node for ever.
`claim_link` shows the second.

The fairness of `SipRouting` is that a daemon that sleeps wakes up, that what is first on a link
is taken or dropped, and that a started `sip_stop` ends. Nothing makes anybody start or stop a process.

## 4. What is proved

A theorem holds for every value of the constants of its module: every stream, window, counter
width and buffer size, any number of connections, repetitions, nodes, peers, pieces or users. What
it takes of the constants is the named assumption of the module and no more, that they are in their ranges:
`SenderAssumption`, `ReceiverAssumption`, `SessionAssumption`, `RoutingAssumption`, `DistAssumption`,
`HandshakeAssumption`, `TransferAssumption`, `LinkAssumption`, `OverlayAssumption`, `PieceAssumption`,
`GameAssumption`, `WeatherAssumption`. The bounds of the models (how often a process is started, how many
packets, games or rounds there are) are constants too, and so arbitrary in the theorems.

Hardly one of the properties is inductive alone. For each module there is an inductive invariant,
a conjunction of named parts, with one lemma per action or group of actions; the properties follow from it.

### The stack of Exp4-4

- `StcpData_proofs`: `Invariance` (`Spec => []IInv`) and from it `TypeCorrect`,
  `AcceptedPrefix`, `FreedAccepted`, `TimerWatches`, and `StreamRefinement`
  (`Spec => ImplementsStream`).
  That the client frees nothing
  too early needs that every acknowledgement in flight or in hand is at most
  `expect_seqNum` (`FlightInv`); that the server accepts a prefix needs that a
  segment in flight is a node of the buffer and that node *i* holds segment *i*
  of the stream (`BufferInv`); the bound of `usedBufLen` needs that the server's
  seghandler, between its test and its store, only sees the counter shrink
  (`RoomInv`); the timer threads need the places where a thread may be while
  the mutex is taken (`SenderControl`). Nothing is needed about `unAck_segNum`
  or `sendBufunSent`, the fields that race.
- `StcpSession_proofs`: `SessionInvariance` and from it `SessionTypes`,
  `ConnectedAtBothEnds` (`EstablishedBothEnds`), `ClosedAtBothEnds` (`OrderlyClose`),
  `ClosedOnRequest` (`CloseOnlyOnFin`), `ClosedForGood` (`NeverReopens`) and `ConnectionRefinement`
  (`Spec => ImplementsConnection`). In the last, a step of one end moves one connection by at most one stage
  (`ServerMaps`, `ClientMaps`), and the invariant says that the other end has reached the stage before.
  The strengthening (`SegInv`) says what a
  segment in flight proves about its sender: a SYNACK, that the server has opened; a
  FINACK, that it has closed; a FIN, that the client has called disconnect.
- `SipRouting_proofs`, for every network, costs and infinity:
  `RoutingTypes`, `RoutingReal` (`RealDistance`), `RoutingAgrees`
  (`RoutesAgree`), `RoutingFalls` (`CostsFall`) and `RoutingLoopFree`
  (`NoRoutingLoop`). The assumptions are `RoutingAssumption` (costs are symmetric and
  positive) and `DistAssumption` (`Dist` obeys the triangle inequality over every
  link: all that is needed of shortest paths). `RealDistance` and `RoutesAgree`
  hold through stops and restarts. A loop cannot be excluded by looking
  at the tables of one moment: what a node believes of its neighbour is old. The argument is
  that, before a stop, what is old is only worse (`CostsFall`): along a link the row
  the neighbour has, the updates on their way and the sender's vector of now never rise. So the cost
  of a next hop, now, is below the cost of the node that
  uses it, and in a set of nodes that forward among themselves the one with the
  lowest cost would contradict that. CONNECT fits in only because it is the first message of a process,
  when its vector is at most its direct links. After a stop the argument
  fails, as does the property.
- `Son_proofs`, the connection of a SON with its SIP process: `LinkInvariance`, and from it
  `LinkTyped`, `LoneFrameDelivered` (`LoneFrameArrives`) and `KilledAccounted`
  (`KilledExplained`). Both properties are about what a reader has still to read, so the
  invariant speaks of the run of its automaton over the whole queue: there is a sequence of reader states,
  one after each token, that follows the transitions (`Follows`), in which every lone frame
  is received (`Whole`) and, without an overlap, nothing makes it return -1 (`Clean`);
  `SipRun` and `SonRun` say so of the two readers. A read takes the first state off the run and a
  `send` adds one, so no definition by recursion over the queue is needed. `Places` says who may
  have which connection; the three ways in which SON ends are one lemma (`SonEndsInv`); `ClosedLate`, that SON closes a connection without overlapping frames only when SIP has
  gone, and when everything was read.
- `Son_proofs`, the overlay: `OverlayInvariance`, and from it `OverlayTyped`, `CloseIsAnnounced`
  (`CloseAnnounced`) and, with a second invariant, `MeshBuiltOnce` (`MeshOnce`). The first
  says where a connection can be: in a table only when it is open, and with that neighbour (`Held`), once in a backlog and then
  in no table (`Waiting`), open only to processes that run (`Opened`), and untouched before
  `connectNbrs` has made it (`Fresh`). `Channels` is, as in the link, a run of the listener over what it has still to read, that
  ends where the sender of the frames is now, and that receives the CLOSE when one was told. The second, `MeshInv`, is about networks in which no process has been started
  twice: `Linked`, that of two neighbours that run the larger has connected, and the smaller has
  accepted the connection or has it in its backlog; `Counted`, that `conNum` of `waitNbrs` is the number of connections it has
  accepted; `Known`, that a process that has done with starting has a connection to every neighbour that is up.
  That `waitNbrs` waits for nobody in vain is then a matter of counting: as long as it waits, fewer are accepted
  than there are larger neighbours, and one of them has not been started.

### The first two versions of STCP

- `StcpHandshake_proofs`: `HandshakeInvariance`, `HandshakeTypes`, `HandshakeAgreement`
  (`HandshakeAgrees`), and `SocketRefinement` (`HandshakeSpec => ImplementsSockets`), for any number of repetitions. Besides what a segment on its way proves about its sender (`InFlight`), it needs what the state of the
  entry at one end proves about the other (`Entries`), and that the server application has not touched
  the second socket yet while it is at the first (`NotYet`). The refinement needs one fact more: the client application
  goes from socket to socket and from call to call in a fixed order (`Order`), so it sends no FIN for a socket it has not connected.
- `StcpTransfer_proofs`: `TransferInvariance`, and from it `TransferTypes` (with the bound of
  `usedBufLen`), `TransferStream` (`StreamKept`), `TransferWindow` (`WindowTrue`) and `TransferStarved`
  (`StarvedExplained`). `ClientControl` and `ServerControl` say what the places of the two applications
  mean for the buffers; `Window`, that `Launch` looks at the window and nothing makes `unAck_segNum` grow before
  `Count`; `InFlight`, that a DATA segment is one the application has written and an acknowledgement is not ahead of
  the server; `Stream`, that without a collision what was delivered, discarded and is in the buffer is what was accepted,
  in order; `SynFirst`, that a SYN comes before everything else; `Fins`, that a FIN is sent when all data is acknowledged,
  unless the client was hasty. `TransferRefinement` (`TransferSpec => Promise!StreamSpec`) and `LifetimeRefinement`
  (`TransferSpec => Lifetime!ConnectionSpec`), together `TransferImplements` (`ImplementsTransfer`), map the state to the two
  abstract ones. An acknowledgement may free several nodes, and one that is late frees none; that it never frees what
  was not taken is `InFlight`. For the life of the connection a second invariant, `LifeInv`, says what each segment on its way
  shows: a SYNACK that the server has opened, a FIN that the client has connected and then called disconnect, a FINACK that the server has taken the FIN.

### The programs beside the stack

- `PeerConnection_proofs`: `PieceInvariance`, and from it `PieceTypes`, `PiecesPartitioned`
  (`PiecePartition`), `DownloadedFile` (`FileIsGood`), `AbortsAccounted` (`AbortsExplained`) and
  `BlocksRequested` (`NoLostBlock`). The functions of the manager lock, unlock and lock again, so what a thread has
  found out may be old when it acts on it. `Alone` says that without a race it is not: as long as no two threads were in `blockReceived`
  with one piece, the piece of a thread is still in progress, complete when the thread has found it so, and good when the thread has
  found its hash right. `Started` keeps everybody away from pieces that nobody has begun; `Good` says that no piece is counted twice. The file needs the position too: `OnDisk` says that, unless two writes were mixed, at most one thread is between
its `seekp` and its `<<`, and the position is then that of its piece; so what is had, or written and not yet counted, is in its place, and nothing is behind
the last. `Known` says that two threads never talk to
  one peer unless it was added twice; `Requested` is `NoLostBlock` with a single excuse left, a thread that has not stored the block yet.
- `Clients_proofs`, the game: `GameInvariance`, and from it `GameTyped` and `PointersHold` (`PointersValid`).
  That no number in `ulist` dangles is a fact about two tables that one request changes
  together; it is inductive only with the sessions: a thread that takes a packet belongs to a user who is logged in
  (`Sessions`), because the client does not send before it has been told so. A look at a game picks the
  opponent as the first of the game's set that is not the player: the least name is shown to exist by
  well-founded induction on the order of the names. `GameTyped` has the bound of what is on its
  way to a client, for which what a thread still owes must be counted with what it has sent.
- `Clients_proofs`, the rounds: `RoundsInvariance`, and from it `RoundsAgreement` (`RoundsAgree`), for any number of
  users, any hands, any `WIN` and games of any length. The hands are compared once, but two threads tell them at different times, and
  between the two a player may have played on, left, or been invited elsewhere. The argument follows the hand: it is
  with the thread that reads it, in the game, compared but not told, or its result is on the way back, and in one of these
  places only (`HandIs`, `Once`), so nobody has two hands in a round. `read` is 0 for both players, then 1 for both, and the
  first told goes to 2; when the second is told the next round begins, so the two are never two rounds apart (`ReadIs`). Each result that was
  shown or is on its way is of a round that is over, or has the hands that the server keeps for the opponent (`Fits`, `ResultIs`);
  when the second result is sent it is therefore the mirror of the first (`Mirrored`). The rest
  keeps the games apart: a `gamequit` is taken before anything of the next game (`QuitIs`), a player who is still marked as ready
  has not played (`ReadyIs`, `AcceptIs`), and the number of a game is its own (`Ids`).
- `Clients_proofs`, the weather client: `WeatherInvariance`, `WeatherTyped`, `MenuOpens`
  (`MenuOfKnownCity`). The invariant says that for a person who waits, everything on its way is about the
  city typed last (`AboutLatest`), and that the server calls only a city it knows one (`Confirmed`).

### What the proofs have shown about the models

A definition that a proof could not use was rewritten, and the runs repeated: `With` of
`GameServer` extends a table by one entry, `Candidates` and `Move` of `PieceManager` and `Wrote` of `SonSipLink` name what several actions
do alike. Three things were wrong, and it took a proof to see them; TLC confirmed the first two, each on a path of its own.

- `RoundsAgree` as it was first stated is false for three users: it compared the names of the opponents, and a name and a
  hand of an old game could meet those of a newer one. It now compares games, by the number that goes along as history.
- An invitation of a user who has left and come back is still in `glist`, and whoever accepts it moves that user
  out of its present game (`ulist[oppo].join_game(gid)`), so the next hand is counted in the old one. This is what the code
  does; `late` records it, as it does a hand that comes too late, and `RoundsAgree` excepts both.
- `HandleExit` removed the entry of the user of a connection that had not logged in. The thread's `name`
  is empty there, and `ulist.erase(name)` takes away nothing of anybody's; in the model a client that ended before it
  had logged in took away the entry of its name, when there was one. The model was changed to what the code does.

### What stays with TLC

- Liveness (`LaunchedFreed`, `CallsReturn`, `Converges`, `PacketsEnd`): the prover has no
  rules for fairness. The claims: they are counterexamples.
- `LayoutExact` and `HashRight`: comparisons of computations by the code (`initiatePieces`, SHA-1) with
  a result, for given inputs; for all inputs they would be inductions over data. `Sha1` is also
  written with `Bitwise`, of which the prover knows nothing.
- `TypeOK` of `MCApplications`: a conjunction of type invariants, each proved for its own program
  (`GameTyped`, `PieceTypes`, `WeatherTyped`) except that of SHA-1. The types of the other programs are part of
  inductive invariants or theorems of their own (`TypeCorrect`, `SessionTypes`, `OverlayTyped`, `LinkTyped`, `TransferTypes`,
  `HandshakeTypes`).

## 5. What is not modelled

- For Exp4-4, the composition of `StcpData` with `StcpSession`: closing with
  data in the buffers is modelled for Exp4-2 only, where it is the same code. A late SYN that
  resets `expect_seqNum` needs a network that reorders, and so this composition.
- The bytes of segments and packets: checksum arithmetic, lengths, a length that
  `seglost` has damaged, the 32-bit wrap of sequence numbers after 4 GB.
- SIP when its connection to STCP fails: `pkthandler` ends when it cannot hand a segment to
  STCP. The signal handler `sip_stop` that locks `dv_mutex` in a thread that may hold it.
- `Exp4-3`: a SON that is nearly the one of Exp4-4 (no CLOSE, a listener that
  returns when forwarding fails) under a SIP that only prints.
- The user list the game server sends to be displayed, its terminal menu (which loops
  with the lock held when a game has round 0), and accepting connections.
- A player who invites himself, and one who types faster than the server answers.
- Parsers, printing, the topology file, and the metainfo and tracker of `Exp5`: sequential
  work on strings, better tested than model-checked.

No liveness is stated for the modules of `stack` and `applications`: most of these
programs stop for ever after a signal, a lost frame or a reset, as the properties
that name the exceptions say.

## 6. Plan

Done: every module of section 2, checked by TLC, and proofs of every safety property except
`LayoutExact` and `HashRight`.

Next:

1. Action properties of the tables: `havePieces` only grows, a route update changes nothing but the receiver's tables.
