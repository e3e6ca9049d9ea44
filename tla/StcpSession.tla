------------------------------ MODULE StcpSession -----------------------------
(***************************************************************************)
(* Opening and closing STCP connections between one client process and one *)
(* server process: stcp_client_sock, connect, disconnect, close, the       *)
(* client's seghandler; stcp_server_sock, accept, close, the server's      *)
(* seghandler and timer_thread.  A connection is a pair of ports that each *)
(* application uses once.  The DATA and DATAACK branches of the two        *)
(* seghandlers are in StcpSender and StcpReceiver.                         *)
(*                                                                         *)
(* Each process has one application thread, which calls STCP one function  *)
(* at a time and exits when a call fails, as the applications beside       *)
(* stcp_client.c and stcp_server.c do.  The client's application thread is *)
(* the only user of its st_mutex, so that mutex excludes nobody; the       *)
(* server's st_mutex makes one step of each branch of its seghandler, of a *)
(* tick of timer_thread and of a call.  Both seghandlers look a port up in *)
(* tcb_list before, and use the entry after, other threads may have run.   *)
(*                                                                         *)
(* Segments of each kind in flight are counted: the overlay can lose and   *)
(* reorder them, and only a retransmission makes a second one.             *)
(***************************************************************************)
EXTENDS Naturals

CONSTANTS
  Conn,             \* the connections
  SYN_MAX_RETRY,
  FIN_MAX_RETRY,
  SipMayFail,       \* whether a local SIP process may go away
  NoConn            \* no connection

ASSUME SessionAssumption ==
  /\ SYN_MAX_RETRY \in Nat \ {0}
  /\ FIN_MAX_RETRY \in Nat \ {0}
  /\ SipMayFail \in BOOLEAN
  /\ NoConn \notin Conn

VARIABLES
  syns, fins,        \* SYN and FIN segments in flight, per connection
  synacks, finacks,  \* SYNACK and FINACK segments in flight
  cliProc,           \* the client process: "up", "exited" or "crashed"
  sip,               \* its connection to the local SIP process: "open", "closed"
  cliState,          \* tcb_list of the client: the state, or "NULL"
  cliApp,            \* how far the application is with each connection
  cliPc, cliConn,    \* the call it is in, and for which connection
  retry,
  hdlPc,             \* where the client's seghandler is
  hdlType, hdlConn,  \* the segment it works on
  srvProc,
  srvState,          \* tcb_list of the server
  srvApp,
  srvPc, srvConn,
  shdPc,             \* where the server's seghandler is
  shdType, shdConn

segVars == <<syns, fins, synacks, finacks>>
cliAppVars == <<cliApp, cliPc, cliConn, retry>>
hdlVars == <<hdlPc, hdlType, hdlConn>>
clientVars == <<cliProc, sip, cliState, cliAppVars, hdlVars>>
srvAppVars == <<srvApp, srvPc, srvConn>>
shdVars == <<shdPc, shdType, shdConn>>
serverVars == <<srvProc, srvState, srvAppVars, shdVars>>
vars == <<segVars, clientVars, serverVars>>

Sent(segs, c) == [segs EXCEPT ![c] = @ + 1]
Gone(segs, c) == [segs EXCEPT ![c] = @ - 1]

Init ==
  /\ syns = [c \in Conn |-> 0] /\ fins = [c \in Conn |-> 0]
  /\ synacks = [c \in Conn |-> 0] /\ finacks = [c \in Conn |-> 0]
  /\ cliProc = "up" /\ sip = "open"
  /\ cliState = [c \in Conn |-> "NULL"] /\ cliApp = [c \in Conn |-> "unused"]
  /\ cliPc = "idle" /\ cliConn = NoConn /\ retry = 0
  /\ hdlPc = "recv" /\ hdlType = "none" /\ hdlConn = NoConn
  /\ srvProc = "up"
  /\ srvState = [c \in Conn |-> "NULL"] /\ srvApp = [c \in Conn |-> "unused"]
  /\ srvPc = "idle" /\ srvConn = NoConn
  /\ shdPc = "recv" /\ shdType = "none" /\ shdConn = NoConn
-----------------------------------------------------------------------------
(* The client's application thread                                         *)

ClientSock(c) ==
  /\ cliPc = "idle"
  /\ cliApp[c] = "unused"
  /\ cliState' = [cliState EXCEPT ![c] = "CLOSED"]
  /\ cliApp' = [cliApp EXCEPT ![c] = "sock"]
  /\ UNCHANGED <<segVars, cliProc, sip, cliPc, cliConn, retry, hdlVars, serverVars>>

\* stcp_client_connect sends a SYN,
Connect(c) ==
  /\ cliPc = "idle"
  /\ cliApp[c] = "sock"
  /\ sip = "open"
  /\ syns' = Sent(syns, c)
  /\ cliApp' = [cliApp EXCEPT ![c] = "connecting"]
  /\ cliPc' = "synsent"
  /\ cliConn' = c
  /\ UNCHANGED <<fins, synacks, finacks, cliProc, sip, cliState, retry, hdlVars, serverVars>>

\* sets the state after that,
EnterSynSent ==
  /\ cliPc = "synsent"
  /\ cliState' = [cliState EXCEPT ![cliConn] = "SYNSENT"]
  /\ retry' = 0
  /\ cliPc' = "synwait"
  /\ UNCHANGED <<segVars, cliProc, sip, cliApp, cliConn, hdlVars, serverVars>>

\* and after every timeout returns 1 if the state has become CONNECTED,
\* (Faulty variant of the next action: any state but CLOSED will do.)
ConnectReturns_NotClosed ==
  /\ cliPc = "synwait"
  /\ cliState[cliConn] # "CLOSED"
  /\ cliApp' = [cliApp EXCEPT ![cliConn] = "open"]
  /\ cliPc' = "idle"
  /\ cliConn' = NoConn
  /\ UNCHANGED <<segVars, cliProc, sip, cliState, retry, hdlVars, serverVars>>

ConnectReturns ==
  /\ cliPc = "synwait"
  /\ cliState[cliConn] = "CONNECTED"
  /\ cliApp' = [cliApp EXCEPT ![cliConn] = "open"]
  /\ cliPc' = "idle"
  /\ cliConn' = NoConn
  /\ UNCHANGED <<segVars, cliProc, sip, cliState, retry, hdlVars, serverVars>>

\* or sends the SYN again, up to SYN_MAX_RETRY times.
\* (Faulty variant of the next action: one retry too many.)
ResendSyn_OneMore ==
  /\ cliPc = "synwait"
  /\ cliState[cliConn] # "CONNECTED"
  /\ sip = "open"
  /\ syns' = Sent(syns, cliConn)
  /\ retry' = retry + 1
  /\ cliPc' = IF retry' <= SYN_MAX_RETRY THEN "synwait" ELSE "syngiveup"
  /\ UNCHANGED <<fins, synacks, finacks, cliProc, sip, cliState, cliApp, cliConn, hdlVars, serverVars>>

ResendSyn ==
  /\ cliPc = "synwait"
  /\ cliState[cliConn] # "CONNECTED"
  /\ sip = "open"
  /\ syns' = Sent(syns, cliConn)
  /\ retry' = retry + 1
  /\ cliPc' = IF retry' < SYN_MAX_RETRY THEN "synwait" ELSE "syngiveup"
  /\ UNCHANGED <<fins, synacks, finacks, cliProc, sip, cliState, cliApp, cliConn, hdlVars, serverVars>>

\* After the last SYN the state is set to CLOSED whatever it is by then, and
\* the call returns -1.
ConnectGivesUp ==
  /\ cliPc = "syngiveup"
  /\ cliState' = [cliState EXCEPT ![cliConn] = "CLOSED"]
  /\ cliPc' = "failed"
  /\ UNCHANGED <<segVars, cliProc, sip, cliApp, cliConn, retry, hdlVars, serverVars>>

\* stcp_client_disconnect goes the same way with FIN, FINWAIT and CLOSED.  It
\* does not look at the send buffer.
Disconnect(c) ==
  /\ cliPc = "idle"
  /\ cliApp[c] = "open"
  /\ sip = "open"
  /\ fins' = Sent(fins, c)
  /\ cliApp' = [cliApp EXCEPT ![c] = "disconnecting"]
  /\ cliPc' = "finsent"
  /\ cliConn' = c
  /\ UNCHANGED <<syns, synacks, finacks, cliProc, sip, cliState, retry, hdlVars, serverVars>>

EnterFinWait ==
  /\ cliPc = "finsent"
  /\ cliState' = [cliState EXCEPT ![cliConn] = "FINWAIT"]
  /\ retry' = 0
  /\ cliPc' = "finwait"
  /\ UNCHANGED <<segVars, cliProc, sip, cliApp, cliConn, hdlVars, serverVars>>

DisconnectReturns ==
  /\ cliPc = "finwait"
  /\ cliState[cliConn] = "CLOSED"
  /\ cliApp' = [cliApp EXCEPT ![cliConn] = "shut"]
  /\ cliPc' = "idle"
  /\ cliConn' = NoConn
  /\ UNCHANGED <<segVars, cliProc, sip, cliState, retry, hdlVars, serverVars>>

\* (Faulty variant of the next action: the retries are not counted.)
ResendFin_NoCount ==
  /\ cliPc = "finwait"
  /\ cliState[cliConn] # "CLOSED"
  /\ sip = "open"
  /\ UNCHANGED <<segVars, clientVars, serverVars>>

ResendFin ==
  /\ cliPc = "finwait"
  /\ cliState[cliConn] # "CLOSED"
  /\ sip = "open"
  /\ fins' = Sent(fins, cliConn)
  /\ retry' = retry + 1
  /\ cliPc' = IF retry' < FIN_MAX_RETRY THEN "finwait" ELSE "fingiveup"
  /\ UNCHANGED <<syns, synacks, finacks, cliProc, sip, cliState, cliApp, cliConn, hdlVars, serverVars>>

DisconnectGivesUp ==
  /\ cliPc = "fingiveup"
  /\ cliState' = [cliState EXCEPT ![cliConn] = "CLOSED"]
  /\ cliPc' = "failed"
  /\ UNCHANGED <<segVars, cliProc, sip, cliApp, cliConn, retry, hdlVars, serverVars>>

ClientClose(c) ==
  /\ cliPc = "idle"
  /\ cliApp[c] = "shut"
  /\ cliState[c] = "CLOSED"
  /\ cliState' = [cliState EXCEPT ![c] = "NULL"]
  /\ cliApp' = [cliApp EXCEPT ![c] = "done"]
  /\ UNCHANGED <<segVars, cliProc, sip, cliPc, cliConn, retry, hdlVars, serverVars>>

\* sip_sendseg failed: the call returns -1.
SegNotSent ==
  /\ sip = "closed"
  /\ \/ cliPc = "idle" /\ \E c \in Conn : cliApp[c] \in {"sock", "open"}
     \/ cliPc = "synwait" /\ cliState[cliConn] # "CONNECTED"
     \/ cliPc = "finwait" /\ cliState[cliConn] # "CLOSED"
  /\ cliPc' = "failed"
  /\ UNCHANGED <<segVars, cliProc, sip, cliState, cliApp, cliConn, retry, hdlVars, serverVars>>

\* The application exits when a call has failed.
ClientExits ==
  /\ cliPc = "failed"
  /\ cliProc' = "exited"
  /\ UNCHANGED <<segVars, sip, cliState, cliAppVars, hdlVars, serverVars>>
-----------------------------------------------------------------------------
(* The client's seghandler                                                 *)

\* A segment is received and its port looked up: no entry has it, and the
\* thread ends; or the thread goes on with the entry it found.
ClientRecv(type, c) ==
  /\ hdlPc = "recv"
  /\ sip = "open"
  /\ \/ type = "SYNACK" /\ synacks[c] > 0 /\ synacks' = Gone(synacks, c) /\ UNCHANGED finacks
     \/ type = "FINACK" /\ finacks[c] > 0 /\ finacks' = Gone(finacks, c) /\ UNCHANGED synacks
  /\ IF cliState[c] = "NULL"
       THEN hdlPc' = "ended" /\ UNCHANGED <<hdlType, hdlConn>>
       ELSE hdlPc' = "found" /\ hdlType' = type /\ hdlConn' = c
  /\ UNCHANGED <<syns, fins, cliProc, sip, cliState, cliAppVars, serverVars>>

NextClientSeg ==
  /\ hdlPc' = "recv"
  /\ hdlType' = "none"
  /\ hdlConn' = NoConn

\* What the switch on the state and the type of the segment selects.
Awaited(state, type) ==
  \/ state = "SYNSENT" /\ type = "SYNACK"
  \/ state = "FINWAIT" /\ type = "FINACK"

\* The state of the entry is read.  It calls for a new state,
ClientReads ==
  /\ hdlPc = "found"
  /\ cliState[hdlConn] # "NULL"
  /\ Awaited(cliState[hdlConn], hdlType)
  /\ hdlPc' = "write"
  /\ UNCHANGED <<segVars, cliProc, sip, cliState, cliAppVars, hdlType, hdlConn, serverVars>>

\* or the segment is ignored,
ClientIgnores ==
  /\ hdlPc = "found"
  /\ cliState[hdlConn] # "NULL"
  /\ ~Awaited(cliState[hdlConn], hdlType)
  /\ NextClientSeg
  /\ UNCHANGED <<segVars, cliProc, sip, cliState, cliAppVars, serverVars>>

\* or the entry was freed since it was found.
ClientCrashes ==
  /\ hdlPc = "found"
  /\ cliState[hdlConn] = "NULL"
  /\ cliProc' = "crashed"
  /\ UNCHANGED <<segVars, sip, cliState, cliAppVars, hdlVars, serverVars>>

\* The new state is written.
ClientWrites ==
  /\ hdlPc = "write"
  /\ cliState' = [cliState EXCEPT ![hdlConn] = IF hdlType = "SYNACK" THEN "CONNECTED" ELSE "CLOSED"]
  /\ NextClientSeg
  /\ UNCHANGED <<segVars, cliProc, sip, cliAppVars, serverVars>>

ClientHandlerEnds ==
  /\ hdlPc = "recv"
  /\ sip = "closed"
  /\ hdlPc' = "ended"
  /\ UNCHANGED <<segVars, cliProc, sip, cliState, cliAppVars, hdlType, hdlConn, serverVars>>
-----------------------------------------------------------------------------
(* The server's application thread and timer_thread                        *)

ServerSock(c) ==
  /\ srvPc = "idle"
  /\ srvApp[c] = "unused"
  /\ srvState' = [srvState EXCEPT ![c] = "CLOSED"]
  /\ srvApp' = [srvApp EXCEPT ![c] = "sock"]
  /\ UNCHANGED <<segVars, clientVars, srvProc, srvPc, srvConn, shdVars>>

\* stcp_server_accept sets the state and waits for st_cond.
Accept(c) ==
  /\ srvPc = "idle"
  /\ srvApp[c] = "sock"
  /\ srvState' = [srvState EXCEPT ![c] = "LISTENING"]
  /\ srvApp' = [srvApp EXCEPT ![c] = "accepting"]
  /\ srvPc' = "accept"
  /\ srvConn' = c
  /\ UNCHANGED <<segVars, clientVars, srvProc, shdVars>>

\* Woken, it returns if the state is CONNECTED,
AcceptReturns ==
  /\ srvPc = "woken"
  /\ srvState[srvConn] = "CONNECTED"
  /\ srvApp' = [srvApp EXCEPT ![srvConn] = "open"]
  /\ srvPc' = "idle"
  /\ srvConn' = NoConn
  /\ UNCHANGED <<segVars, clientVars, srvProc, srvState, shdVars>>

\* and waits again if it is not.
AcceptWaits ==
  /\ srvPc = "woken"
  /\ srvState[srvConn] # "CONNECTED"
  /\ srvPc' = "accept"
  /\ UNCHANGED <<segVars, clientVars, srvProc, srvState, srvApp, srvConn, shdVars>>

ServerClose(c) ==
  /\ srvPc = "idle"
  /\ srvApp[c] = "open"
  /\ srvState[c] = "CLOSED"
  /\ srvState' = [srvState EXCEPT ![c] = "NULL"]
  /\ srvApp' = [srvApp EXCEPT ![c] = "done"]
  /\ UNCHANGED <<segVars, clientVars, srvProc, srvPc, srvConn, shdVars>>

\* stcp_server_close finds another state than CLOSED and returns -1, and the
\* application exits.
ServerExits ==
  /\ srvPc = "idle"
  /\ \E c \in Conn : srvApp[c] = "open" /\ srvState[c] # "CLOSED"
  /\ srvProc' = "exited"
  /\ UNCHANGED <<segVars, clientVars, srvState, srvAppVars, shdVars>>

\* timer_thread: every CLOSEWAIT_TIMEOUT seconds all CLOSEWAIT become CLOSED.
\* (Faulty variant of the next action: open connections are closed as well.)
Tick_All ==
  /\ \E c \in Conn : srvState[c] = "CONNECTED"
  /\ srvState' = [c \in Conn |-> IF srvState[c] \in {"CONNECTED", "CLOSEWAIT"} THEN "CLOSED" ELSE srvState[c]]
  /\ UNCHANGED <<segVars, clientVars, srvProc, srvAppVars, shdVars>>

Tick ==
  /\ \E c \in Conn : srvState[c] = "CLOSEWAIT"
  /\ srvState' = [c \in Conn |-> IF srvState[c] = "CLOSEWAIT" THEN "CLOSED" ELSE srvState[c]]
  /\ UNCHANGED <<segVars, clientVars, srvProc, srvAppVars, shdVars>>
-----------------------------------------------------------------------------
(* The server's seghandler                                                 *)

\* A segment is received and its port looked up, without st_mutex; a segment
\* for a port that no entry has is ignored.
ServerRecv(type, c) ==
  /\ shdPc = "recv"
  /\ \/ type = "SYN" /\ syns[c] > 0 /\ syns' = Gone(syns, c) /\ UNCHANGED fins
     \/ type = "FIN" /\ fins[c] > 0 /\ fins' = Gone(fins, c) /\ UNCHANGED syns
  /\ IF srvState[c] = "NULL"
       THEN UNCHANGED shdVars
       ELSE shdPc' = "found" /\ shdType' = type /\ shdConn' = c
  /\ UNCHANGED <<synacks, finacks, clientVars, srvProc, srvState, srvAppVars>>

NextServerSeg ==
  /\ shdPc' = "recv"
  /\ shdType' = "none"
  /\ shdConn' = NoConn

\* (Faulty variant of the next action: a SYN opens a closed entry, too.)
TakeSyn_Reopens ==
  /\ shdPc = "found"
  /\ shdType = "SYN"
  /\ srvState[shdConn] \in {"LISTENING", "CLOSED"}
  /\ srvState' = [srvState EXCEPT ![shdConn] = "CONNECTED"]
  /\ srvPc' = IF srvPc = "accept" THEN "woken" ELSE srvPc
  /\ synacks' = Sent(synacks, shdConn)
  /\ NextServerSeg
  /\ UNCHANGED <<syns, fins, finacks, clientVars, srvProc, srvApp, srvConn>>

\* LISTENING: a SYN opens the connection and wakes stcp_server_accept.
TakeSyn ==
  /\ shdPc = "found"
  /\ shdType = "SYN"
  /\ srvState[shdConn] = "LISTENING"
  /\ srvState' = [srvState EXCEPT ![shdConn] = "CONNECTED"]
  /\ srvPc' = IF srvPc = "accept" THEN "woken" ELSE srvPc
  /\ synacks' = Sent(synacks, shdConn)
  /\ NextServerSeg
  /\ UNCHANGED <<syns, fins, finacks, clientVars, srvProc, srvApp, srvConn>>

\* CONNECTED: a repeated SYN is acknowledged again.
RepeatSynAck ==
  /\ shdPc = "found"
  /\ shdType = "SYN"
  /\ srvState[shdConn] = "CONNECTED"
  /\ synacks' = Sent(synacks, shdConn)
  /\ NextServerSeg
  /\ UNCHANGED <<syns, fins, finacks, clientVars, srvProc, srvState, srvAppVars>>

\* CONNECTED or CLOSEWAIT: a FIN is acknowledged.
\* (Faulty variant of the next action: the connection stays open.)
TakeFin_StaysOpen ==
  /\ shdPc = "found"
  /\ shdType = "FIN"
  /\ srvState[shdConn] \in {"CONNECTED", "CLOSEWAIT"}
  /\ finacks' = Sent(finacks, shdConn)
  /\ NextServerSeg
  /\ UNCHANGED <<syns, fins, synacks, clientVars, srvProc, srvState, srvAppVars>>

TakeFin ==
  /\ shdPc = "found"
  /\ shdType = "FIN"
  /\ srvState[shdConn] \in {"CONNECTED", "CLOSEWAIT"}
  /\ srvState' = [srvState EXCEPT ![shdConn] = "CLOSEWAIT"]
  /\ finacks' = Sent(finacks, shdConn)
  /\ NextServerSeg
  /\ UNCHANGED <<syns, fins, synacks, clientVars, srvProc, srvAppVars>>

\* Any other segment is ignored.
ServerIgnores ==
  /\ shdPc = "found"
  /\ \/ srvState[shdConn] = "CLOSED"
     \/ srvState[shdConn] = "LISTENING" /\ shdType # "SYN"
     \/ srvState[shdConn] = "CLOSEWAIT" /\ shdType # "FIN"
  /\ NextServerSeg
  /\ UNCHANGED <<segVars, clientVars, srvProc, srvState, srvAppVars>>

\* The entry was freed since it was found.
ServerCrashes ==
  /\ shdPc = "found"
  /\ srvState[shdConn] = "NULL"
  /\ srvProc' = "crashed"
  /\ UNCHANGED <<segVars, clientVars, srvState, srvAppVars, shdVars>>
-----------------------------------------------------------------------------
(* The network and the local SIP processes                                 *)

\* A segment is dropped, in the overlay or by seglost.
Lose(c) ==
  /\ \/ syns[c] > 0 /\ syns' = Gone(syns, c) /\ UNCHANGED <<fins, synacks, finacks>>
     \/ fins[c] > 0 /\ fins' = Gone(fins, c) /\ UNCHANGED <<syns, synacks, finacks>>
     \/ synacks[c] > 0 /\ synacks' = Gone(synacks, c) /\ UNCHANGED <<syns, fins, finacks>>
     \/ finacks[c] > 0 /\ finacks' = Gone(finacks, c) /\ UNCHANGED <<syns, fins, synacks>>
  /\ UNCHANGED <<clientVars, serverVars>>

SipCloses ==
  /\ SipMayFail
  /\ sip = "open"
  /\ sip' = "closed"
  /\ UNCHANGED <<segVars, cliProc, cliState, cliAppVars, hdlVars, serverVars>>

\* The server's seghandler ends the process when its SIP process goes away.
ServerSipCloses ==
  /\ SipMayFail
  /\ shdPc = "recv"
  /\ srvProc' = "exited"
  /\ UNCHANGED <<segVars, clientVars, srvState, srvAppVars, shdVars>>
-----------------------------------------------------------------------------
CallStep ==
  \/ EnterSynSent \/ ConnectReturns \/ ResendSyn \/ ConnectGivesUp
  \/ EnterFinWait \/ DisconnectReturns \/ ResendFin \/ DisconnectGivesUp
  \/ SegNotSent \/ ClientExits

ClientHandlerStep ==
  \/ \E c \in Conn, type \in {"SYNACK", "FINACK"} : ClientRecv(type, c)
  \/ ClientReads \/ ClientIgnores \/ ClientCrashes \/ ClientWrites \/ ClientHandlerEnds

ClientNext ==
  /\ cliProc = "up"
  /\ \/ \E c \in Conn : ClientSock(c) \/ Connect(c) \/ Disconnect(c) \/ ClientClose(c)
     \/ CallStep
     \/ ClientHandlerStep
     \/ SipCloses

ServerHandlerStep ==
  \/ \E c \in Conn, type \in {"SYN", "FIN"} : ServerRecv(type, c)
  \/ TakeSyn \/ RepeatSynAck \/ TakeFin \/ ServerIgnores \/ ServerCrashes

ServerNext ==
  /\ srvProc = "up"
  /\ \/ \E c \in Conn : ServerSock(c) \/ Accept(c) \/ ServerClose(c)
     \/ AcceptReturns \/ AcceptWaits \/ ServerExits
     \/ Tick
     \/ ServerHandlerStep
     \/ ServerSipCloses

Next == ClientNext \/ ServerNext \/ \E c \in Conn : Lose(c)

Spec == Init /\ [][Next]_vars

\* A thread inside a call is scheduled.
FairSpec == Spec /\ WF_vars(cliProc = "up" /\ CallStep)
-----------------------------------------------------------------------------
(* Properties                                                              *)

AppStages == {"unused", "sock", "connecting", "open", "disconnecting", "shut", "done"}
CallPcs == {"idle", "synsent", "synwait", "syngiveup", "finsent", "finwait", "fingiveup", "failed"}

\* The variables hold values of their types; the retries stay within their
\* bound.
TypeOK ==
  /\ syns \in [Conn -> Nat] /\ fins \in [Conn -> Nat]
  /\ synacks \in [Conn -> Nat] /\ finacks \in [Conn -> Nat]
  /\ cliProc \in {"up", "exited", "crashed"}
  /\ sip \in {"open", "closed"}
  /\ cliState \in [Conn -> {"NULL", "CLOSED", "SYNSENT", "CONNECTED", "FINWAIT"}]
  /\ cliApp \in [Conn -> AppStages]
  /\ cliPc \in CallPcs
  /\ cliConn \in Conn \cup {NoConn}
  /\ retry \in 0..(IF SYN_MAX_RETRY < FIN_MAX_RETRY THEN FIN_MAX_RETRY ELSE SYN_MAX_RETRY)
  /\ hdlPc \in {"recv", "found", "write", "ended"}
  /\ hdlType \in {"none", "SYNACK", "FINACK"}
  /\ hdlConn \in Conn \cup {NoConn}
  /\ srvProc \in {"up", "exited", "crashed"}
  /\ srvState \in [Conn -> {"NULL", "CLOSED", "LISTENING", "CONNECTED", "CLOSEWAIT"}]
  /\ srvApp \in [Conn -> {"unused", "sock", "accepting", "open", "done"}]
  /\ srvPc \in {"idle", "accept", "woken"}
  /\ srvConn \in Conn \cup {NoConn}
  /\ shdPc \in {"recv", "found"}
  /\ shdType \in {"none", "SYN", "FIN"}
  /\ shdConn \in Conn \cup {NoConn}

\* The server has taken the FIN of the connection, or its SYN at least.
FinTaken(c) ==
  \/ srvState[c] = "CLOSEWAIT"
  \/ srvState[c] \in {"CLOSED", "NULL"} /\ srvApp[c] \in {"accepting", "open", "done"}
Opened(c) == srvState[c] = "CONNECTED" \/ FinTaken(c)

\* A connection stcp_client_connect reported open has been opened by the
\* server, however late, often or out of order SYN and SYNACK arrive.
EstablishedBothEnds ==
  \A c \in Conn : cliApp[c] \in {"open", "disconnecting", "shut", "done"} => Opened(c)

\* When stcp_client_disconnect has returned 1 the server has left CONNECTED:
\* no end of the connection stays behind open.
OrderlyClose ==
  \A c \in Conn : cliApp[c] \in {"shut", "done"} => FinTaken(c)

\* The server leaves CONNECTED only when its client has disconnected: neither
\* timer_thread, nor a segment of another connection, nor a delayed segment
\* closes a connection in use.
CloseOnlyOnFin ==
  \A c \in Conn : FinTaken(c) => cliApp[c] \in {"disconnecting", "shut", "done"}

\* A delayed SYN or FIN never opens again what the server has closed.
NeverReopens == [][\A c \in Conn : FinTaken(c) => FinTaken(c)']_vars

\* Every step of the two processes and the network is a step in the life of one
\* connection, or changes nothing of it: the stages the two ends have reached,
\* read off the states of their entries and of the two applications, are taken in
\* the order connect, accept and disconnect mean, and never taken back.
Connection == INSTANCE StcpConnection WITH
                Connections <- Conn,
                opened <- {c \in Conn : Opened(c)},
                established <- {c \in Conn : cliApp[c] \in {"open", "disconnecting", "shut", "done"}},
                finned <- {c \in Conn : cliApp[c] \in {"disconnecting", "shut", "done"}},
                finTaken <- {c \in Conn : FinTaken(c)},
                disconnected <- {c \in Conn : cliApp[c] \in {"shut", "done"}}
ImplementsConnection == Connection!ConnectionSpec

\* stcp_client_connect and stcp_client_disconnect come to an end, also when
\* every segment is lost, when the seghandler of either side has ended, and
\* when the server has gone.
CallsReturn == (cliPc # "idle") ~> (cliPc = "idle" \/ cliProc # "up")
=============================================================================
