---------------------------- MODULE WeatherClient -----------------------------
(***************************************************************************)
(* The weather client of Exp2: one process that waits in select for its    *)
(* person and for the server, and keeps where it is in a menu of three     *)
(* levels.  The server is not in the source: it answers every packet with  *)
(* one packet, in order, and knows the cities Known.                       *)
(***************************************************************************)
EXTENDS Integers, Sequences

CONSTANTS
  City,          \* what the person types as a city
  Known,         \* the cities the server knows
  MaxPackets     \* bound: packets the person makes the client send

ASSUME WeatherAssumption == Known \subseteq City /\ MaxPackets \in Nat

VARIABLES
  menulevel,
  cityname,      \* as of the last city typed, or "" before
  toServer, toClient,
  packets,       \* how many packets were sent
  closed,
  hasty          \* history: a city was typed before the last one was answered

weatherVars == <<menulevel, cityname, toServer, toClient, packets, closed, hasty>>

Types(queue) == {queue[i].type : i \in DOMAIN queue}
CityPending == (Types(toServer) \cup Types(toClient)) \cap {"ask", "city", "wrong"} # {}

WeatherInit ==
  /\ menulevel = 1 /\ cityname = ""
  /\ toServer = <<>> /\ toClient = <<>>
  /\ packets = 0 /\ closed = FALSE /\ hasty = FALSE

Send(type, city, number) ==
  /\ packets < MaxPackets /\ packets' = packets + 1
  /\ toServer' = Append(toServer, [type |-> type, city |-> city, number |-> number])
  /\ UNCHANGED <<toClient, closed>>

TypeCity(city) ==
  /\ ~closed /\ menulevel = 1
  /\ cityname' = city
  /\ Send("ask", city, 0)
  /\ hasty' = (hasty \/ CityPending)
  /\ UNCHANGED menulevel

\* Menu entries 1 and 2: the weather of one day, or of three.
TypeQuery ==
  /\ ~closed /\ menulevel = 2
  /\ \E number \in {1, 3} : Send("query", cityname, number)
  /\ UNCHANGED <<menulevel, cityname, hasty>>

TypeCustom ==
  /\ ~closed /\ menulevel = 2 /\ menulevel' = 3
  /\ UNCHANGED <<cityname, toServer, toClient, packets, closed, hasty>>

\* A number that is no day is refused and the client stays on level 3.
TypeDay ==
  /\ ~closed /\ menulevel = 3
  /\ \E day \in {1, 9} : Send("query", cityname, day)
  /\ menulevel' = 2
  /\ UNCHANGED <<cityname, hasty>>

TypeBack ==
  /\ ~closed /\ menulevel = 2 /\ menulevel' = 1
  /\ UNCHANGED <<cityname, toServer, toClient, packets, closed, hasty>>

TypeExit ==
  /\ ~closed /\ closed' = TRUE
  /\ UNCHANGED <<menulevel, cityname, toServer, toClient, packets, hasty>>

\* The server, outside the source.
Reply(packet) ==
  LET type == IF packet.type = "ask" THEN (IF packet.city \in Known THEN "city" ELSE "wrong")
              ELSE IF packet.city \in Known THEN "weather" ELSE "noinfo"
  IN [type |-> type, city |-> packet.city]

Serve ==
  /\ ~closed /\ toServer # <<>>
  /\ toServer' = Tail(toServer) /\ toClient' = Append(toClient, Reply(Head(toServer)))
  /\ UNCHANGED <<menulevel, cityname, packets, closed, hasty>>

FaultyReceive ==
  /\ ~closed /\ toClient # <<>> /\ toClient' = Tail(toClient)
  /\ menulevel' = IF menulevel = 1 THEN 2 ELSE menulevel
  /\ UNCHANGED <<cityname, toServer, packets, closed, hasty>>

\* Only a city packet on level 1 changes the level; other packets are shown,
\* or dropped when the level does not expect them.
Receive ==
  /\ ~closed /\ toClient # <<>> /\ toClient' = Tail(toClient)
  /\ menulevel' = IF menulevel = 1 /\ Head(toClient).type = "city" THEN 2 ELSE menulevel
  /\ UNCHANGED <<cityname, toServer, packets, closed, hasty>>

WeatherNext ==
  \/ \E city \in City : TypeCity(city)
  \/ TypeQuery \/ TypeCustom \/ TypeDay \/ TypeBack \/ TypeExit \/ Serve \/ Receive

WeatherSpec == WeatherInit /\ [][WeatherNext]_weatherVars
-----------------------------------------------------------------------------
WeatherTypeOK ==
  /\ menulevel \in 1..3 /\ cityname \in City \cup {""}
  /\ Len(toServer) + Len(toClient) <= MaxPackets

\* The menu of a city is open, and weather is queried, only for a city the
\* server has confirmed, as long as the person waits for the answer before
\* the next city is typed: cityname is overwritten when the name is sent, not
\* when it is confirmed, so an early second city makes the first one's answer
\* open the menu of the second.
MenuOfKnownCity ==
  ~hasty =>
    /\ menulevel >= 2 => cityname \in Known
    /\ \A i \in DOMAIN toServer : toServer[i].type = "query" => toServer[i].city \in Known
=============================================================================
