----------------------------- MODULE Clients_proofs -----------------------------
(***************************************************************************)
(* Proofs about the clients that are not part of the stack: WeatherClient, *)
(* the menu of the weather client of Exp2, and GameClient, the game of     *)
(* Exp3 with its server.                                                   *)
(***************************************************************************)
EXTENDS WeatherClient, GameClient, FiniteSetTheorems, WellFoundedInduction, TLAPS

Name == City \cup {""}
Question == [type : {"ask", "query"}, city : Name, number : {0, 1, 3, 9}]
Response == [type : {"city", "wrong", "weather", "noinfo"}, city : Name]

\* What is on its way, and that every packet was counted.
WeatherTypes ==
  /\ menulevel \in 1..3 /\ cityname \in Name /\ hasty \in BOOLEAN
  /\ toServer \in Seq(Question) /\ toClient \in Seq(Response)
  /\ packets \in Nat /\ packets <= MaxPackets /\ Len(toServer) + Len(toClient) <= packets

\* A person who waits for the answers: a question about a city that is still on
\* its way, or its answer, is about the city typed last.
AboutLatest ==
  ~hasty =>
    /\ \A i \in DOMAIN toServer : toServer[i].type = "ask" => toServer[i].city = cityname
    /\ \A i \in DOMAIN toClient : toClient[i].type \in {"city", "wrong"} => toClient[i].city = cityname

\* The server calls only a city it knows one.
Confirmed == \A i \in DOMAIN toClient : toClient[i].type = "city" => toClient[i].city \in Known

WeatherInv == WeatherTypes /\ AboutLatest /\ Confirmed /\ MenuOfKnownCity

\* A queue with one more packet, or without its first.
LEMMA Queued ==
  ASSUME NEW S, NEW q \in Seq(S)
  PROVE  /\ \A e \in S : /\ Append(q, e) \in Seq(S) /\ Len(Append(q, e)) = Len(q) + 1
                         /\ \A i \in DOMAIN Append(q, e) : Append(q, e)[i] = e \/ (i \in DOMAIN q /\ Append(q, e)[i] = q[i])
         /\ q # <<>> => /\ Head(q) \in S /\ 1 \in DOMAIN q /\ Head(q) = q[1]
                        /\ Tail(q) \in Seq(S) /\ Len(Tail(q)) = Len(q) - 1
                        /\ \A i \in DOMAIN Tail(q) : i + 1 \in DOMAIN q /\ Tail(q)[i] = q[i + 1]
OBVIOUS

\* The client starts on level 1 with nothing on its way.
LEMMA WeatherInitInv == WeatherInit => WeatherInv
<1>1. <<>> \in Seq(Question) /\ <<>> \in Seq(Response) /\ Len(<<>>) = 0 /\ DOMAIN <<>> = {}
  OBVIOUS
<1> SUFFICES ASSUME WeatherInit PROVE WeatherInv
  OBVIOUS
<1>3. cityname \in Name
  BY Zenon DEF WeatherInit, Name
<1>4. menulevel = 1 /\ toServer = <<>> /\ toClient = <<>> /\ packets = 0 /\ hasty = FALSE
  BY Zenon DEF WeatherInit
<1>5. WeatherTypes
  <2>1. toServer \in Seq(Question) /\ toClient \in Seq(Response) /\ Len(toServer) = 0 /\ Len(toClient) = 0
    BY <1>1, <1>4, Zenon
  <2>2. hasty \in BOOLEAN
    BY <1>4, Zenon
  <2>3. menulevel = 1 /\ packets = 0
    BY <1>4, Zenon
  <2>4. QED
    BY <1>3, <2>1, <2>2, <2>3, WeatherAssumption DEF WeatherTypes
<1>6. AboutLatest /\ Confirmed /\ MenuOfKnownCity
  BY <1>1, <1>4 DEF AboutLatest, Confirmed, MenuOfKnownCity
<1>7. QED
  BY <1>5, <1>6 DEF WeatherInv

\* A city is typed, on level 1: by a person in no haste only when nothing about
\* an earlier city is on its way.
LEMMA TypeCityInv == ASSUME WeatherInv, NEW city \in City, TypeCity(city) PROVE WeatherInv'
<1> USE DEF WeatherInv
<1> city \in Name
  BY Zenon DEF Name
<1>1. PICK question \in Question : question = [type |-> "ask", city |-> city, number |-> 0]
  BY DEF Question
<1>2. /\ menulevel = 1 /\ cityname' = city /\ toServer' = Append(toServer, question)
      /\ packets < MaxPackets /\ packets' = packets + 1 /\ UNCHANGED <<menulevel, toClient>>
  BY <1>1 DEF TypeCity, Send
<1>3. hasty' \in BOOLEAN /\ (~hasty' => ~hasty /\ ~CityPending)
  <2>1. hasty \in BOOLEAN /\ CityPending \in BOOLEAN
    BY DEF WeatherTypes, CityPending
  <2>2. hasty' = (hasty \/ CityPending)
    BY DEF TypeCity
  <2>3. QED
    BY <2>1, <2>2, Zenon
<1>4. WeatherTypes'
  BY <1>2, <1>3, Queued, WeatherAssumption DEF WeatherTypes
<1>5. AboutLatest'
  <2> SUFFICES ASSUME ~hasty' PROVE AboutLatest'
    BY DEF AboutLatest
  <2>1. /\ \A i \in DOMAIN toServer : toServer[i].type # "ask"
        /\ \A i \in DOMAIN toClient : toClient[i].type \notin {"city", "wrong"}
    BY <1>3 DEF CityPending, Types
  <2>2. \A i \in DOMAIN toServer' : toServer'[i] = question \/ (i \in DOMAIN toServer /\ toServer'[i] = toServer[i])
    BY <1>2, Queued DEF WeatherTypes
  <2>3. QED
    BY <1>1, <1>2, <2>1, <2>2 DEF AboutLatest
<1>6. Confirmed'
  BY <1>2 DEF Confirmed
<1>7. MenuOfKnownCity'
  <2>1. \A i \in DOMAIN toServer' : toServer'[i] = question \/ (i \in DOMAIN toServer /\ toServer'[i] = toServer[i])
    BY <1>2, Queued DEF WeatherTypes
  <2>2. QED
    BY <1>1, <1>2, <1>3, <2>1 DEF MenuOfKnownCity
<1>8. QED
  BY <1>4, <1>5, <1>6, <1>7

\* Weather is asked for, on level 2 or 3, for the city of the menu.
LEMMA QueryInv == ASSUME WeatherInv, TypeQuery \/ TypeDay PROVE WeatherInv'
<1> USE DEF WeatherInv
<1>1. PICK number \in {0, 1, 3, 9} : Send("query", cityname, number)
  BY DEF TypeQuery, TypeDay
<1>2. PICK question \in Question : question = [type |-> "query", city |-> cityname, number |-> number]
  BY DEF Question, WeatherTypes
<1>3. /\ menulevel >= 2 /\ menulevel' \in 2..3 /\ toServer' = Append(toServer, question)
      /\ packets < MaxPackets /\ packets' = packets + 1 /\ UNCHANGED <<cityname, toClient, hasty>>
  BY <1>1, <1>2 DEF TypeQuery, TypeDay, Send
<1>4. \A i \in DOMAIN toServer' : toServer'[i] = question \/ (i \in DOMAIN toServer /\ toServer'[i] = toServer[i])
  BY <1>3, Queued DEF WeatherTypes
<1>5. WeatherTypes'
  BY <1>3, Queued, WeatherAssumption DEF WeatherTypes
<1>6. AboutLatest' /\ Confirmed'
  BY <1>2, <1>3, <1>4 DEF AboutLatest, Confirmed
<1>7. MenuOfKnownCity'
  BY <1>2, <1>3, <1>4 DEF MenuOfKnownCity
<1>8. QED
  BY <1>5, <1>6, <1>7

\* The steps that send and receive nothing.
LEMMA MenuInv == ASSUME WeatherInv, TypeCustom \/ TypeBack \/ TypeExit \/ UNCHANGED weatherVars PROVE WeatherInv'
<1> USE DEF WeatherInv
<1>1. UNCHANGED <<cityname, toServer, toClient, packets, hasty>> /\ menulevel' \in 1..3 /\ (menulevel' >= 2 => menulevel >= 2)
  BY DEF TypeCustom, TypeBack, TypeExit, weatherVars, WeatherTypes
<1>2. QED
  BY <1>1 DEF WeatherTypes, AboutLatest, Confirmed, MenuOfKnownCity

\* The server answers the first question: "city" only for one it knows.
LEMMA ServeInv == ASSUME WeatherInv, Serve PROVE WeatherInv'
<1> USE DEF WeatherInv
<1>1. PICK question \in Question : question = Head(toServer) /\ question = toServer[1] /\ 1 \in DOMAIN toServer
  BY Queued DEF Serve, WeatherTypes
<1>2. PICK answer \in Response : answer = Reply(question)
  <2>1. question.city \in Name
    BY DEF Question
  <2>2. \A kind \in {"city", "wrong", "weather", "noinfo"} : [type |-> kind, city |-> question.city] \in Response
    BY <2>1 DEF Response
  <2>3. QED
    BY <2>2 DEF Reply
<1>3. /\ toServer # <<>> /\ toServer' = Tail(toServer) /\ toClient' = Append(toClient, answer)
      /\ UNCHANGED <<menulevel, cityname, packets, hasty>>
  BY <1>1, <1>2 DEF Serve
<1>4. \A i \in DOMAIN toServer' : i + 1 \in DOMAIN toServer /\ toServer'[i] = toServer[i + 1]
  BY <1>3, Queued DEF WeatherTypes
<1>5. \A i \in DOMAIN toClient' : toClient'[i] = answer \/ (i \in DOMAIN toClient /\ toClient'[i] = toClient[i])
  BY <1>3, Queued DEF WeatherTypes
<1>6. /\ answer.city = question.city /\ (answer.type = "city" => question.city \in Known)
      /\ answer.type \in {"city", "wrong"} => question.type = "ask"
  BY <1>2 DEF Reply, Question
<1>7. WeatherTypes'
  <2>1. /\ toServer' \in Seq(Question) /\ Len(toServer') = Len(toServer) - 1
        /\ toClient' \in Seq(Response) /\ Len(toClient') = Len(toClient) + 1
    BY <1>3, Queued DEF WeatherTypes
  <2>2. Len(toServer) \in Nat /\ Len(toClient) \in Nat
    BY DEF WeatherTypes
  <2>3. QED
    BY <1>3, <2>1, <2>2 DEF WeatherTypes
<1>8. AboutLatest'
  BY <1>1, <1>3, <1>4, <1>5, <1>6 DEF AboutLatest
<1>9. Confirmed'
  BY <1>5, <1>6 DEF Confirmed
<1>10. MenuOfKnownCity'
  BY <1>3, <1>4 DEF MenuOfKnownCity
<1>11. QED
  BY <1>7, <1>8, <1>9, <1>10

\* An answer opens the menu: the one to the question about cityname.
LEMMA ReceiveInv == ASSUME WeatherInv, Receive PROVE WeatherInv'
<1> USE DEF WeatherInv
<1>1. PICK answer \in Response : answer = Head(toClient) /\ answer = toClient[1] /\ 1 \in DOMAIN toClient
  BY Queued DEF Receive, WeatherTypes
<1>2. /\ toClient # <<>> /\ toClient' = Tail(toClient) /\ UNCHANGED <<cityname, toServer, packets, hasty>>
      /\ menulevel' = IF menulevel = 1 /\ answer.type = "city" THEN 2 ELSE menulevel
  BY <1>1 DEF Receive
<1>3. \A i \in DOMAIN toClient' : i + 1 \in DOMAIN toClient /\ toClient'[i] = toClient[i + 1]
  BY <1>2, Queued DEF WeatherTypes
<1>4. WeatherTypes'
  <2>1. toClient' \in Seq(Response) /\ Len(toClient') = Len(toClient) - 1
    BY <1>2, Queued DEF WeatherTypes
  <2>2. Len(toServer) \in Nat /\ Len(toClient) \in Nat
    BY DEF WeatherTypes
  <2>3. QED
    BY <1>2, <2>1, <2>2 DEF WeatherTypes
<1>5. AboutLatest' /\ Confirmed'
  BY <1>2, <1>3 DEF AboutLatest, Confirmed
<1>6. MenuOfKnownCity'
  BY <1>1, <1>2 DEF MenuOfKnownCity, AboutLatest, Confirmed, WeatherTypes
<1>7. QED
  BY <1>4, <1>5, <1>6

\* In every state the invariant holds: which city an answer on its way is about.
THEOREM WeatherInvariance == WeatherSpec => []WeatherInv
<1>1. WeatherInv /\ [WeatherNext]_weatherVars => WeatherInv'
  BY TypeCityInv, QueryInv, MenuInv, ServeInv, ReceiveInv DEF WeatherNext
<1>2. QED
  BY WeatherInitInv, <1>1, PTL DEF WeatherSpec

\* The variables of the weather client have their types.
THEOREM WeatherTyped == WeatherSpec => []WeatherTypeOK
<1>1. WeatherInv => WeatherTypeOK
  <2> SUFFICES ASSUME WeatherTypes PROVE WeatherTypeOK
    BY DEF WeatherInv
  <2>1. cityname \in City \cup {""}
    BY Zenon DEF WeatherTypes, Name
  <2>2. menulevel \in 1..3 /\ Len(toServer) + Len(toClient) <= MaxPackets
    BY WeatherAssumption DEF WeatherTypes
  <2>3. QED
    BY <2>1, <2>2, Zenon DEF WeatherTypeOK
<1>2. QED
  BY WeatherInvariance, <1>1, PTL

\* A person who waits for the answer before typing the next city sees the menu
\* only of a city the server has confirmed, and asks for the weather only of
\* such a one: client's cityname and the packets on their way stay in step.
THEOREM MenuOpens == WeatherSpec => []MenuOfKnownCity
<1>1. WeatherInv => MenuOfKnownCity
  BY DEF WeatherInv
<1>2. QED
  BY WeatherInvariance, <1>1, PTL
-----------------------------------------------------------------------------
(* The game of Exp3                                                        *)

GameReply ==
  [type : {"loginok", "loginfail", "gamerequest", "gamerefuse", "gamestart", "gameanswer", "gamequit"},
   u : Names, ans : 0..3, round : 0..MaxRound, game : Nat]
GameRequest ==
  [type : {"login", "gamerequest", "gameaccept", "gamerefuse", "gameanswer", "gamequit", "eof"},
   u : Names, ans : 0..3, round : {0}, game : Nat]
Game ==
  [id : Nat, pl : SUBSET Names, rdy : SUBSET Names, refuse : SUBSET Names, quit : SUBSET Names,
   hand : [Names -> 0..3], shown : [Names -> 0..3], score : [Names -> Nat], read : [Names -> 0..2],
   round : 0..MaxRound]

\* A game has two players at least, and only players are ready, refuse or quit.
Whole(game) ==
  /\ game \in Game
  /\ \E a, b \in game.pl : a # b
  /\ game.rdy \cup game.refuse \cup game.quit \subseteq game.pl

\* The users the server knows, and the games, which are numbered as they are created.
UsersTyped(users) == users \in [DOMAIN users -> state] /\ DOMAIN users \subseteq Names
Numbered(table, count) ==
  /\ table = [g \in DOMAIN table |-> table[g]]
  /\ \A g \in DOMAIN table : g \in Nat /\ g < count /\ Whole(table[g])

TableTypes ==
  /\ UsersTyped(ulist) /\ Numbered(glist, games) /\ games \in 0..MaxGames
  /\ named \subseteq DOMAIN ulist /\ named \subseteq User
  /\ down \in BOOLEAN /\ intruded \in BOOLEAN /\ late \in BOOLEAN

\* What a client has been shown: a game, a round, the own hand and the opponent's.
Shown == Nat \X (0..MaxRound) \X (0..3) \X (0..3)

ClientTypes ==
  /\ looking \in [User -> {NoLook} \cup 0..MaxGames]
  /\ inbox \in [User -> Seq(GameRequest)] /\ out \in [User -> Seq(GameReply)]
  /\ stage \in [User -> Stages] /\ asked \in [User -> BOOLEAN] /\ oppo \in [User -> Names]
  /\ hand \in [User -> 0..3] /\ seen \in [User -> Shown]

\* A client that has logged in, and what its thread may have to do for it.
Inside == {"menu", "waiting", "play", "answered", "over"}
Legal(c, type) ==
  /\ type = "login" => stage[c] # "off"
  /\ type = "eof" => stage[c] = "off"
  /\ type \notin {"login", "eof"} => c \in named

\* What may still put a packet on the way to c, and the stages in which it is expected.
Asking(c) == inbox[c] # <<>> /\ Head(inbox[c]).type \in {"login", "gamerequest", "gameaccept"}
Owed(c) == (IF Asking(c) THEN 1 ELSE 0) + (IF looking[c] # NoLook THEN 1 ELSE 0)
Expecting(c) == IF stage[c] \in {"sent", "waiting"} THEN 1 ELSE 0
Room(c) == Len(out[c]) + Owed(c) <= MaxOut + Expecting(c)

\* A client and its thread agree on whether it has logged in.
Session(c) ==
  /\ stage[c] \in Inside => c \in named
  /\ looking[c] # NoLook => c \in named
  /\ Len(inbox[c]) <= 1
  /\ inbox[c] # <<>> => Legal(c, Head(inbox[c]).type)
  /\ \A i \in DOMAIN out[c] : out[c][i].type = "loginok" => c \in named /\ stage[c] # "off"
Sessions == \A c \in User : Session(c) /\ Room(c)

\* The two tables agree; PointersValid says so with cardinalities.
Pair(S) == \E a, b \in S : a # b /\ S = {a, b}
Points(entry, u, table) == entry.gid # -1 => entry.gid \in DOMAIN table /\ u \in table[entry.gid].pl
Linked(users, table) ==
  /\ \A g \in DOMAIN table : Pair(table[g].pl)
  /\ \A u \in DOMAIN users : Points(users[u], u, table)
TablesAgree == ~down /\ Linked(ulist, glist)

GameInv == TableTypes /\ ClientTypes /\ Sessions /\ (~intruded => TablesAgree)
-----------------------------------------------------------------------------
\* A set of names has a least one.
LEMMA LeastName ==
  ASSUME NEW S \in SUBSET Names, S # {}
  PROVE  Min(S) \in S
<1> DEFINE T == {s + 1 : s \in S}
<1>1. S \subseteq Int /\ T \subseteq Nat /\ T # {}
  <2>1. \A s \in S : s \in Int /\ s + 1 \in Nat
    BY GameAssumption DEF Names, NoUser
  <2>2. T # {}
    OBVIOUS
  <2>3. QED
    BY <2>1, <2>2
<1>2. PICK m \in T : \A t \in T : <<t, m>> \notin OpToRel(<, Nat)
  BY <1>1, WFMin, NatLessThanWellFounded, Zenon
<1>3. \A t \in T : ~(t < m)
  BY <1>1, <1>2, Zenon DEF OpToRel
<1>4. PICK s \in S : m = s + 1
  OBVIOUS
<1>5. \A u \in S : u + 1 \in T
  OBVIOUS
<1>6. \A u \in S : s =< u
  BY <1>1, <1>3, <1>4, <1>5
<1>7. QED
  BY <1>6, Zenon DEF Min

\* A set of numbers with a bound has a greatest one.
LEMMA GreatestNumber ==
  ASSUME NEW S \in SUBSET Nat, S # {}, NEW k \in Nat, \A s \in S : s < k
  PROVE  Max(S) \in S /\ \A s \in S : s <= Max(S)
<1> DEFINE T == {k - s : s \in S}
<1>1. T \subseteq Nat /\ T # {}
  <2>1. \A s \in S : k - s \in Nat
    OBVIOUS
  <2>2. T # {}
    OBVIOUS
  <2>3. QED
    BY <2>1, <2>2
<1>2. PICK m \in T : \A t \in T : <<t, m>> \notin OpToRel(<, Nat)
  BY <1>1, WFMin, NatLessThanWellFounded, Zenon
<1>3. \A t \in T : ~(t < m)
  BY <1>1, <1>2, Zenon DEF OpToRel
<1>4. PICK s \in S : m = k - s
  OBVIOUS
<1>5. \A u \in S : k - u \in T
  OBVIOUS
<1>6. \A u \in S : s >= u
  BY <1>3, <1>4, <1>5
<1>7. Max(S) \in S /\ \A u \in S : Max(S) >= u
  BY <1>6, Zenon DEF Max
<1>8. QED
  BY <1>7

\* The opponent that the server finds is another player of the game.
LEMMA OpponentPlays ==
  ASSUME NEW game, Whole(game), NEW n \in Names
  PROVE  /\ Oppo(game, n) \in game.pl \ {n}
         /\ Min(game.pl \ {n}) \in game.pl \ {n}
<1>1. game.pl \in SUBSET Names /\ \E a, b \in game.pl : a # b
  BY DEF Whole, Game
<1>2. \A x : game.pl \ {x} \in SUBSET Names /\ game.pl \ {x} # {}
  BY <1>1
<1>3. P1(game) \in game.pl
  BY <1>1, LeastName, Zenon DEF P1
<1>4. P2(game) \in game.pl \ {P1(game)}
  BY <1>2, LeastName, Zenon DEF P2
<1>5. Oppo(game, n) \in game.pl \ {n}
  BY <1>3, <1>4, Zenon DEF Oppo
<1>6. QED
  BY <1>2, <1>5, LeastName, Zenon

\* An entry of a game is replaced.
LEMMA GameReplaced ==
  ASSUME NEW table, NEW count \in Nat, Numbered(table, count), NEW g \in DOMAIN table, NEW game, Whole(game)
  PROVE  /\ Numbered([table EXCEPT ![g] = game], count)
         /\ \A users : Linked(users, table) /\ game.pl = table[g].pl => Linked(users, [table EXCEPT ![g] = game])
<1> DEFINE new == [table EXCEPT ![g] = game]
<1>1. table = [h \in DOMAIN table |-> table[h]]
  BY DEF Numbered
<1>2. /\ DOMAIN new = DOMAIN table /\ new = [h \in DOMAIN new |-> new[h]]
      /\ \A h \in DOMAIN table : new[h] = IF h = g THEN game ELSE table[h]
  BY <1>1
<1> HIDE DEF new
<1>3. Numbered(new, count)
  BY <1>2 DEF Numbered
<1>4. ASSUME NEW users, Linked(users, table), game.pl = table[g].pl
      PROVE  Linked(users, new)
  <2>1. \A h \in DOMAIN table : new[h].pl = table[h].pl
    BY <1>2, <1>4
  <2>2. QED
    BY <1>2, <1>4, <2>1 DEF Linked, Points
<1>5. QED
  BY <1>3, <1>4 DEF new

\* A game is removed, together with the numbers its players had.
LEMMA GameErased ==
  ASSUME NEW table, NEW count \in Nat, Numbered(table, count), NEW g
  PROVE  /\ Numbered([h \in DOMAIN table \ {g} |-> table[h]], count)
         /\ \A users, left : /\ Linked(users, table)
                             /\ \A u \in DOMAIN left : \/ left[u].gid = -1
                                                       \/ /\ u \in DOMAIN users /\ left[u] = users[u]
                                                          /\ g \in DOMAIN table => u \notin table[g].pl
                            => Linked(left, [h \in DOMAIN table \ {g} |-> table[h]])
<1> DEFINE new == [h \in DOMAIN table \ {g} |-> table[h]]
<1>1. /\ DOMAIN new = DOMAIN table \ {g} /\ new = [h \in DOMAIN new |-> new[h]]
      /\ \A h \in DOMAIN new : new[h] = table[h]
  OBVIOUS
<1> HIDE DEF new
<1>2. Numbered(new, count)
  BY <1>1 DEF Numbered
<1>3. ASSUME NEW users, NEW left, Linked(users, table), NEW u \in DOMAIN left,
             \/ left[u].gid = -1
             \/ /\ u \in DOMAIN users /\ left[u] = users[u]
                /\ g \in DOMAIN table => u \notin table[g].pl
      PROVE  Points(left[u], u, new)
  BY <1>1, <1>3 DEF Linked, Points
<1>4. \A users : Linked(users, table) => \A h \in DOMAIN new : Pair(new[h].pl)
  BY <1>1 DEF Linked
<1>5. QED
  BY <1>2, <1>3, <1>4, Zenon DEF Linked, new

\* Entries of users keep their types.
LEMMA UsersWritten ==
  ASSUME NEW users, UsersTyped(users), NEW keys, keys \subseteq Names, NEW entry, entry \in state
  PROVE  UsersTyped(With(users, keys, entry))
BY DEF UsersTyped, With

\* What the thread and the client of another user do does not concern c.
LEMMA Undisturbed ==
  ASSUME NEW c \in User, Session(c), Room(c),
         stage'[c] = stage[c], looking'[c] = looking[c], inbox'[c] = inbox[c], out'[c] = out[c],
         c \in named => c \in named'
  PROVE  Session(c)' /\ Room(c)'
BY DEF Session, Room, Legal, Owed, Asking, Expecting

\* One more packet for n.
LEMMA Sent ==
  ASSUME out \in [User -> Seq(GameReply)], NEW n \in User, NEW p \in GameReply, SendTo(n, p)
  PROVE  /\ out' \in [User -> Seq(GameReply)]
         /\ \A c \in User : c # n => out'[c] = out[c]
         /\ Len(out'[n]) = Len(out[n]) + 1
         /\ \A i \in DOMAIN out'[n] : out'[n][i] = p \/ (i \in DOMAIN out[n] /\ out'[n][i] = out[n][i])
<1>1. out[n] \in Seq(GameReply) /\ out' = [out EXCEPT ![n] = Append(out[n], p)]
  BY DEF SendTo
<1>2. /\ Append(out[n], p) \in Seq(GameReply) /\ Len(Append(out[n], p)) = Len(out[n]) + 1
      /\ \A i \in DOMAIN Append(out[n], p) :
           Append(out[n], p)[i] = p \/ (i \in DOMAIN out[n] /\ Append(out[n], p)[i] = out[n][i])
  BY <1>1
<1>3. /\ out' \in [User -> Seq(GameReply)] /\ out'[n] = Append(out[n], p)
      /\ \A c \in User : c # n => out'[c] = out[c]
  BY <1>1, <1>2
<1>4. QED
  BY <1>2, <1>3

\* The next packet of n has been taken.
LEMMA TakenOff ==
  ASSUME ClientTypes, NEW n \in User, Session(n), NEW type, Takes(n, type)
  PROVE  /\ Head(inbox[n]) \in GameRequest /\ Head(inbox[n]).type = type
         /\ looking[n] = NoLook /\ looking' = looking
         /\ inbox' \in [User -> Seq(GameRequest)] /\ inbox'[n] = <<>>
         /\ \A c \in User : c # n => inbox'[c] = inbox[c]
         /\ Legal(n, type)
<1>1. inbox[n] \in Seq(GameRequest) /\ inbox[n] # <<>> /\ Len(inbox[n]) <= 1
  BY DEF Takes, SentIn, ClientTypes, Session
<1>2. Head(inbox[n]) \in GameRequest /\ Tail(inbox[n]) \in Seq(GameRequest) /\ Tail(inbox[n]) = <<>>
  BY <1>1
<1>3. inbox' = [inbox EXCEPT ![n] = Tail(inbox[n])] /\ looking[n] = NoLook /\ looking' = looking /\ Head(inbox[n]).type = type
  BY DEF Takes, SentIn
<1>4. Legal(n, type)
  BY <1>1, <1>3 DEF Session
<1>5. inbox \in [User -> Seq(GameRequest)]
  BY DEF ClientTypes
<1>6. QED
  BY <1>2, <1>3, <1>4, <1>5

\* A thread that has taken a packet and answers at most what the client waits for.
LEMMA Served ==
  ASSUME ClientTypes, Sessions, NEW n \in User, NEW type, Takes(n, type), UNCHANGED clientVars,
         \A c \in User \ {n} : c \in named => c \in named',
         n \in named => n \in named',
         \/ UNCHANGED out
         \/ /\ type \in {"login", "gamerequest", "gameaccept"}
            /\ \E p \in GameReply : SendTo(n, p) /\ (p.type = "loginok" => type = "login" /\ n \in named')
  PROVE  ClientTypes' /\ Sessions'
<1>1. Session(n) /\ Room(n)
  BY DEF Sessions
<1>2. /\ Head(inbox[n]) \in GameRequest /\ Head(inbox[n]).type = type
      /\ looking[n] = NoLook /\ looking' = looking
      /\ inbox' \in [User -> Seq(GameRequest)] /\ inbox'[n] = <<>>
      /\ \A c \in User : c # n => inbox'[c] = inbox[c]
      /\ Legal(n, type)
  BY <1>1, TakenOff
<1>3. stage' = stage /\ asked' = asked /\ oppo' = oppo /\ hand' = hand /\ seen' = seen
  BY DEF clientVars
<1>4. out[n] \in Seq(GameReply) /\ out \in [User -> Seq(GameReply)]
  BY DEF ClientTypes
<1>5. /\ out' \in [User -> Seq(GameReply)] /\ \A c \in User : c # n => out'[c] = out[c]
      /\ Len(out'[n]) <= Len(out[n]) + (IF type \in {"login", "gamerequest", "gameaccept"} THEN 1 ELSE 0)
      /\ \A i \in DOMAIN out'[n] :
           \/ i \in DOMAIN out[n] /\ out'[n][i] = out[n][i]
           \/ out'[n][i].type = "loginok" => type = "login" /\ n \in named'
  <2>1. CASE UNCHANGED out
    <3>1. Len(out[n]) \in Nat
      BY <1>4
    <3>2. QED
      BY <1>4, <2>1, <3>1
  <2>2. CASE /\ type \in {"login", "gamerequest", "gameaccept"}
             /\ \E p \in GameReply : SendTo(n, p) /\ (p.type = "loginok" => type = "login" /\ n \in named')
    <3>1. PICK p \in GameReply : SendTo(n, p) /\ (p.type = "loginok" => type = "login" /\ n \in named')
      BY <2>2
    <3>2. /\ out' \in [User -> Seq(GameReply)]
          /\ \A c \in User : c # n => out'[c] = out[c]
          /\ Len(out'[n]) = Len(out[n]) + 1
          /\ \A i \in DOMAIN out'[n] : out'[n][i] = p \/ (i \in DOMAIN out[n] /\ out'[n][i] = out[n][i])
      BY <1>4, <3>1, Sent
    <3>3. QED
      BY <1>4, <2>2, <3>1, <3>2
  <2>3. QED
    BY <2>1, <2>2
<1>6. ClientTypes'
  BY <1>2, <1>3, <1>5 DEF ClientTypes
<1>7. Session(n)'
  <2>1. (stage[n] \in Inside => n \in named') /\ looking'[n] = NoLook /\ Len(inbox'[n]) <= 1
    BY <1>1, <1>2 DEF Session
  <2>2. \A i \in DOMAIN out'[n] : out'[n][i].type = "loginok" => n \in named' /\ stage[n] # "off"
    BY <1>1, <1>2, <1>5 DEF Session, Legal
  <2>3. QED
    BY <1>2, <1>3, <2>1, <2>2 DEF Session
<1>8. Room(n)'
  <2>1. Owed(n)' = 0 /\ Expecting(n)' = Expecting(n)
    BY <1>2, <1>3 DEF Owed, Asking, Expecting
  <2>2. Owed(n) = IF type \in {"login", "gamerequest", "gameaccept"} THEN 1 ELSE 0
    BY <1>2 DEF Owed, Asking, Takes, SentIn
  <2>3. Len(out[n]) \in Nat /\ Len(out'[n]) \in Nat /\ Expecting(n) \in {0, 1} /\ MaxOut \in Nat
    BY <1>4, <1>5, GameAssumption DEF Expecting
  <2>4. Len(out[n]) + Owed(n) <= MaxOut + Expecting(n)
    BY <1>1 DEF Room
  <2>5. Len(out'[n]) <= Len(out[n]) + Owed(n)
    BY <1>5, <2>2, Zenon
  <2>6. Len(out'[n]) + 0 <= MaxOut + Expecting(n)
    <3>1. Owed(n) \in {0, 1}
      BY <2>2
    <3>2. QED
      BY <2>3, <2>4, <2>5, <3>1
  <2>7. QED
    BY <2>1, <2>6, Zenon DEF Room
<1>9. \A c \in User \ {n} : Session(c)' /\ Room(c)'
  BY <1>2, <1>3, <1>5, Undisturbed DEF Sessions
<1>10. QED
  BY <1>6, <1>7, <1>8, <1>9 DEF Sessions

\* A packet without contents is one the server, or the client, may send.
LEMMA PlainPackets ==
  ASSUME NEW u \in Names
  PROVE  /\ \A type \in {"loginok", "loginfail", "gamerequest", "gamerefuse", "gamestart", "gamequit", "gameanswer"} :
              Packet(type, u) \in GameReply /\ Packet(type, u).type = type
         /\ \A type \in {"login", "gamerequest", "gameaccept", "gamerefuse", "gamequit", "gameanswer", "eof"} :
              Packet(type, u) \in GameRequest /\ Packet(type, u).type = type
<1>1. unknown \in 0..3 /\ 0 \in 0..MaxRound /\ 0 \in {0} /\ 0 \in Nat
  BY GameAssumption DEF unknown
<1>2. QED
  BY <1>1 DEF Packet, GameReply, GameRequest

\* A packet that tells a client its game has started.
LEMMA StartPacket ==
  ASSUME NEW u \in Names, NEW g \in Nat
  PROVE  LET p == [Packet("gamestart", u) EXCEPT !.round = 1, !.game = g]
         IN  p \in GameReply /\ p.type = "gamestart" /\ p.game = g
<1>1. unknown \in 0..3 /\ 1 \in 0..MaxRound
  BY GameAssumption DEF unknown
<1>2. QED
  BY <1>1 DEF Packet, GameReply

\* A packet that tells a client the opponent's hand.
LEMMA ResultPacket ==
  ASSUME NEW u \in Names, NEW a \in 0..3, NEW r \in 0..MaxRound, NEW g \in Nat
  PROVE  LET p == [Packet("gameanswer", u) EXCEPT !.ans = a, !.round = r, !.game = g]
         IN  p \in GameReply /\ p.type = "gameanswer" /\ p.ans = a /\ p.round = r /\ p.game = g
BY DEF Packet, GameReply

\* A new user is entered in ulist, without a game.
LEMMA HandleLoginInv ==
  ASSUME GameInv, NEW n \in User, HandleLogin(n), UNCHANGED clientVars
  PROVE  GameInv'
<1>1. n \in Names /\ Takes(n, "login") /\ TableTypes /\ ClientTypes /\ Sessions
  BY DEF GameInv, HandleLogin, Names
<1>2. UNCHANGED <<glist, down, intruded, late, games>>
  BY DEF HandleLogin
<1>3. CASE n \notin DOMAIN ulist
  <2>1. /\ ulist' = With(ulist, {n}, LoggedIn) /\ named' = named \cup {n} /\ SendTo(n, Packet("loginok", n))
    BY <1>3 DEF HandleLogin
  <2>2. LoggedIn \in state /\ LoggedIn.gid = -1 /\ {n} \subseteq Names
    BY <1>1, GameAssumption DEF LoggedIn, state
  <2>3. /\ UsersTyped(ulist') /\ DOMAIN ulist' = DOMAIN ulist \cup {n}
        /\ \A u \in DOMAIN ulist' : ulist'[u] = IF u \in {n} THEN LoggedIn ELSE ulist[u]
    <3>1. UsersTyped(ulist)
      BY <1>1 DEF TableTypes
    <3>2. UsersTyped(With(ulist, {n}, LoggedIn))
      BY <2>2, <3>1, UsersWritten
    <3>3. /\ DOMAIN ulist' = DOMAIN ulist \cup {n}
          /\ \A u \in DOMAIN ulist' : ulist'[u] = IF u \in {n} THEN LoggedIn ELSE ulist[u]
      BY <2>1 DEF With
    <3>4. QED
      BY <2>1, <3>2, <3>3
  <2>4. TableTypes'
    BY <1>1, <1>2, <2>1, <2>3 DEF TableTypes
  <2>5. ~intruded' => TablesAgree'
    <3> SUFFICES ASSUME ~intruded' PROVE TablesAgree'
      OBVIOUS
    <3>1. ~down /\ Linked(ulist, glist)
      BY <1>2 DEF GameInv, TablesAgree
    <3>2. Linked(ulist', glist)
      BY <2>2, <2>3, <3>1 DEF Linked, Points
    <3>3. QED
      BY <1>2, <3>1, <3>2 DEF TablesAgree
  <2>6. Packet("loginok", n) \in GameReply
    BY <1>1, PlainPackets
  <2>7. ClientTypes' /\ Sessions'
    BY <1>1, <2>1, <2>6, Served
  <2>8. QED
    BY <2>4, <2>5, <2>7 DEF GameInv
<1>4. CASE n \in DOMAIN ulist
  <2>1. SendTo(n, Packet("loginfail", n)) /\ UNCHANGED <<ulist, named>>
    BY <1>4 DEF HandleLogin
  <2>2. Packet("loginfail", n) \in GameReply /\ Packet("loginfail", n).type = "loginfail"
    BY <1>1, PlainPackets
  <2>3. ClientTypes' /\ Sessions'
    BY <1>1, <2>1, <2>2, Served
  <2>4. TableTypes' /\ (~intruded' => TablesAgree')
    BY <1>1, <1>2, <2>1 DEF TableTypes, TablesAgree, GameInv
  <2>5. QED
    BY <2>3, <2>4 DEF GameInv
<1>5. QED
  BY <1>3, <1>4

\* The number after the last one is free.
LEMMA FreshNumber ==
  ASSUME TableTypes
  PROVE  LET num == IF DOMAIN glist = {} THEN 0 ELSE Max(DOMAIN glist) + 1
         IN  num \in Nat /\ num < games + 1 /\ num \notin DOMAIN glist
<1> DEFINE num == IF DOMAIN glist = {} THEN 0 ELSE Max(DOMAIN glist) + 1
<1>1. DOMAIN glist \subseteq Nat /\ games \in Nat /\ \A g \in DOMAIN glist : g < games
  BY DEF TableTypes, Numbered
<1>2. CASE DOMAIN glist = {}
  BY <1>1, <1>2
<1>3. CASE DOMAIN glist # {}
  <2>1. Max(DOMAIN glist) \in DOMAIN glist /\ \A g \in DOMAIN glist : g <= Max(DOMAIN glist)
    BY <1>1, <1>3, GreatestNumber
  <2>2. num = Max(DOMAIN glist) + 1
    BY <1>3
  <2>3. QED
    BY <1>1, <2>1, <2>2
<1>4. QED
  BY <1>2, <1>3

\* A new game: the numbers of the two players, and only theirs, now name it.
LEMMA HandleInviteInv ==
  ASSUME GameInv, NEW n \in User, HandleInvite(n), UNCHANGED clientVars
  PROVE  GameInv'
<1> DEFINE opp == Head(inbox[n]).u
           num == IF DOMAIN glist = {} THEN 0 ELSE Max(DOMAIN glist) + 1
<1>1. n \in Names /\ Takes(n, "gamerequest") /\ TableTypes /\ ClientTypes /\ Sessions
  BY DEF GameInv, HandleInvite, Names
<1>2. UNCHANGED <<named, down, intruded, late>>
  BY DEF HandleInvite
<1>3. Session(n) /\ opp \in Names /\ n \in named
  <2>1. Session(n)
    BY <1>1 DEF Sessions
  <2>2. Head(inbox[n]) \in GameRequest /\ Legal(n, "gamerequest")
    BY <1>1, <2>1, TakenOff
  <2>3. QED
    BY <2>1, <2>2 DEF GameRequest, Legal
<1>4. CASE opp \in DOMAIN ulist /\ ulist[opp].st = "login" /\ opp # n
  <2>1. /\ games < MaxGames /\ games' = games + 1 /\ UNCHANGED out
        /\ ulist' = [ulist EXCEPT ![n].gid = num, ![opp].gid = num]
    BY <1>4, Zenon DEF HandleInvite
  <2>2. PICK garbage \in 0..1 : glist' = With(glist, {num}, NewGame(n, opp, garbage))
    BY <1>4, Zenon DEF HandleInvite
  <2> DEFINE new == NewGame(n, opp, garbage)
  <2>3. /\ num \in Nat /\ num < games + 1 /\ num \notin DOMAIN glist
    BY <1>1, FreshNumber
  <2>4. Whole(new) /\ new.pl = {n, opp}
    <3>1. garbage \in 0..MaxRound /\ 0 \in 0..3 /\ 0 \in 0..2 /\ 0 \in Nat /\ games + 1 \in Nat
      BY <1>1, GameAssumption DEF TableTypes
    <3>2. new \in Game
      BY <1>1, <1>3, <3>1 DEF NewGame, Game, unknown
    <3>3. new.pl = {n, opp} /\ new.rdy = {n} /\ new.refuse = {} /\ new.quit = {}
      BY DEF NewGame
    <3>4. QED
      BY <1>4, <3>2, <3>3 DEF Whole
  <2> HIDE DEF new
  <2>5. /\ DOMAIN glist' = DOMAIN glist \cup {num} /\ glist' = [g \in DOMAIN glist' |-> glist'[g]]
        /\ \A g \in DOMAIN glist' : glist'[g] = IF g = num THEN new ELSE glist[g]
    BY <2>2 DEF With, new
  <2> HIDE DEF num
  <2>6. Numbered(glist', games')
    <3>1. games \in Nat /\ Numbered(glist, games)
      BY <1>1 DEF TableTypes
    <3>2. QED
      BY <2>1, <2>3, <2>4, <2>5, <3>1 DEF Numbered
  <2>7. /\ UsersTyped(ulist') /\ DOMAIN ulist' = DOMAIN ulist
        /\ \A u \in DOMAIN ulist : IF u \in {n, opp} THEN ulist'[u].gid = num ELSE ulist'[u] = ulist[u]
    <3>1. UsersTyped(ulist) /\ n \in DOMAIN ulist /\ num \in -1..MaxGames
      <4>1. UsersTyped(ulist) /\ n \in DOMAIN ulist /\ games \in Nat /\ MaxGames \in Nat
        BY <1>1, <1>3, GameAssumption DEF TableTypes
      <4>2. num \in -1..MaxGames
        BY <2>1, <2>3, <4>1
      <4>3. QED
        BY <4>1, <4>2
    <3>2. ulist \in [DOMAIN ulist -> state] /\ DOMAIN ulist \subseteq Names
      BY <3>1 DEF UsersTyped
    <3>3. QED
      BY <1>4, <2>1, <3>1, <3>2 DEF UsersTyped, state
  <2>8. TableTypes'
    <3>1. games' \in 0..MaxGames
      BY <1>1, <2>1, GameAssumption DEF TableTypes
    <3>2. QED
      BY <1>1, <1>2, <2>6, <2>7, <3>1 DEF TableTypes
  <2>9. ~intruded' => TablesAgree'
    <3> SUFFICES ASSUME ~intruded' PROVE TablesAgree'
      OBVIOUS
    <3>1. ~down /\ Linked(ulist, glist)
      BY <1>2 DEF GameInv, TablesAgree
    <3>2. Pair(new.pl)
      BY <1>4, <2>4 DEF Pair
    <3>3. \A g \in DOMAIN glist' : Pair(glist'[g].pl)
      BY <2>5, <3>1, <3>2 DEF Linked
    <3>4. \A u \in DOMAIN ulist' : Points(ulist'[u], u, glist')
      BY <2>3, <2>4, <2>5, <2>7, <3>1 DEF Linked, Points
    <3>5. QED
      BY <1>2, <3>1, <3>3, <3>4 DEF TablesAgree, Linked
  <2>10. ClientTypes' /\ Sessions'
    BY <1>1, <1>2, <2>1, Served
  <2>11. QED
    BY <2>8, <2>9, <2>10 DEF GameInv
<1>5. CASE ~(opp \in DOMAIN ulist /\ ulist[opp].st = "login" /\ opp # n)
  <2>1. SendTo(n, Packet("gamerefuse", opp)) /\ UNCHANGED <<ulist, glist, games>>
    BY <1>5, Zenon DEF HandleInvite
  <2>2. Packet("gamerefuse", opp) \in GameReply /\ Packet("gamerefuse", opp).type = "gamerefuse"
    BY <1>3, PlainPackets
  <2>3. ClientTypes' /\ Sessions'
    BY <1>1, <1>2, <2>1, <2>2, Served
  <2>4. TableTypes' /\ (~intruded' => TablesAgree')
    BY <1>1, <1>2, <2>1 DEF TableTypes, TablesAgree, GameInv
  <2>5. QED
    BY <2>3, <2>4 DEF GameInv
<1>6. QED
  BY <1>4, <1>5

\* A user that accepts: as long as the opponent it names plays in the game, the
\* game keeps its players, and the numbers that are written name it.
LEMMA HandleAcceptInv ==
  ASSUME GameInv, NEW n \in User, HandleAccept(n), UNCHANGED clientVars
  PROVE  GameInv'
<1> DEFINE opp == Head(inbox[n]).u
           num == ulist[n].gid
           both == opp \in glist[num].rdy \cup {n}
           new == [glist[num] EXCEPT !.pl = @ \cup {n, opp}, !.rdy = @ \cup {n},
                                     !.round = IF both THEN 1 ELSE @]
           entry == [st |-> "game", gid |-> num]
<1>1. n \in Names /\ Takes(n, "gameaccept") /\ TableTypes /\ ClientTypes /\ Sessions
  BY DEF GameInv, HandleAccept, Names
<1>2. UNCHANGED <<named, down, games>> /\ late' \in BOOLEAN
  <2>1. UNCHANGED <<named, down, games>>
    BY DEF HandleAccept
  <2>2. late \in BOOLEAN
    BY <1>1 DEF TableTypes
  <2>3. late' = late \/ late' = (late \/ (both /\ opp \in DOMAIN ulist /\ ulist[opp].gid # num))
    BY Zenon DEF HandleAccept
  <2>4. QED
    BY <2>1, <2>2, <2>3
<1>3. opp \in Names /\ n \in DOMAIN ulist
  <2>1. Session(n)
    BY <1>1 DEF Sessions
  <2>2. Head(inbox[n]) \in GameRequest /\ Legal(n, "gameaccept")
    BY <1>1, <2>1, TakenOff
  <2>3. QED
    BY <1>1, <2>2 DEF GameRequest, Legal, TableTypes
<1>4. CASE num \in DOMAIN glist
  <2>1. /\ glist' = [glist EXCEPT ![num] = new]
        /\ ulist' = IF both THEN With(ulist, {n, opp}, entry) ELSE ulist
        /\ SendTo(n, [Packet("gamestart", opp) EXCEPT !.round = 1, !.game = glist[num].id])
        /\ intruded' = (intruded \/ opp \notin glist[num].pl)
    BY <1>4, Zenon DEF HandleAccept
  <2>2. Numbered(glist, games) /\ games \in Nat /\ UsersTyped(ulist) /\ Whole(glist[num]) /\ num \in -1..MaxGames
    BY <1>1, <1>3, <1>4 DEF TableTypes, Numbered, UsersTyped, state
  <2>3. Whole(new) /\ new.pl = glist[num].pl \cup {n, opp}
    <3>1. glist[num] \in Game /\ 1 \in 0..MaxRound
      BY <2>2, GameAssumption DEF Whole
    <3>2. /\ new \in Game
          /\ new.pl = glist[num].pl \cup {n, opp} /\ new.rdy = glist[num].rdy \cup {n}
          /\ new.refuse = glist[num].refuse /\ new.quit = glist[num].quit
      BY <1>1, <1>3, <3>1 DEF Game
    <3>3. QED
      BY <2>2, <3>2 DEF Whole
  <2> HIDE DEF new
  <2>4. Numbered(glist', games')
    BY <1>2, <1>4, <2>1, <2>2, <2>3, GameReplaced
  <2>5. entry \in state /\ entry.gid = num
    BY <2>2 DEF state
  <2>6. UsersTyped(ulist') /\ DOMAIN ulist \subseteq DOMAIN ulist'
    <3>1. UsersTyped(With(ulist, {n, opp}, entry))
      <4>1. {n, opp} \subseteq Names
        BY <1>1, <1>3
      <4>2. QED
        BY <2>2, <2>5, <4>1, UsersWritten
    <3>2. DOMAIN ulist \subseteq DOMAIN With(ulist, {n, opp}, entry)
      BY DEF With
    <3>3. QED
      BY <2>1, <2>2, <3>1, <3>2, Zenon
  <2>7. TableTypes'
    <3>1. intruded' \in BOOLEAN
      BY <2>1
    <3>2. QED
      BY <1>1, <1>2, <2>4, <2>6, <3>1 DEF TableTypes
  <2>8. ~intruded' => TablesAgree'
    <3> SUFFICES ASSUME ~intruded' PROVE TablesAgree'
      OBVIOUS
    <3>1. ~down /\ Linked(ulist, glist) /\ opp \in glist[num].pl
      BY <2>1 DEF GameInv, TablesAgree, TableTypes
    <3>2. num # -1
      BY <1>4, <2>2 DEF Numbered
    <3>3. n \in glist[num].pl
      BY <1>3, <3>1, <3>2 DEF Linked, Points
    <3>4. new.pl = glist[num].pl
      BY <2>3, <3>1, <3>3
    <3>5. Linked(ulist, glist') /\ DOMAIN glist' = DOMAIN glist /\ glist'[num].pl = glist[num].pl
      BY <1>4, <2>1, <2>2, <2>3, <3>1, <3>4, GameReplaced
    <3>6. Linked(With(ulist, {n, opp}, entry), glist')
      <4>1. ASSUME NEW u \in DOMAIN With(ulist, {n, opp}, entry)
            PROVE  Points(With(ulist, {n, opp}, entry)[u], u, glist')
        <5>1. CASE u \in {n, opp}
          <6>1. With(ulist, {n, opp}, entry)[u] = entry
            BY <4>1, <5>1 DEF With
          <6>2. u \in glist'[num].pl /\ num \in DOMAIN glist'
            BY <1>4, <3>1, <3>3, <3>5, <5>1
          <6>3. QED
            BY <2>5, <6>1, <6>2, Zenon DEF Points
        <5>2. CASE u \notin {n, opp}
          <6>1. With(ulist, {n, opp}, entry)[u] = ulist[u] /\ u \in DOMAIN ulist
            BY <4>1, <5>2 DEF With
          <6>2. QED
            BY <3>5, <6>1, Zenon DEF Linked
        <5>3. QED
          BY <5>1, <5>2
      <4>2. QED
        BY <3>5, <4>1, Zenon DEF Linked
    <3>7. Linked(ulist', glist')
      BY <2>1, <3>5, <3>6, Zenon
    <3>8. QED
      BY <1>2, <3>1, <3>7 DEF TablesAgree
  <2>9. ClientTypes' /\ Sessions'
    <3> DEFINE packet == [Packet("gamestart", opp) EXCEPT !.round = 1, !.game = glist[num].id]
    <3>1. PICK p \in GameReply : p = packet /\ p.type = "gamestart"
      <4>1. 1 \in 0..MaxRound /\ glist[num].id \in Nat
        BY <2>2, GameAssumption DEF Whole, Game
      <4>2. Packet("gamestart", opp) \in GameReply /\ Packet("gamestart", opp).type = "gamestart"
        BY <1>3, PlainPackets
      <4>3. packet \in GameReply /\ packet.type = "gamestart"
        BY <1>3, <4>1, StartPacket, Zenon
      <4>4. QED
        BY <4>3, Zenon
    <3>2. SendTo(n, p)
      BY <2>1, <3>1, Zenon
    <3>3. QED
      BY <1>1, <1>2, <3>1, <3>2, Served
  <2>10. QED
    BY <2>7, <2>8, <2>9 DEF GameInv
<1>5. CASE num \notin DOMAIN glist
  <2>1. SendTo(n, Packet("gamerefuse", n)) /\ UNCHANGED <<ulist, glist, intruded>>
    BY <1>5, Zenon DEF HandleAccept
  <2>2. Packet("gamerefuse", n) \in GameReply /\ Packet("gamerefuse", n).type = "gamerefuse"
    BY <1>1, PlainPackets
  <2>3. ClientTypes' /\ Sessions'
    BY <1>1, <1>2, <2>1, <2>2, Served
  <2>4. TableTypes' /\ (~intruded' => TablesAgree')
    BY <1>1, <1>2, <2>1 DEF TableTypes, TablesAgree, GameInv
  <2>5. QED
    BY <2>3, <2>4 DEF GameInv
<1>6. QED
  BY <1>4, <1>5

\* Refusing, quitting and answering mark the user's own game, in which it plays.
LEMMA MarksInv ==
  ASSUME TableTypes, ~intruded => TablesAgree, NEW n \in User, n \in DOMAIN ulist,
         UNCHANGED <<ulist, named, down, intruded, games>>, late' \in BOOLEAN,
         \/ UNCHANGED glist
         \/ /\ ulist[n].gid \in DOMAIN glist
            /\ \E game : /\ Whole(game) /\ game.pl = glist[ulist[n].gid].pl \cup {n}
                         /\ glist' = [glist EXCEPT ![ulist[n].gid] = game]
  PROVE  TableTypes' /\ (~intruded' => TablesAgree')
<1>1. CASE UNCHANGED glist
  BY <1>1 DEF TableTypes, TablesAgree
<1>2. CASE /\ ulist[n].gid \in DOMAIN glist
           /\ \E game : /\ Whole(game) /\ game.pl = glist[ulist[n].gid].pl \cup {n}
                        /\ glist' = [glist EXCEPT ![ulist[n].gid] = game]
  <2> DEFINE num == ulist[n].gid
  <2>1. PICK game : Whole(game) /\ game.pl = glist[num].pl \cup {n} /\ glist' = [glist EXCEPT ![num] = game]
    BY <1>2
  <2>2. Numbered(glist, games) /\ games \in Nat /\ num \in DOMAIN glist
    BY <1>2 DEF TableTypes
  <2>3. Numbered(glist', games')
    BY <2>1, <2>2, GameReplaced
  <2>4. TableTypes'
    BY <2>3 DEF TableTypes
  <2>5. ~intruded' => TablesAgree'
    <3> SUFFICES ASSUME ~intruded' PROVE TablesAgree'
      OBVIOUS
    <3>1. ~down /\ Linked(ulist, glist)
      BY DEF TablesAgree
    <3>2. num # -1
      BY <2>2 DEF Numbered
    <3>3. n \in glist[num].pl
      BY <3>1, <3>2 DEF Linked, Points
    <3>4. game.pl = glist[num].pl
      BY <2>1, <3>3
    <3>5. Linked(ulist, glist')
      BY <2>1, <2>2, <3>1, <3>4, GameReplaced
    <3>6. QED
      BY <3>1, <3>5 DEF TablesAgree
  <2>6. QED
    BY <2>4, <2>5
<1>3. QED
  BY <1>1, <1>2

\* HandleRefuse, HandleQuit and HandleAnswer.
LEMMA HandleMarkInv ==
  ASSUME GameInv, NEW n \in User, HandleRefuse(n) \/ HandleQuit(n) \/ HandleAnswer(n), UNCHANGED clientVars
  PROVE  GameInv'
<1> DEFINE num == ulist[n].gid
<1>1. n \in Names /\ TableTypes /\ ClientTypes /\ Sessions /\ Session(n) /\ (~intruded => TablesAgree)
  BY DEF GameInv, Names, Sessions
<1>2. PICK type \in {"gamerefuse", "gamequit", "gameanswer"} : Takes(n, type)
  BY Zenon DEF HandleRefuse, HandleQuit, HandleAnswer
<1>3. n \in named /\ n \in DOMAIN ulist /\ Head(inbox[n]).ans \in 0..3
  <2>1. Head(inbox[n]) \in GameRequest /\ Legal(n, type)
    BY <1>1, <1>2, TakenOff
  <2>2. QED
    BY <1>1, <2>1 DEF GameRequest, Legal, TableTypes
<1>4. UNCHANGED <<ulist, named, down, out, intruded, games>>
  BY DEF HandleRefuse, HandleQuit, HandleAnswer, Marks
<1>5. late' \in BOOLEAN
  BY <1>1 DEF HandleRefuse, HandleQuit, HandleAnswer, TableTypes
<1>6. ASSUME num \in DOMAIN glist
      PROVE  \E game : /\ Whole(game) /\ game.pl = glist[num].pl \cup {n}
                       /\ glist' = [glist EXCEPT ![num] = game]
  <2> USE <1>6
  <2>1. Whole(glist[num])
    BY <1>1 DEF TableTypes, Numbered
  <2>2. glist[num] \in Game
    BY <2>1 DEF Whole
  <2>3. CASE HandleRefuse(n)
    <3> DEFINE new == [glist[num] EXCEPT !.pl = @ \cup {n}, !.refuse = @ \cup {n}]
    <3>1. glist' = [glist EXCEPT ![num] = new]
      BY <2>3 DEF HandleRefuse, Marks
    <3>2. /\ new \in Game /\ new.pl = glist[num].pl \cup {n} /\ new.refuse = glist[num].refuse \cup {n}
          /\ new.rdy = glist[num].rdy /\ new.quit = glist[num].quit
      BY <1>1, <2>2 DEF Game
    <3> HIDE DEF new
    <3>3. Whole(new)
      BY <2>1, <3>2 DEF Whole
    <3>4. QED
      BY <3>1, <3>2, <3>3
  <2>4. CASE HandleQuit(n)
    <3> DEFINE new == [glist[num] EXCEPT !.pl = @ \cup {n}, !.quit = @ \cup {n}]
    <3>1. glist' = [glist EXCEPT ![num] = new]
      BY <2>4 DEF HandleQuit, Marks
    <3>2. /\ new \in Game /\ new.pl = glist[num].pl \cup {n} /\ new.quit = glist[num].quit \cup {n}
          /\ new.rdy = glist[num].rdy /\ new.refuse = glist[num].refuse
      BY <1>1, <2>2 DEF Game
    <3> HIDE DEF new
    <3>3. Whole(new)
      BY <2>1, <3>2 DEF Whole
    <3>4. QED
      BY <3>1, <3>2, <3>3
  <2>5. CASE HandleAnswer(n)
    <3> DEFINE new == [glist[num] EXCEPT !.pl = @ \cup {n}, !.hand[n] = Head(inbox[n]).ans]
    <3>1. glist' = [glist EXCEPT ![num] = new]
      BY <2>5 DEF HandleAnswer, Marks
    <3>2. /\ new \in Game /\ new.pl = glist[num].pl \cup {n}
          /\ new.rdy = glist[num].rdy /\ new.refuse = glist[num].refuse /\ new.quit = glist[num].quit
      BY <1>1, <1>3, <2>2 DEF Game
    <3> HIDE DEF new
    <3>3. Whole(new)
      BY <2>1, <3>2 DEF Whole
    <3>4. QED
      BY <3>1, <3>2, <3>3
  <2>6. QED
    BY <2>3, <2>4, <2>5
<1>7. ASSUME num \notin DOMAIN glist PROVE UNCHANGED glist
  BY <1>7 DEF HandleRefuse, HandleQuit, HandleAnswer, Marks
<1>8. TableTypes' /\ (~intruded' => TablesAgree')
  BY <1>1, <1>3, <1>4, <1>5, <1>6, <1>7, MarksInv
<1>9. ClientTypes' /\ Sessions'
  BY <1>1, <1>2, <1>4, Served
<1>10. QED
  BY <1>8, <1>9 DEF GameInv

\* The connection of n has ended: its entry and its game go, its opponent's
\* entry forgets the game.
LEMMA HandleExitInv ==
  ASSUME GameInv, NEW n \in User, HandleExit(n), UNCHANGED clientVars
  PROVE  GameInv'
<1> DEFINE num == IF n \in named THEN ulist[n].gid ELSE -1
           opp == IF num \in DOMAIN glist THEN Oppo(glist[num], n) ELSE n
           left == (DOMAIN ulist \cup {opp}) \ {n}
<1>1. n \in Names /\ Takes(n, "eof") /\ TableTypes /\ ClientTypes /\ Sessions /\ Session(n) /\ Room(n)
  BY DEF GameInv, HandleExit, Names, Sessions
<1>2. UNCHANGED <<out, intruded, late, games>> /\ named' = named \ {n}
  BY DEF HandleExit
<1>3. /\ down' = (num \notin DOMAIN glist \cup {-1})
      /\ glist' = [g \in DOMAIN glist \ {num} |-> glist[g]]
      /\ ulist' = IF n \in named THEN [u \in left |-> IF u = opp THEN LoggedIn ELSE ulist[u]] ELSE ulist
  BY DEF HandleExit, Erased
<1>4. /\ Numbered(glist, games) /\ games \in Nat /\ UsersTyped(ulist)
      /\ \A g \in DOMAIN glist : g # -1 /\ Whole(glist[g])
  BY <1>1 DEF TableTypes, Numbered
<1>5. /\ opp \in Names
      /\ num \in DOMAIN glist => opp \in glist[num].pl \ {n} /\ n \in named
  BY <1>1, <1>4, OpponentPlays DEF Whole, Game
<1> HIDE DEF num, opp
<1>6. LoggedIn \in state /\ LoggedIn.gid = -1
  BY GameAssumption DEF LoggedIn, state
<1>7. n \in named => /\ DOMAIN ulist' = left
                     /\ \A u \in left : ulist'[u] = IF u = opp THEN LoggedIn ELSE ulist[u]
  BY <1>3
<1>8. UsersTyped(ulist')
  <2> SUFFICES ASSUME n \in named PROVE UsersTyped(ulist')
    BY <1>3, <1>4
  <2>1. left \subseteq Names /\ \A u \in left : u # opp => u \in DOMAIN ulist
    BY <1>4, <1>5 DEF UsersTyped
  <2>2. \A u \in left : ulist'[u] \in state
    BY <1>4, <1>6, <1>7, <2>1 DEF UsersTyped
  <2>3. ulist' \in [left -> state]
    BY <1>3, <1>7, <2>2
  <2>4. QED
    BY <1>7, <2>1, <2>3 DEF UsersTyped
<1>9. Numbered(glist', games')
  BY <1>2, <1>3, <1>4, GameErased
<1>10. TableTypes'
  <2>1. named' \subseteq DOMAIN ulist'
    <3>1. CASE n \in named
      BY <1>1, <1>2, <1>7, <3>1 DEF TableTypes
    <3>2. CASE n \notin named
      BY <1>1, <1>2, <1>3, <3>2 DEF TableTypes
    <3>3. QED
      BY <3>1, <3>2
  <2>2. down' \in BOOLEAN
    BY <1>3
  <2>3. QED
    BY <1>1, <1>2, <1>8, <1>9, <2>1, <2>2 DEF TableTypes
<1>11. ~intruded' => TablesAgree'
  <2> SUFFICES ASSUME ~intruded' PROVE TablesAgree'
    OBVIOUS
  <2>1. ~down /\ Linked(ulist, glist)
    BY <1>2 DEF GameInv, TablesAgree
  <2>2. num # -1 => num \in DOMAIN glist
    BY <1>1, <2>1 DEF num, Linked, Points, TableTypes
  <2>3. num \in DOMAIN glist => glist[num].pl = {n, opp}
    <3>1. ASSUME num \in DOMAIN glist PROVE glist[num].pl = {n, opp}
      <4>1. Pair(glist[num].pl) /\ opp \in glist[num].pl \ {n}
        BY <1>5, <2>1, <3>1 DEF Linked
      <4>2. n \in glist[num].pl
        BY <1>1, <1>4, <1>5, <2>1, <3>1 DEF num, Linked, Points, TableTypes
      <4>3. QED
        BY <4>1, <4>2 DEF Pair
    <3>2. QED
      BY <3>1
  <2>4. \A u \in DOMAIN ulist' :
          \/ ulist'[u].gid = -1
          \/ /\ u \in DOMAIN ulist /\ ulist'[u] = ulist[u]
             /\ num \in DOMAIN glist => u \notin glist[num].pl
    <3>1. CASE n \notin named
      BY <1>3, <1>5, <3>1
    <3>2. CASE n \in named
      <4> SUFFICES ASSUME NEW u \in left, u # opp
                   PROVE  /\ u \in DOMAIN ulist
                          /\ num \in DOMAIN glist => u \notin {n, opp}
        BY <1>6, <1>7, <2>3, <3>2
      <4>1. u \in DOMAIN ulist /\ u # n
        OBVIOUS
      <4>2. QED
        BY <4>1
    <3>3. QED
      BY <3>1, <3>2
  <2>5. Linked(ulist', glist')
    BY <1>3, <1>4, <2>1, <2>4, GameErased
  <2>6. ~down'
    BY <1>3, <2>2
  <2>7. QED
    BY <2>5, <2>6 DEF TablesAgree
<1>12. ClientTypes' /\ Sessions'
  <2>1. /\ looking[n] = NoLook /\ looking' = looking
        /\ inbox' \in [User -> Seq(GameRequest)] /\ inbox'[n] = <<>>
        /\ \A c \in User : c # n => inbox'[c] = inbox[c]
        /\ Legal(n, "eof")
    BY <1>1, TakenOff
  <2>2. stage' = stage /\ asked' = asked /\ oppo' = oppo /\ hand' = hand /\ seen' = seen /\ out' = out
    BY <1>2 DEF clientVars
  <2>3. ClientTypes'
    BY <1>1, <2>1, <2>2 DEF ClientTypes
  <2>4. \A c \in User \ {n} : Session(c)' /\ Room(c)'
    BY <1>1, <1>2, <2>1, <2>2, Undisturbed DEF Sessions
  <2>5. stage[n] = "off"
    BY <2>1 DEF Legal
  <2>6. Session(n)'
    BY <1>1, <2>1, <2>2, <2>5 DEF Session, Inside
  <2>7. Room(n)'
    <3>1. Owed(n)' = 0 /\ Expecting(n)' = 0 /\ Owed(n) = 0 /\ Expecting(n) = 0
      <4>1. Head(inbox[n]).type = "eof"
        BY <1>1, TakenOff
      <4>2. QED
        BY <2>1, <2>2, <2>5, <4>1 DEF Owed, Asking, Expecting
    <3>2. Len(out[n]) + 0 <= MaxOut + 0
      BY <1>1, <3>1 DEF Room
    <3>3. QED
      BY <2>2, <3>1, <3>2 DEF Room
  <2>8. QED
    BY <2>3, <2>4, <2>6, <2>7 DEF Sessions
<1>13. QED
  BY <1>10, <1>11, <1>12 DEF GameInv

\* The number of the own game is read; there is room for what Look may send.
LEMMA ReadGidInv ==
  ASSUME GameInv, NEW n \in User, ReadGid(n), UNCHANGED clientVars
  PROVE  GameInv'
<1>1. /\ TableTypes /\ ClientTypes /\ Sessions /\ (~intruded => TablesAgree) /\ Session(n) /\ Room(n)
  BY DEF GameInv, Sessions
<1>2. /\ n \in named /\ looking[n] = NoLook /\ inbox[n] = <<>> /\ Len(out[n]) < MaxOut
      /\ ulist[n].gid # -1 /\ looking' = [looking EXCEPT ![n] = ulist[n].gid]
  BY DEF ReadGid
<1>3. UNCHANGED <<ulist, glist, named, down, intruded, late, games, inbox, out>>
  BY DEF ReadGid
<1>4. stage' = stage /\ asked' = asked /\ oppo' = oppo /\ hand' = hand /\ seen' = seen
  BY DEF clientVars
<1>5. TableTypes' /\ (~intruded' => TablesAgree')
  BY <1>1, <1>3 DEF TableTypes, TablesAgree
<1>6. ulist[n].gid \in 0..MaxGames
  BY <1>1, <1>2 DEF TableTypes, UsersTyped, state
<1>7. /\ looking' \in [User -> {NoLook} \cup 0..MaxGames] /\ looking'[n] # NoLook
      /\ \A c \in User : c # n => looking'[c] = looking[c]
  BY <1>1, <1>2, <1>6 DEF ClientTypes, NoLook
<1>8. ClientTypes'
  BY <1>1, <1>3, <1>4, <1>7 DEF ClientTypes
<1>9. \A c \in User \ {n} : Session(c)' /\ Room(c)'
  BY <1>1, <1>3, <1>4, <1>7, Undisturbed DEF Sessions
<1>10. Session(n)'
  BY <1>1, <1>2, <1>3, <1>4 DEF Session
<1>11. Room(n)'
  <2>1. Owed(n)' = 1 /\ Expecting(n)' \in {0, 1}
    BY <1>2, <1>3, <1>7 DEF Owed, Asking, Expecting
  <2>2. Len(out'[n]) \in Nat /\ Len(out'[n]) < MaxOut /\ MaxOut \in Nat
    BY <1>1, <1>2, <1>3, GameAssumption DEF ClientTypes
  <2>3. Len(out'[n]) + 1 <= MaxOut + Expecting(n)'
    BY <2>1, <2>2
  <2>4. QED
    BY <2>1, <2>3, Zenon DEF Room
<1>12. QED
  BY <1>5, <1>8, <1>9, <1>10, <1>11 DEF GameInv, Sessions

\* A thread that has looked and told its client at most one thing.
LEMMA Looked ==
  ASSUME ClientTypes, Sessions, NEW n \in User, UNCHANGED <<clientVars, inbox, named>>,
         looking[n] # NoLook, looking' = [looking EXCEPT ![n] = NoLook],
         \/ UNCHANGED out
         \/ \E p \in GameReply : SendTo(n, p) /\ p.type # "loginok"
  PROVE  ClientTypes' /\ Sessions'
<1>1. Session(n) /\ Room(n)
  BY DEF Sessions
<1>2. /\ stage' = stage /\ asked' = asked /\ oppo' = oppo /\ hand' = hand /\ seen' = seen
      /\ inbox' = inbox /\ named' = named
  BY DEF clientVars
<1>3. out[n] \in Seq(GameReply) /\ out \in [User -> Seq(GameReply)]
  BY DEF ClientTypes
<1>4. /\ looking' \in [User -> {NoLook} \cup 0..MaxGames] /\ looking'[n] = NoLook
      /\ \A c \in User : c # n => looking'[c] = looking[c]
  BY DEF ClientTypes
<1>5. /\ out' \in [User -> Seq(GameReply)] /\ \A c \in User : c # n => out'[c] = out[c]
      /\ Len(out'[n]) <= Len(out[n]) + 1
      /\ \A i \in DOMAIN out'[n] :
           \/ i \in DOMAIN out[n] /\ out'[n][i] = out[n][i]
           \/ out'[n][i].type # "loginok"
  <2>1. CASE UNCHANGED out
    <3>1. Len(out[n]) \in Nat
      BY <1>3
    <3>2. QED
      BY <1>3, <2>1, <3>1
  <2>2. CASE \E p \in GameReply : SendTo(n, p) /\ p.type # "loginok"
    <3>1. PICK p \in GameReply : SendTo(n, p) /\ p.type # "loginok"
      BY <2>2
    <3>2. /\ out' \in [User -> Seq(GameReply)]
          /\ \A c \in User : c # n => out'[c] = out[c]
          /\ Len(out'[n]) = Len(out[n]) + 1
          /\ \A i \in DOMAIN out'[n] : out'[n][i] = p \/ (i \in DOMAIN out[n] /\ out'[n][i] = out[n][i])
      BY <1>3, <3>1, Sent
    <3>3. QED
      BY <1>3, <3>1, <3>2
  <2>3. QED
    BY <2>1, <2>2
<1>6. ClientTypes'
  BY <1>2, <1>4, <1>5 DEF ClientTypes
<1>7. \A c \in User \ {n} : Session(c)' /\ Room(c)'
  BY <1>2, <1>4, <1>5, Undisturbed DEF Sessions
<1>8. Session(n)'
  <2>1. \A i \in DOMAIN out'[n] : out'[n][i].type = "loginok" => n \in named' /\ stage'[n] # "off"
    BY <1>1, <1>2, <1>5 DEF Session
  <2>2. (inbox[n] # <<>> => Legal(n, Head(inbox[n]).type)) => (inbox[n] # <<>> => Legal(n, Head(inbox[n]).type))'
    BY <1>2 DEF Legal
  <2>3. QED
    BY <1>1, <1>2, <1>4, <2>1, <2>2 DEF Session
<1>9. Room(n)'
  <2>1. Owed(n) = Owed(n)' + 1 /\ Owed(n)' \in {0, 1} /\ Expecting(n)' = Expecting(n)
    BY <1>2, <1>4 DEF Owed, Asking, Expecting
  <2>2. Len(out[n]) \in Nat /\ Len(out'[n]) \in Nat /\ Expecting(n) \in {0, 1} /\ MaxOut \in Nat
    BY <1>3, <1>5, GameAssumption DEF Expecting
  <2>3. Len(out[n]) + Owed(n) <= MaxOut + Expecting(n) /\ Len(out'[n]) <= Len(out[n]) + 1
    BY <1>1, <1>5 DEF Room
  <2>4. Len(out'[n]) + Owed(n)' <= MaxOut + Expecting(n)
    BY <2>1, <2>2, <2>3
  <2>5. QED
    BY <2>1, <2>4, Zenon DEF Room
<1>10. QED
  BY <1>6, <1>7, <1>8, <1>9 DEF Sessions

\* A game after a look of n: its players are those it had, and n.
Played(game, new, n) == Whole(new) /\ game.pl \subseteq new.pl /\ new.pl \subseteq game.pl \cup {n}

\* end_round leaves a game whole, and its round as it is.
LEMMA RoundEnded ==
  ASSUME NEW game, Whole(game), NEW n \in Names
  PROVE  Played(game, EndRound(game, n), n) /\ EndRound(game, n).round = game.round
<1> DEFINE opp == Min(game.pl \ {n})
           a == game.hand[n]
           b == game.hand[opp]
           clear == Cleared(game, n, opp)
           scored == [clear EXCEPT
                        !.score[n] = IF Beats(a, b) THEN @ + 1 ELSE @,
                        !.score[opp] = IF a # b /\ ~Beats(a, b) THEN @ + 1 ELSE @,
                        !.shown[n] = a, !.shown[opp] = b,
                        !.read[n] = 1, !.read[opp] = 1]
           joined == [game EXCEPT !.pl = @ \cup {n}]
<1>1. opp \in Names /\ game \in Game
  BY OpponentPlays DEF Whole, Game
<1>2. EndRound(game, n) \in {game, joined, scored}
  BY Zenon DEF EndRound
<1>3. Played(game, game, n)
  BY DEF Played
<1>4. Played(game, joined, n) /\ joined.round = game.round
  <2>1. /\ joined \in Game /\ joined.pl = game.pl \cup {n} /\ joined.round = game.round
        /\ joined.rdy = game.rdy /\ joined.refuse = game.refuse /\ joined.quit = game.quit
    BY <1>1 DEF Game
  <2> HIDE DEF joined
  <2>2. QED
    BY <2>1 DEF Played, Whole
<1>5. Played(game, scored, n) /\ scored.round = game.round
  <2>1. a \in 0..3 /\ b \in 0..3 /\ unknown \in 0..3
    BY <1>1 DEF Game, unknown
  <2>2. /\ clear \in Game /\ clear.pl = game.pl /\ clear.round = game.round
        /\ clear.rdy = game.rdy /\ clear.refuse = game.refuse /\ clear.quit = game.quit
    BY <1>1, <2>1 DEF Cleared, Game
  <2> HIDE DEF opp, a, b, clear
  <2>3. /\ scored \in Game /\ scored.pl = clear.pl /\ scored.round = clear.round
        /\ scored.rdy = clear.rdy /\ scored.refuse = clear.refuse /\ scored.quit = clear.quit
    <3> DEFINE sc == [clear.score EXCEPT ![n] = IF Beats(a, b) THEN @ + 1 ELSE @,
                                         ![opp] = IF a # b /\ ~Beats(a, b) THEN @ + 1 ELSE @]
               sh == [clear.shown EXCEPT ![n] = a, ![opp] = b]
               rd == [clear.read EXCEPT ![n] = 1, ![opp] = 1]
    <3>1. sc \in [Names -> Nat]
      BY <1>1, <2>2 DEF Game
    <3>2. sh \in [Names -> 0..3]
      BY <1>1, <2>1, <2>2 DEF Game
    <3>3. rd \in [Names -> 0..2]
      BY <1>1, <2>2 DEF Game
    <3>4. scored = [clear EXCEPT !.score = sc, !.shown = sh, !.read = rd]
      BY <1>1, <2>2 DEF Game
    <3> HIDE DEF sc, sh, rd, scored
    <3>5. QED
      BY <2>2, <3>1, <3>2, <3>3, <3>4 DEF Game
  <2> HIDE DEF scored
  <2>4. QED
    BY <2>2, <2>3 DEF Played, Whole
<1> HIDE DEF joined, scored
<1>6. QED
  BY <1>2, <1>3, <1>4, <1>5

\* The result of the round is told to n, and the next round may begin.
LEMMA RoundTold ==
  ASSUME NEW game, Whole(game), NEW n \in Names, NEW opp \in Names
  PROVE  LET ended == EndRound(game, n)
             told == IF ended.read[n] = 1 THEN [ended EXCEPT !.read[n] = 2] ELSE ended
             next == IF told.read[n] = 2 /\ told.read[opp] = 2 THEN NextRound(told) ELSE told
         IN  next.round <= MaxRound => Played(game, next, n)
<1> DEFINE ended == EndRound(game, n)
           mark == [ended EXCEPT !.read[n] = 2]
           told == IF ended.read[n] = 1 THEN mark ELSE ended
           next == IF told.read[n] = 2 /\ told.read[opp] = 2 THEN NextRound(told) ELSE told
<1>1. Played(game, ended, n)
  BY RoundEnded
<1> HIDE DEF ended
<1>2. Played(game, mark, n)
  <2>1. ended \in Game
    BY <1>1 DEF Played, Whole
  <2>2. mark \in Game /\ mark.pl = ended.pl /\ mark.rdy = ended.rdy /\ mark.refuse = ended.refuse /\ mark.quit = ended.quit
    BY <2>1 DEF Game
  <2> HIDE DEF mark
  <2>3. QED
    BY <1>1, <2>2 DEF Played, Whole
<1> HIDE DEF mark
<1>3. Played(game, told, n)
  BY <1>1, <1>2
<1> HIDE DEF told
<1>4. ASSUME NextRound(told).round <= MaxRound PROVE Played(game, NextRound(told), n)
  <2> DEFINE new == NextRound(told)
             p == P1(told)
             q == P2(told)
  <2>1. told \in Game /\ Whole(told)
    BY <1>3 DEF Played, Whole
  <2>2. p \in Names /\ q \in Names
    <3>1. told.pl \in SUBSET Names /\ \E a, b \in told.pl : a # b
      BY <2>1 DEF Whole, Game
    <3>2. p \in told.pl
      BY <3>1, LeastName, Zenon DEF P1
    <3>3. told.pl \ {p} \in SUBSET Names /\ told.pl \ {p} # {}
      BY <3>1
    <3>4. q \in told.pl
      BY <3>3, LeastName DEF P2
    <3>5. QED
      BY <3>1, <3>2, <3>4
  <2>3. new = [told EXCEPT !.round = @ + 1, !.read[p] = 0, !.read[q] = 0]
    BY DEF NextRound
  <2> HIDE DEF p, q, new
  <2>4. new.round = told.round + 1 /\ new.pl = told.pl /\ new.rdy = told.rdy /\ new.refuse = told.refuse /\ new.quit = told.quit
    BY <2>1, <2>3 DEF Game
  <2>5. new.round \in 0..MaxRound
    BY <1>4, <2>1, <2>4, GameAssumption DEF Game, new
  <2>6. new \in Game
    <3>1. [told.read EXCEPT ![p] = 0, ![q] = 0] \in [Names -> 0..2]
      BY <2>1, <2>2 DEF Game
    <3>2. new = [told EXCEPT !.round = new.round, !.read = [told.read EXCEPT ![p] = 0, ![q] = 0]]
      BY <2>1, <2>3 DEF Game
    <3> DEFINE read == [told.read EXCEPT ![p] = 0, ![q] = 0]
    <3> HIDE DEF read
    <3>3. QED
      BY <2>1, <2>5, <3>1, <3>2 DEF Game, read
  <2>7. Whole(new)
    BY <2>1, <2>4, <2>6 DEF Whole
  <2>8. QED
    BY <1>3, <2>4, <2>7 DEF Played, new
<1>5. next.round <= MaxRound => Played(game, next, n)
  BY <1>3, <1>4
<1>6. QED
  BY <1>5 DEF next, told, mark, ended

\* What a look may do to the tables: nothing to ulist, or the game is removed
\* and both players forget its number.
Kept(n, g) ==
  /\ UNCHANGED ulist
  /\ \/ UNCHANGED glist
     \/ \E new : Played(glist[g], new, n) /\ glist' = [glist EXCEPT ![g] = new]
\* Game g is erased, and neither n nor opp points at it.
Ended(n, opp, g) ==
  /\ glist' = Erased(g)
  /\ UsersTyped(ulist') /\ DOMAIN ulist \subseteq DOMAIN ulist'
  /\ \A u \in DOMAIN ulist' :
       \/ ulist'[u].gid = -1
       \/ u \in DOMAIN ulist /\ ulist'[u] = ulist[u] /\ u \notin {n, opp}

\* quit and refuse set both players' gid back.
LEMMA BothForget ==
  ASSUME UsersTyped(ulist), NEW n \in Names, NEW opp \in Names, NEW g, glist' = Erased(g),
         \/ ulist' = With(ulist, {n, opp}, LoggedIn)
         \/ ulist' = [u \in DOMAIN ulist \cup {n, opp} |->
                        IF u \notin DOMAIN ulist THEN LoggedIn
                        ELSE [ulist[u] EXCEPT !.gid = IF u \in {n, opp} THEN -1 ELSE @]]
  PROVE  Ended(n, opp, g)
<1>1. LoggedIn \in state /\ LoggedIn.gid = -1 /\ -1 \in -1..MaxGames
  BY GameAssumption DEF LoggedIn, state
<1>2. ulist \in [DOMAIN ulist -> state] /\ DOMAIN ulist \subseteq Names
  BY DEF UsersTyped
<1>3. CASE ulist' = With(ulist, {n, opp}, LoggedIn)
  <2>1. UsersTyped(ulist')
    <3>1. {n, opp} \subseteq Names
      OBVIOUS
    <3>2. QED
      BY <1>1, <1>3, <3>1, UsersWritten
  <2>2. DOMAIN ulist' = DOMAIN ulist \cup {n, opp}
    BY <1>3 DEF With
  <2>3. \A u \in DOMAIN ulist' : ulist'[u] = IF u \in {n, opp} THEN LoggedIn ELSE ulist[u]
    BY <1>3 DEF With
  <2>4. QED
    BY <1>1, <2>1, <2>2, <2>3 DEF Ended
<1>4. CASE ulist' = [u \in DOMAIN ulist \cup {n, opp} |->
                       IF u \notin DOMAIN ulist THEN LoggedIn
                       ELSE [ulist[u] EXCEPT !.gid = IF u \in {n, opp} THEN -1 ELSE @]]
  <2>1. ASSUME NEW u \in DOMAIN ulist
        PROVE  [ulist[u] EXCEPT !.gid = IF u \in {n, opp} THEN -1 ELSE @] \in state
    BY <1>1, <1>2, <2>1 DEF state
  <2>2. DOMAIN ulist' = DOMAIN ulist \cup {n, opp} /\ ulist' \in [DOMAIN ulist' -> state]
    BY <1>1, <1>4, <2>1
  <2>3. \A u \in DOMAIN ulist' : u \in {n, opp} => ulist'[u].gid = -1
    BY <1>1, <1>2, <1>4 DEF state
  <2>4. \A u \in DOMAIN ulist' : u \notin {n, opp} => u \in DOMAIN ulist /\ ulist'[u] = ulist[u]
    <3> SUFFICES ASSUME NEW u \in DOMAIN ulist', u \notin {n, opp}
                 PROVE  u \in DOMAIN ulist /\ ulist'[u] = ulist[u]
      OBVIOUS
    <3>1. u \in DOMAIN ulist
      BY <2>2
    <3>2. ulist[u] \in state /\ ulist'[u] = [ulist[u] EXCEPT !.gid = ulist[u].gid]
      BY <1>2, <1>4, <3>1
    <3>3. QED
      BY <3>1, <3>2 DEF state
  <2>5. UsersTyped(ulist')
    BY <1>2, <2>2 DEF UsersTyped
  <2>6. QED
    BY <2>2, <2>3, <2>4, <2>5 DEF Ended
<1>5. QED
  BY <1>3, <1>4

\* The tables after a look that kept the game or ended it.
LEMMA LookTables ==
  ASSUME TableTypes, ~intruded => TablesAgree, NEW n \in User, n \in DOMAIN ulist, NEW g \in DOMAIN glist,
         Kept(n, g) \/ Ended(n, Oppo(glist[g], n), g),
         UNCHANGED <<named, late, games, down>>, intruded' = (intruded \/ g # ulist[n].gid)
  PROVE  TableTypes' /\ (~intruded' => TablesAgree')
<1> DEFINE opp == Oppo(glist[g], n)
<1>1. /\ Numbered(glist, games) /\ games \in Nat /\ UsersTyped(ulist) /\ Whole(glist[g]) /\ g # -1
      /\ n \in Names
  BY DEF TableTypes, Numbered, Names
<1>2. opp \in glist[g].pl \ {n}
  BY <1>1, OpponentPlays
<1> HIDE DEF opp
<1>3. Kept(n, g) \/ Ended(n, opp, g)
  BY DEF opp
<1>4. intruded' \in BOOLEAN /\ (~intruded' => ~intruded /\ g = ulist[n].gid)
  BY DEF TableTypes
<1>5. ASSUME ~intruded'
      PROVE  ~down /\ Linked(ulist, glist) /\ glist[g].pl = {n, opp}
  <2>1. ~down /\ Linked(ulist, glist) /\ g = ulist[n].gid
    BY <1>4, <1>5 DEF TablesAgree
  <2>2. n \in glist[g].pl /\ Pair(glist[g].pl)
    BY <1>1, <2>1 DEF Linked, Points
  <2>3. QED
    BY <1>2, <2>1, <2>2 DEF Pair
<1>6. CASE Kept(n, g)
  <2>1. CASE UNCHANGED glist
    <3>1. UNCHANGED ulist
      BY <1>6 DEF Kept
    <3>2. QED
      BY <1>4, <1>5, <2>1, <3>1 DEF TableTypes, TablesAgree
  <2>2. CASE \E new : Played(glist[g], new, n) /\ glist' = [glist EXCEPT ![g] = new]
    <3>1. PICK new : Played(glist[g], new, n) /\ glist' = [glist EXCEPT ![g] = new]
      BY <2>2
    <3>2. UNCHANGED ulist
      BY <1>6 DEF Kept
    <3>3. Whole(new) /\ Numbered(glist', games')
      BY <1>1, <3>1, GameReplaced DEF Played
    <3>4. TableTypes'
      BY <1>4, <3>2, <3>3 DEF TableTypes
    <3>5. ASSUME ~intruded' PROVE TablesAgree'
      <4>1. ~down /\ Linked(ulist, glist) /\ new.pl = glist[g].pl
        BY <1>5, <3>1, <3>5 DEF Played
      <4>2. Linked(ulist, glist')
        BY <1>1, <3>1, <3>3, <4>1, GameReplaced
      <4>3. QED
        BY <3>2, <4>1, <4>2 DEF TablesAgree
    <3>6. QED
      BY <3>4, <3>5
  <2>3. QED
    BY <1>6, <2>1, <2>2 DEF Kept
<1>7. CASE Ended(n, opp, g)
  <2>1. glist' = [h \in DOMAIN glist \ {g} |-> glist[h]]
    BY <1>7 DEF Ended, Erased
  <2>2. Numbered(glist', games')
    BY <1>1, <2>1, GameErased
  <2>3. TableTypes'
    BY <1>4, <1>7, <2>2 DEF TableTypes, Ended
  <2>4. ASSUME ~intruded' PROVE TablesAgree'
    <3>1. ~down /\ Linked(ulist, glist) /\ glist[g].pl = {n, opp}
      BY <1>5, <2>4
    <3>2. \A u \in DOMAIN ulist' :
            \/ ulist'[u].gid = -1
            \/ u \in DOMAIN ulist /\ ulist'[u] = ulist[u] /\ (g \in DOMAIN glist => u \notin glist[g].pl)
      BY <1>7, <3>1 DEF Ended
    <3>3. Linked(ulist', glist')
      BY <1>1, <2>1, <3>1, <3>2, GameErased
    <3>4. QED
      BY <3>1, <3>3 DEF TablesAgree
  <2>5. QED
    BY <2>3, <2>4
<1>8. QED
  BY <1>3, <1>6, <1>7

\* Each of the things a thread may find, with what it tells its client.
Tells(n) ==
  \/ UNCHANGED out
  \/ \E p \in GameReply : SendTo(n, p) /\ p.type # "loginok"

\* A look that tells of an invitation, of the start of the game, or of nothing.
LEMMA LookKeeps ==
  ASSUME TableTypes, NEW n \in User, NEW opp \in Names, looking[n] \in DOMAIN glist,
         \/ Ask(n, glist[looking[n]], opp) \/ Start(n, glist[looking[n]], opp)
         \/ Idle(n, glist[looking[n]], opp)
  PROVE  Kept(n, looking[n]) /\ Tells(n)
<1> DEFINE g == looking[n]
           game == glist[looking[n]]
<1>1. n \in Names /\ Whole(game) /\ game \in Game
  BY DEF TableTypes, Numbered, Whole, Names
<1>2. CASE Ask(n, game, opp)
  <2> DEFINE new == [game EXCEPT !.pl = @ \cup {n}]
  <2>1. new \in Game /\ new.pl = game.pl \cup {n} /\ new.rdy = game.rdy /\ new.refuse = game.refuse /\ new.quit = game.quit
    BY <1>1 DEF Game
  <2>2. glist' = [glist EXCEPT ![g] = new] /\ UNCHANGED ulist
    BY <1>2 DEF Ask
  <2> HIDE DEF new
  <2>3. Played(game, new, n)
    BY <1>1, <2>1 DEF Played, Whole
  <2>4. Kept(n, g)
    BY <2>2, <2>3 DEF Kept
  <2>5. Packet("gamerequest", opp) \in GameReply /\ Packet("gamerequest", opp).type # "loginok"
    BY PlainPackets
  <2>6. QED
    BY <1>2, <2>4, <2>5, Zenon DEF Ask, Tells
<1>3. CASE Start(n, game, opp)
  <2> DEFINE new == [game EXCEPT !.rdy = @ \ {n, opp}]
  <2>1. new \in Game /\ new.pl = game.pl /\ new.rdy = game.rdy \ {n, opp} /\ new.refuse = game.refuse /\ new.quit = game.quit
    BY <1>1 DEF Game
  <2>2. glist' = [glist EXCEPT ![g] = new] /\ UNCHANGED ulist
    BY <1>3 DEF Start
  <2> HIDE DEF new
  <2>3. Played(game, new, n)
    BY <1>1, <2>1 DEF Played, Whole
  <2>4. Kept(n, g)
    BY <2>2, <2>3 DEF Kept
  <2> DEFINE packet == [Packet("gamestart", opp) EXCEPT !.round = 1, !.game = game.id]
  <2>5. packet \in GameReply /\ packet.type # "loginok"
    <3>1. 1 \in 0..MaxRound /\ game.id \in Nat
      BY <1>1, GameAssumption DEF Game
    <3>2. QED
      BY <3>1, StartPacket
  <2>6. QED
    BY <1>3, <2>4, <2>5, Zenon DEF Start, Tells
<1>4. CASE Idle(n, game, opp)
  BY <1>4 DEF Idle, Kept, Tells
<1>5. QED
  BY <1>2, <1>3, <1>4

\* A look that finds a refusal or a player who quits removes the game.
LEMMA LookForgets ==
  ASSUME TableTypes, NEW n \in User, NEW opp \in Names, looking[n] \in DOMAIN glist,
         Refused(n, glist[looking[n]], opp) \/ Quitted(n, glist[looking[n]], opp)
  PROVE  Ended(n, opp, looking[n]) /\ Tells(n)
<1> DEFINE g == looking[n]
           game == glist[looking[n]]
<1>1. n \in Names /\ UsersTyped(ulist)
  BY DEF TableTypes, Names
<1>2. CASE Refused(n, game, opp)
  <2>1. /\ glist' = Erased(g)
        /\ ulist' = [u \in DOMAIN ulist \cup {n, opp} |->
                       IF u \notin DOMAIN ulist THEN LoggedIn
                       ELSE [ulist[u] EXCEPT !.gid = IF u \in {n, opp} THEN -1 ELSE @]]
        /\ SendTo(n, Packet("gamerefuse", opp))
    BY <1>2 DEF Refused
  <2>2. Ended(n, opp, g)
    BY <1>1, <2>1, BothForget
  <2>3. Packet("gamerefuse", opp) \in GameReply /\ Packet("gamerefuse", opp).type # "loginok"
    BY PlainPackets
  <2>4. QED
    BY <2>1, <2>2, <2>3, Zenon DEF Tells
<1>3. CASE Quitted(n, game, opp)
  <2>1. /\ glist' = Erased(g) /\ ulist' = With(ulist, {n, opp}, LoggedIn)
        /\ SendTo(n, Packet("gamequit", opp))
    BY <1>3 DEF Quitted
  <2>2. Ended(n, opp, g)
    BY <1>1, <2>1, BothForget
  <2>3. Packet("gamequit", opp) \in GameReply /\ Packet("gamequit", opp).type # "loginok"
    BY PlainPackets
  <2>4. QED
    BY <2>1, <2>2, <2>3, Zenon DEF Tells
<1>4. QED
  BY <1>2, <1>3

\* A look at the hands keeps the game, or removes it after the last round.
LEMMA LookRound ==
  ASSUME TableTypes, NEW n \in User, NEW opp \in Names, looking[n] \in DOMAIN glist,
         Round(n, glist[looking[n]], opp)
  PROVE  (Kept(n, looking[n]) \/ Ended(n, opp, looking[n])) /\ Tells(n)
<1> DEFINE g == looking[n]
           game == glist[looking[n]]
           ended == EndRound(game, n)
           told == IF ended.read[n] = 1 THEN [ended EXCEPT !.read[n] = 2] ELSE ended
           next == IF told.read[n] = 2 /\ told.read[opp] = 2 THEN NextRound(told) ELSE told
           packet == [Packet("gameanswer", opp) EXCEPT !.ans = ended.shown[opp], !.round = ended.round,
                                                         !.game = game.id]
           over == next.round # told.round /\ (next.score[P1(next)] >= WIN \/ next.score[P2(next)] >= WIN)
<1>1. n \in Names /\ UsersTyped(ulist) /\ Whole(game)
  BY DEF TableTypes, Numbered, Names
<1>2. /\ IF ended.read[n] = 1 THEN SendTo(n, packet) ELSE UNCHANGED out
      /\ IF over
         THEN /\ glist' = Erased(g)
              /\ ulist' = With(ulist, {n, opp}, LoggedIn)
         ELSE /\ next.round <= MaxRound
              /\ glist' = [glist EXCEPT ![g] = next]
              /\ UNCHANGED ulist
  BY Zenon DEF Round
<1>3. packet \in GameReply /\ packet.type # "loginok"
  <2>1. ended \in Game
    BY <1>1, RoundEnded DEF Played, Whole
  <2> HIDE DEF ended
  <2>2. ended.shown[opp] \in 0..3 /\ ended.round \in 0..MaxRound /\ game.id \in Nat
    BY <1>1, <2>1 DEF Game, Whole
  <2>3. QED
    BY <2>2, GameAssumption DEF GameReply, Packet, unknown
<1>4. Tells(n)
  BY <1>2, <1>3, Zenon DEF Tells
<1>5. next.round <= MaxRound => Played(game, next, n)
  BY <1>1, RoundTold
<1> HIDE DEF over, next, told, ended, packet
<1>6. CASE over
  <2>1. Ended(n, opp, g)
    BY <1>1, <1>2, <1>6, BothForget
  <2>2. QED
    BY <1>4, <2>1
<1>7. CASE ~over
  <2>1. Kept(n, g)
    BY <1>2, <1>5, <1>7, Zenon DEF Kept
  <2>2. QED
    BY <1>4, <2>1
<1>8. QED
  BY <1>6, <1>7

\* A thread's look at the game of its client.
LEMMA LookInv ==
  ASSUME GameInv, NEW n \in User, Look(n), UNCHANGED clientVars
  PROVE  GameInv'
<1> DEFINE g == looking[n]
           opp == Oppo(glist[g], n)
<1>1. /\ TableTypes /\ ClientTypes /\ Sessions /\ (~intruded => TablesAgree) /\ Session(n)
      /\ n \in Names /\ g # NoLook /\ looking' = [looking EXCEPT ![n] = NoLook]
      /\ intruded' = (intruded \/ g # ulist[n].gid) /\ UNCHANGED <<named, inbox, late, games>>
  BY DEF GameInv, Sessions, Look, Names
<1>2. n \in DOMAIN ulist /\ g \in 0..MaxGames
  BY <1>1 DEF Session, TableTypes, ClientTypes
<1>3. CASE g \in DOMAIN glist
  <2>1. Whole(glist[g])
    BY <1>1, <1>3 DEF TableTypes, Numbered
  <2>2. opp \in Names
    BY <1>1, <2>1, OpponentPlays DEF Whole, Game
  <2>3. /\ \/ Ask(n, glist[g], opp) \/ Start(n, glist[g], opp) \/ Refused(n, glist[g], opp)
           \/ Quitted(n, glist[g], opp) \/ Round(n, glist[g], opp) \/ Idle(n, glist[g], opp)
        /\ UNCHANGED down
    BY <1>3, Zenon DEF Look
  <2> HIDE DEF opp
  <2>4. (Kept(n, g) \/ Ended(n, opp, g)) /\ Tells(n)
    BY <1>1, <1>3, <2>2, <2>3, LookKeeps, LookForgets, LookRound
  <2>5. TableTypes' /\ (~intruded' => TablesAgree')
    BY <1>1, <1>2, <1>3, <2>3, <2>4, LookTables DEF opp
  <2>6. ClientTypes' /\ Sessions'
    BY <1>1, <2>4, Looked DEF Tells
  <2>7. QED
    BY <2>5, <2>6 DEF GameInv
<1>4. CASE g \notin DOMAIN glist
  <2>1. down' = TRUE /\ UNCHANGED <<ulist, glist, out>>
    BY <1>4 DEF Look
  <2>2. intruded'
    <3>1. ASSUME ~intruded, g = ulist[n].gid PROVE FALSE
      <4>1. g # -1
        BY <1>2
      <4>2. QED
        BY <1>1, <1>2, <1>4, <3>1, <4>1 DEF TablesAgree, Linked, Points
    <3>2. QED
      BY <1>1, <3>1 DEF TableTypes
  <2>3. TableTypes'
    BY <1>1, <2>1, <2>2 DEF TableTypes
  <2>4. ClientTypes' /\ Sessions'
    BY <1>1, <2>1, Looked
  <2>5. QED
    BY <2>2, <2>3, <2>4 DEF GameInv
<1>5. QED
  BY <1>3, <1>4

\* A client that leaves the server alone, and the other clients.
LEMMA ClientAlone ==
  ASSUME GameInv, NEW c \in User, UNCHANGED serverVars,
         \A d \in User : d # c => stage'[d] = stage[d] /\ inbox'[d] = inbox[d] /\ out'[d] = out[d],
         ClientTypes', Session(c)', Room(c)'
  PROVE  GameInv'
<1>1. /\ TableTypes /\ Sessions /\ (~intruded => TablesAgree)
  BY DEF GameInv
<1>2. UNCHANGED <<ulist, glist, named, looking, down, intruded, late, games>>
  BY DEF serverVars
<1>3. TableTypes' /\ (~intruded' => TablesAgree')
  BY <1>1, <1>2 DEF TableTypes, TablesAgree
<1>4. \A d \in User \ {c} : Session(d)' /\ Room(d)'
  BY <1>1, <1>2, Undisturbed DEF Sessions
<1>5. QED
  BY <1>3, <1>4 DEF GameInv, Sessions

\* A packet to the server, on an idle connection.
LEMMA Posted ==
  ASSUME inbox \in [User -> Seq(GameRequest)], NEW c \in User, NEW p \in GameRequest, Sends(c, p)
  PROVE  /\ inbox[c] = <<>> /\ inbox' \in [User -> Seq(GameRequest)]
         /\ inbox'[c] # <<>> /\ Len(inbox'[c]) = 1 /\ Head(inbox'[c]) = p
         /\ \A d \in User : d # c => inbox'[d] = inbox[d]
<1>1. <<p>> \in Seq(GameRequest) /\ <<p>> # <<>> /\ Len(<<p>>) = 1 /\ Head(<<p>>) = p
  OBVIOUS
<1>2. inbox[c] = <<>> /\ inbox' = [inbox EXCEPT ![c] = <<p>>]
  BY DEF Sends
<1>3. inbox'[c] = <<p>> /\ inbox' \in [User -> Seq(GameRequest)] /\ \A d \in User : d # c => inbox'[d] = inbox[d]
  BY <1>1, <1>2
<1>4. QED
  BY <1>1, <1>2, <1>3, Zenon

\* What the person makes the client send, short of its end: a packet the server
\* will answer makes the client wait.
LEMMA ClientSends ==
  ASSUME GameInv, NEW c \in User, UNCHANGED serverVars, UNCHANGED out,
         NEW p \in GameRequest, Sends(c, p), NEW s \in Stages, To(stage, c, s),
         asked' \in [User -> BOOLEAN], oppo' \in [User -> Names],
         hand' \in [User -> 0..3], seen' \in [User -> Shown],
         stage[c] \notin {"sent", "waiting", "off"}, s # "off",
         s \in Inside => stage[c] \in Inside,
         p.type \in {"login", "gamerequest", "gameaccept"} => s \in {"sent", "waiting"},
         p.type # "eof", p.type # "login" => stage[c] \in Inside
  PROVE  GameInv'
<1>1. ClientTypes /\ Session(c) /\ Room(c)
  BY DEF GameInv, Sessions
<1>2. /\ inbox[c] = <<>> /\ inbox' \in [User -> Seq(GameRequest)]
      /\ inbox'[c] # <<>> /\ Len(inbox'[c]) = 1 /\ Head(inbox'[c]) = p
      /\ \A d \in User : d # c => inbox'[d] = inbox[d]
  BY <1>1, Posted DEF ClientTypes
<1>3. /\ stage' \in [User -> Stages] /\ stage'[c] = s
      /\ \A d \in User : d # c => stage'[d] = stage[d]
  BY <1>1 DEF To, ClientTypes
<1>4. looking' = looking /\ out' = out /\ named' = named
  BY DEF serverVars
<1>5. ClientTypes'
  BY <1>1, <1>2, <1>3, <1>4 DEF ClientTypes
<1>6. stage[c] \in Inside => c \in named
  BY <1>1 DEF Session
<1>7. Legal(c, p.type)'
  BY <1>3, <1>4, <1>6 DEF Legal
<1>8. Session(c)'
  <2>1. \A i \in DOMAIN out'[c] : out'[c][i].type = "loginok" => c \in named' /\ stage'[c] # "off"
    BY <1>1, <1>3, <1>4 DEF Session
  <2>2. Len(inbox'[c]) <= 1
    BY <1>2
  <2>3. (inbox'[c] # <<>> => Legal(c, Head(inbox[c]).type)')
    BY <1>2, <1>7 DEF Legal
  <2>4. (stage'[c] \in Inside => c \in named') /\ (looking'[c] # NoLook => c \in named')
    BY <1>1, <1>3, <1>4, <1>6 DEF Session
  <2>5. QED
    BY <2>1, <2>2, <2>3, <2>4 DEF Session
<1>9. Room(c)'
  <2>1. /\ Owed(c)' = (IF p.type \in {"login", "gamerequest", "gameaccept"} THEN 1 ELSE 0)
                       + (IF looking[c] # NoLook THEN 1 ELSE 0)
        /\ Owed(c) = IF looking[c] # NoLook THEN 1 ELSE 0
    BY <1>2, <1>4 DEF Owed, Asking
  <2>2. Expecting(c) = 0 /\ Expecting(c)' = IF s \in {"sent", "waiting"} THEN 1 ELSE 0
    BY <1>3 DEF Expecting
  <2>3. Owed(c) \in {0, 1} /\ Owed(c)' <= Owed(c) + Expecting(c)' /\ Owed(c)' \in Nat /\ Expecting(c)' \in {0, 1}
    BY <2>1, <2>2
  <2>4. Len(out[c]) \in Nat /\ MaxOut \in Nat /\ Len(out[c]) + Owed(c) <= MaxOut + Expecting(c)
    BY <1>1, GameAssumption DEF ClientTypes, Room
  <2>5. Len(out[c]) + Owed(c)' <= MaxOut + Expecting(c)'
    BY <2>2, <2>3, <2>4
  <2>6. QED
    BY <1>4, <2>5 DEF Room
<1>10. QED
  BY <1>2, <1>3, <1>4, <1>5, <1>8, <1>9, ClientAlone

\* What the person types.
LEMMA PersonSends ==
  ASSUME GameInv, NEW c \in User,
         \/ TypeName(c) \/ Invite(c) \/ Accept(c) \/ Refuse(c) \/ Play(c) \/ QuitGame(c)
  PROVE  GameInv'
<1>1. /\ ClientTypes /\ c \in Names /\ oppo[c] \in Names
      /\ stage \in [User -> Stages] /\ asked \in [User -> BOOLEAN] /\ oppo \in [User -> Names]
      /\ hand \in [User -> 0..3] /\ seen \in [User -> Shown]
  BY DEF GameInv, ClientTypes, Names
<1>2. CASE TypeName(c)
  <2>1. /\ stage[c] = "login" /\ Sends(c, Packet("login", c)) /\ To(stage, c, "sent")
        /\ UNCHANGED serverVars /\ UNCHANGED out /\ UNCHANGED <<asked, oppo, hand, seen>>
    BY <1>2 DEF TypeName
  <2>2. Packet("login", c) \in GameRequest /\ Packet("login", c).type = "login"
    BY <1>1, PlainPackets
  <2>3. "sent" \in Stages /\ "sent" \notin Inside
    BY DEF Stages, Inside
  <2>4. QED
    BY <1>1, <2>1, <2>2, <2>3, ClientSends
<1>3. CASE Invite(c)
  <2>1. PICK u \in User \ {c} : Sends(c, Packet("gamerequest", u)) /\ To(oppo, c, u)
    BY <1>3 DEF Invite
  <2>2. stage[c] = "menu" /\ To(stage, c, "waiting") /\ UNCHANGED serverVars /\ UNCHANGED out /\ UNCHANGED <<asked, hand, seen>>
    BY <1>3 DEF Invite
  <2>3. Packet("gamerequest", u) \in GameRequest /\ Packet("gamerequest", u).type = "gamerequest"
    BY PlainPackets DEF Names
  <2>4. "waiting" \in Stages /\ "menu" \in Inside
    BY DEF Stages, Inside
  <2>5. oppo' \in [User -> Names]
    BY <1>1, <2>1 DEF To, Names
  <2>6. QED
    BY <1>1, <2>1, <2>2, <2>3, <2>4, <2>5, ClientSends
<1>4. CASE Accept(c)
  <2>1. /\ stage[c] = "menu" /\ Sends(c, Packet("gameaccept", oppo[c])) /\ To(stage, c, "waiting") /\ To(asked, c, FALSE)
        /\ UNCHANGED serverVars /\ UNCHANGED out /\ UNCHANGED <<oppo, hand, seen>>
    BY <1>4 DEF Accept
  <2>2. Packet("gameaccept", oppo[c]) \in GameRequest /\ Packet("gameaccept", oppo[c]).type = "gameaccept"
    BY <1>1, PlainPackets
  <2>3. "waiting" \in Stages /\ "menu" \in Inside
    BY DEF Stages, Inside
  <2>4. asked' \in [User -> BOOLEAN]
    BY <1>1, <2>1 DEF To
  <2>5. QED
    BY <1>1, <2>1, <2>2, <2>3, <2>4, ClientSends
<1>5. CASE Refuse(c)
  <2>1. /\ stage[c] = "menu" /\ Sends(c, Packet("gamerefuse", oppo[c])) /\ To(asked, c, FALSE)
        /\ UNCHANGED serverVars /\ UNCHANGED out /\ UNCHANGED <<oppo, hand, seen>> /\ UNCHANGED stage
    BY <1>5 DEF Refuse
  <2>2. Packet("gamerefuse", oppo[c]) \in GameRequest /\ Packet("gamerefuse", oppo[c]).type = "gamerefuse"
    BY <1>1, PlainPackets
  <2>3. "menu" \in Stages /\ "menu" \in Inside
    BY DEF Stages, Inside
  <2>4. asked' \in [User -> BOOLEAN] /\ To(stage, c, "menu")
    BY <1>1, <2>1 DEF To
  <2>5. QED
    BY <1>1, <2>1, <2>2, <2>3, <2>4, ClientSends
<1>6. CASE Play(c)
  <2>1. PICK a \in Answer : /\ Sends(c, [Packet("gameanswer", c) EXCEPT !.ans = a, !.game = seen[c][1]])
                            /\ To(hand, c, a)
    BY <1>6 DEF Play
  <2>2. /\ stage[c] = "play" /\ To(stage, c, "answered")
        /\ UNCHANGED serverVars /\ UNCHANGED out /\ UNCHANGED <<asked, oppo, seen>>
    BY <1>6 DEF Play
  <2>3. /\ [Packet("gameanswer", c) EXCEPT !.ans = a, !.game = seen[c][1]] \in GameRequest
        /\ [Packet("gameanswer", c) EXCEPT !.ans = a, !.game = seen[c][1]].type = "gameanswer"
        /\ hand' \in [User -> 0..3]
    <3>1. a \in 0..3 /\ seen[c][1] \in Nat
      BY <1>1, GameAssumption DEF Shown
    <3>2. hand' \in [User -> 0..3]
      BY <1>1, <2>1, <3>1 DEF To
    <3>3. PICK g \in Nat : g = seen[c][1]
      BY <3>1
    <3>4. /\ [Packet("gameanswer", c) EXCEPT !.ans = a, !.game = g] \in GameRequest
          /\ [Packet("gameanswer", c) EXCEPT !.ans = a, !.game = g].type = "gameanswer"
      <4>1. c \in Names /\ a \in 0..3
        BY <1>1, <3>1
      <4>2. QED
        BY <4>1 DEF Packet, GameRequest
    <3>5. QED
      BY <3>2, <3>3, <3>4, Zenon
  <2>4. "answered" \in Stages /\ "play" \in Inside
    BY DEF Stages, Inside
  <2>5. QED
    BY <1>1, <2>1, <2>2, <2>3, <2>4, ClientSends
<1>7. CASE QuitGame(c)
  <2>1. /\ stage[c] = "play" /\ Sends(c, Packet("gamequit", c)) /\ To(stage, c, "menu")
        /\ UNCHANGED serverVars /\ UNCHANGED out /\ UNCHANGED <<asked, oppo, hand, seen>>
    BY <1>7 DEF QuitGame
  <2>2. Packet("gamequit", c) \in GameRequest /\ Packet("gamequit", c).type = "gamequit"
    BY <1>1, PlainPackets
  <2>3. "menu" \in Stages /\ "play" \in Inside
    BY DEF Stages, Inside
  <2>4. QED
    BY <1>1, <2>1, <2>2, <2>3, ClientSends
<1>8. QED
  BY <1>2, <1>3, <1>4, <1>5, <1>6, <1>7

\* A client that starts, or goes on after a game.
LEMMA ClientGoesOn ==
  ASSUME GameInv, NEW c \in User, Connect(c) \/ Continue(c)
  PROVE  GameInv'
<1>1. ClientTypes /\ Session(c) /\ Room(c) /\ out[c] \in Seq(GameReply) /\ MaxOut \in Nat \ {0}
  BY GameAssumption DEF GameInv, Sessions, ClientTypes
<1>2. CASE Connect(c)
  <2>1. /\ stage[c] = "off" /\ inbox[c] = <<>> /\ stage' = [stage EXCEPT ![c] = "login"]
        /\ out' = [out EXCEPT ![c] = <<>>] /\ UNCHANGED <<serverVars, inbox, asked, oppo, hand, seen>>
    BY <1>2 DEF Connect, To
  <2>2. /\ looking' = looking /\ named' = named /\ UNCHANGED serverVars /\ inbox' = inbox /\ asked' = asked /\ oppo' = oppo
        /\ hand' = hand /\ seen' = seen
    BY <2>1 DEF serverVars
  <2>3. <<>> \in Seq(GameReply) /\ Len(<<>>) = 0 /\ DOMAIN <<>> = {}
    OBVIOUS
  <2>4. /\ stage' \in [User -> Stages] /\ stage'[c] = "login" /\ out' \in [User -> Seq(GameReply)] /\ out'[c] = <<>>
        /\ \A d \in User : d # c => stage'[d] = stage[d] /\ out'[d] = out[d]
    BY <1>1, <2>1, <2>3 DEF ClientTypes, Stages
  <2>5. ClientTypes'
    BY <1>1, <2>2, <2>4 DEF ClientTypes
  <2>6. Session(c)'
    BY <1>1, <2>1, <2>2, <2>3, <2>4 DEF Session, Inside
  <2>7. Room(c)'
    <3>1. Owed(c)' \in {0, 1} /\ Expecting(c)' = 0
      BY <2>1, <2>2, <2>4 DEF Owed, Asking, Expecting
    <3>2. 0 + Owed(c)' <= MaxOut + 0
      BY <1>1, <3>1
    <3>3. QED
      BY <2>3, <2>4, <3>1, <3>2 DEF Room
  <2>8. QED
    BY <2>2, <2>4, <2>5, <2>6, <2>7, ClientAlone
<1>3. CASE Continue(c)
  <2>1. /\ stage[c] = "over" /\ stage' = [stage EXCEPT ![c] = "menu"]
        /\ UNCHANGED <<serverVars, inbox, out, asked, oppo, hand, seen>>
    BY <1>3 DEF Continue, To
  <2>2. /\ looking' = looking /\ named' = named /\ UNCHANGED serverVars /\ inbox' = inbox
        /\ out' = out /\ asked' = asked /\ oppo' = oppo /\ hand' = hand /\ seen' = seen
    BY <2>1 DEF serverVars
  <2>3. /\ stage' \in [User -> Stages] /\ stage'[c] = "menu"
        /\ \A d \in User : d # c => stage'[d] = stage[d]
    BY <1>1, <2>1 DEF ClientTypes, Stages
  <2>4. ClientTypes'
    BY <1>1, <2>2, <2>3 DEF ClientTypes
  <2>5. Session(c)'
    <3>1. c \in named
      BY <1>1, <2>1 DEF Session, Inside
    <3>2. ASSUME inbox[c] # <<>> PROVE Legal(c, Head(inbox[c]).type)'
      BY <1>1, <2>1, <2>2, <2>3, <3>1, <3>2 DEF Session, Legal
    <3>3. QED
      BY <1>1, <2>1, <2>2, <2>3, <3>1, <3>2 DEF Session
  <2>6. Room(c)'
    BY <1>1, <2>1, <2>2, <2>3 DEF Room, Owed, Asking, Expecting
  <2>7. QED
    BY <2>2, <2>3, <2>4, <2>5, <2>6, ClientAlone
<1>4. QED
  BY <1>2, <1>3

\* A client that ends.
LEMMA ClientEnds ==
  ASSUME GameInv, NEW c \in User, Exit(c)
  PROVE  GameInv'
<1>1. ClientTypes /\ Session(c) /\ Room(c) /\ out[c] \in Seq(GameReply) /\ MaxOut \in Nat \ {0} /\ c \in Names
  BY GameAssumption DEF GameInv, Sessions, ClientTypes, Names
<1>2. /\ Sends(c, Packet("eof", c)) /\ stage' = [stage EXCEPT ![c] = "off"]
      /\ out' = [out EXCEPT ![c] = <<>>] /\ asked' = [asked EXCEPT ![c] = FALSE] /\ oppo' = [oppo EXCEPT ![c] = NoUser]
      /\ hand' = [hand EXCEPT ![c] = unknown] /\ seen' = [seen EXCEPT ![c] = Nothing] /\ UNCHANGED serverVars
  BY DEF Exit, To
<1>3. Packet("eof", c) \in GameRequest /\ Packet("eof", c).type = "eof"
  BY <1>1, PlainPackets
<1>4. /\ inbox[c] = <<>> /\ inbox' \in [User -> Seq(GameRequest)]
      /\ inbox'[c] # <<>> /\ Len(inbox'[c]) = 1 /\ Head(inbox'[c]).type = "eof"
      /\ \A d \in User : d # c => inbox'[d] = inbox[d]
  BY <1>1, <1>2, <1>3, Posted DEF ClientTypes
<1>5. looking' = looking /\ named' = named
  BY <1>2 DEF serverVars
<1>6. <<>> \in Seq(GameReply) /\ Len(<<>>) = 0 /\ DOMAIN <<>> = {}
  OBVIOUS
<1>7. /\ stage' \in [User -> Stages] /\ stage'[c] = "off" /\ out' \in [User -> Seq(GameReply)] /\ out'[c] = <<>>
      /\ \A d \in User : d # c => stage'[d] = stage[d] /\ out'[d] = out[d]
  BY <1>1, <1>2, <1>6 DEF ClientTypes, Stages
<1>8. asked' \in [User -> BOOLEAN] /\ oppo' \in [User -> Names] /\ hand' \in [User -> 0..3] /\ seen' \in [User -> Shown]
  <2>1. Nothing \in Shown /\ unknown \in 0..3
    BY GameAssumption DEF Nothing, Shown, unknown
  <2>2. QED
    BY <1>1, <1>2, <2>1 DEF ClientTypes, Names
<1>9. ClientTypes'
  BY <1>1, <1>4, <1>5, <1>7, <1>8 DEF ClientTypes
<1>10. Session(c)'
  <2>1. Legal(c, "eof")'
    BY <1>7 DEF Legal
  <2>2. (inbox'[c] # <<>> => Legal(c, Head(inbox[c]).type)')
    BY <1>4, <2>1 DEF Legal
  <2>3. QED
    BY <1>1, <1>4, <1>5, <1>6, <1>7, <2>2 DEF Session, Inside
<1>11. Room(c)'
  <2>1. Owed(c)' \in {0, 1} /\ Expecting(c)' = 0
    BY <1>4, <1>5, <1>7 DEF Owed, Asking, Expecting
  <2>2. 0 + Owed(c)' <= MaxOut + 0
    BY <1>1, <2>1
  <2>3. QED
    BY <1>6, <1>7, <2>1, <2>2 DEF Room
<1>12. QED
  BY <1>2, <1>4, <1>7, <1>9, <1>10, <1>11, ClientAlone

\* A client that takes a packet of the server: it waits for nothing more, or
\* goes on waiting for what it has been promised.
LEMMA ClientReceives ==
  ASSUME GameInv, NEW c \in User, Receives(c), NEW s \in Stages, stage' = [stage EXCEPT ![c] = s],
         asked' \in [User -> BOOLEAN], oppo' \in [User -> Names],
         hand' \in [User -> 0..3], seen' \in [User -> Shown],
         s = "off" <=> stage[c] = "off",
         s \in Inside => stage[c] \in Inside \/ Head(out[c]).type = "loginok"
  PROVE  GameInv'
<1>1. ClientTypes /\ Session(c) /\ Room(c) /\ out[c] \in Seq(GameReply) /\ MaxOut \in Nat \ {0} /\ out[c] # <<>>
  BY GameAssumption DEF GameInv, Sessions, ClientTypes, Receives
<1>2. out' = [out EXCEPT ![c] = Tail(out[c])] /\ inbox' = inbox /\ UNCHANGED serverVars
  BY DEF Receives
<1>3. looking' = looking /\ named' = named
  BY <1>2 DEF serverVars
<1>4. /\ Tail(out[c]) \in Seq(GameReply) /\ Len(Tail(out[c])) = Len(out[c]) - 1 /\ Len(out[c]) \in Nat
      /\ \A i \in DOMAIN Tail(out[c]) : i + 1 \in DOMAIN out[c] /\ Tail(out[c])[i] = out[c][i + 1]
      /\ 1 \in DOMAIN out[c] /\ Head(out[c]) = out[c][1]
  BY <1>1
<1>5. /\ stage' \in [User -> Stages] /\ stage'[c] = s /\ out' \in [User -> Seq(GameReply)] /\ out'[c] = Tail(out[c])
      /\ \A d \in User : d # c => stage'[d] = stage[d] /\ out'[d] = out[d]
  BY <1>1, <1>2, <1>4 DEF ClientTypes
<1>6. ClientTypes'
  BY <1>1, <1>2, <1>3, <1>5 DEF ClientTypes
<1>7. s \in Inside => c \in named
  BY <1>1, <1>4 DEF Session
<1>8. ASSUME inbox[c] # <<>> PROVE Legal(c, Head(inbox[c]).type)'
  BY <1>1, <1>2, <1>3, <1>5, <1>8 DEF Session, Legal
<1>9. \A i \in DOMAIN out'[c] : out'[c][i].type = "loginok" => c \in named' /\ stage'[c] # "off"
  BY <1>1, <1>3, <1>4, <1>5 DEF Session
<1>10. Session(c)'
  BY <1>1, <1>2, <1>3, <1>5, <1>7, <1>8, <1>9 DEF Session
<1>11. Room(c)'
  <2>1. Owed(c)' = Owed(c) /\ Owed(c) \in 0..2 /\ Expecting(c) \in {0, 1} /\ Expecting(c)' \in {0, 1}
    BY <1>2, <1>3 DEF Owed, Asking, Expecting
  <2>2. Len(out[c]) + Owed(c) <= MaxOut + Expecting(c) /\ Len(out'[c]) = Len(out[c]) - 1 /\ Len(out[c]) \in Nat
    BY <1>1, <1>4, <1>5 DEF Room
  <2>3. Len(out'[c]) + Owed(c) <= MaxOut + Expecting(c)'
    BY <1>1, <2>1, <2>2
  <2>4. QED
    BY <2>1, <2>3 DEF Room
<1>12. QED
  BY <1>2, <1>5, <1>6, <1>10, <1>11, ClientAlone

\* What the client does with a packet of the server.
LEMMA PacketTaken ==
  ASSUME GameInv, NEW c \in User, Dropped(c) \/ Accepted(c)
  PROVE  GameInv'
<1>1. /\ ClientTypes /\ out[c] \in Seq(GameReply) /\ stage[c] \in Stages
      /\ stage \in [User -> Stages] /\ asked \in [User -> BOOLEAN] /\ oppo \in [User -> Names] /\ NoUser \in Names
      /\ hand \in [User -> 0..3] /\ seen \in [User -> Shown]
  BY DEF GameInv, ClientTypes, Names
<1>2. CASE Dropped(c)
  <2>1. Receives(c) /\ stage' = [stage EXCEPT ![c] = stage[c]] /\ UNCHANGED <<asked, oppo, hand, seen>>
    BY <1>1, <1>2 DEF Dropped, clientVars
  <2>2. QED
    BY <1>1, <2>1, ClientReceives
<1>3. CASE Accepted(c)
  <2> DEFINE p == Head(out[c])
  <2>1. Receives(c) /\ Expects(c, p.type) /\ out[c] # <<>>
    BY <1>3 DEF Accepted, Receives
  <2>2. p.u \in Names /\ p.game \in Nat /\ p.round \in 0..MaxRound /\ p.ans \in 0..3
    <3>1. p \in GameReply
      BY <1>1, <2>1
    <3>2. QED
      BY <3>1 DEF GameReply
  <2> HIDE DEF p
  <2>3. "off" \notin Inside /\ Inside \subseteq Stages /\ "sent" \in Stages /\ "login" \in Stages /\ "login" \notin Inside
    BY DEF Inside, Stages
  <2>4. CASE LoginReply(c, p)
    <3>1. stage[c] = "sent"
      BY <2>1, <2>4 DEF LoginReply, Expects
    <3>2. PICK s \in {"menu", "login"} : stage' = [stage EXCEPT ![c] = s] /\ (s = "menu" => p.type = "loginok")
      BY <2>4 DEF LoginReply, To
    <3>3. UNCHANGED <<asked, oppo, hand, seen>>
      BY <2>4 DEF LoginReply
    <3>4. s \in Stages /\ s # "off" /\ (s \in Inside => p.type = "loginok")
      BY <3>2 DEF Inside, Stages
    <3>5. QED
      BY <1>1, <2>1, <3>1, <3>2, <3>3, <3>4, ClientReceives DEF p
  <2>5. CASE Invited(c, p)
    <3>1. stage' = [stage EXCEPT ![c] = stage[c]] /\ asked' \in [User -> BOOLEAN] /\ oppo' \in [User -> Names] /\ UNCHANGED <<hand, seen>>
      BY <1>1, <2>2, <2>5 DEF Invited, To
    <3>2. QED
      BY <1>1, <2>1, <3>1, ClientReceives DEF p
  <2>6. CASE BackToMenu(c, p)
    <3>1. stage[c] \in {"waiting", "answered", "play"}
      BY <2>1, <2>6 DEF BackToMenu, Expects
    <3>2. stage' = [stage EXCEPT ![c] = "menu"] /\ oppo' \in [User -> Names] /\ UNCHANGED <<asked, hand, seen>>
      BY <1>1, <2>6 DEF BackToMenu, To
    <3>3. stage[c] \in Inside /\ stage[c] # "off" /\ "menu" \in Stages
      BY <3>1 DEF Inside, Stages
    <3>4. QED
      BY <1>1, <2>1, <3>2, <3>3, ClientReceives
  <2>7. CASE Started(c, p)
    <3>1. stage[c] = "waiting"
      BY <2>1, <2>7 DEF Started, Expects
    <3>2. /\ stage' = [stage EXCEPT ![c] = "play"] /\ UNCHANGED <<asked, oppo, hand>>
          /\ seen' = [seen EXCEPT ![c] = <<p.game, 0, 0, 0>>]
      BY <2>7 DEF Started, To
    <3>5. seen' \in [User -> Shown]
      <4>1. <<p.game, 0, 0, 0>> \in Shown
        BY <2>2, GameAssumption DEF Shown
      <4>2. QED
        BY <1>1, <3>2, <4>1
    <3>3. stage[c] \in Inside /\ "play" \in Stages
      BY <3>1 DEF Inside, Stages
    <3>4. QED
      BY <1>1, <2>1, <3>1, <3>2, <3>3, <3>5, ClientReceives
  <2>8. CASE Answered(c, p)
    <3>1. stage[c] = "answered"
      BY <2>1, <2>8 DEF Answered, Expects
    <3>2. PICK s \in {"over", "play"} : stage' = [stage EXCEPT ![c] = s]
      BY <2>8 DEF Answered, To
    <3>3. UNCHANGED <<asked, oppo, hand>> /\ seen' \in [User -> Shown]
      <4>1. <<p.game, p.round, hand[c], p.ans>> \in Shown
        BY <1>1, <2>2 DEF Shown
      <4>2. seen' = [seen EXCEPT ![c] = <<p.game, p.round, hand[c], p.ans>>]
        BY <2>8 DEF Answered, To
      <4>3. QED
        BY <1>1, <2>8, <4>1, <4>2 DEF Answered
    <3>4. stage[c] \in Inside /\ s \in Stages /\ s # "off"
      BY <3>1, <3>2 DEF Inside, Stages
    <3>5. QED
      BY <1>1, <2>1, <3>1, <3>2, <3>3, <3>4, ClientReceives
  <2>9. QED
    BY <1>3, <2>4, <2>5, <2>6, <2>7, <2>8 DEF Accepted, p
<1>4. QED
  BY <1>2, <1>3

\* Nobody is connected and there is no game.
LEMMA GameInitInv == GameInit /\ ClientInit => GameInv
<1> SUFFICES ASSUME GameInit, ClientInit PROVE GameInv
  OBVIOUS
<1>1. DOMAIN <<>> = {} /\ Len(<<>>) = 0 /\ <<>> \in Seq(GameRequest) /\ <<>> \in Seq(GameReply) /\ 0 \in 0..MaxGames
  BY GameAssumption
<1>2. ulist = <<>> /\ glist = <<>> /\ named = {} /\ games = 0 /\ down = FALSE /\ intruded = FALSE /\ late = FALSE
  BY DEF GameInit
<1>3. DOMAIN ulist = {} /\ DOMAIN glist = {}
  BY <1>1, <1>2
<1>4. UsersTyped(ulist) /\ Numbered(glist, games)
  <2>1. <<>> = [x \in {} |-> <<>>[x]]
    OBVIOUS
  <2>2. ulist = [x \in DOMAIN ulist |-> ulist[x]] /\ glist = [x \in DOMAIN glist |-> glist[x]]
    BY <1>1, <1>2, <2>1
  <2>3. QED
    BY <1>3, <2>2 DEF UsersTyped, Numbered
<1>5. TableTypes
  BY <1>1, <1>2, <1>4 DEF TableTypes
<1>6. ClientTypes
  <2>1. Nothing \in Shown /\ unknown \in 0..3
    BY GameAssumption DEF Nothing, Shown, unknown
  <2>2. QED
    BY <1>1, <2>1 DEF ClientTypes, GameInit, ClientInit, Stages, Names
<1>7. \A c \in User : Session(c) /\ Room(c)
  <2> SUFFICES ASSUME NEW c \in User PROVE Session(c) /\ Room(c)
    OBVIOUS
  <2>1. stage[c] = "off" /\ looking[c] = NoLook /\ inbox[c] = <<>> /\ out[c] = <<>>
    BY DEF GameInit, ClientInit
  <2>2. Session(c)
    BY <1>1, <2>1 DEF Session, Inside
  <2>3. Owed(c) = 0 /\ Expecting(c) = 0
    BY <2>1 DEF Owed, Asking, Expecting
  <2>4. Room(c)
    BY <1>1, <2>1, <2>3, GameAssumption DEF Room
  <2>5. QED
    BY <2>2, <2>4
<1>8. TablesAgree
  BY <1>2, <1>3 DEF TablesAgree, Linked
<1>9. QED
  BY <1>5, <1>6, <1>7, <1>8 DEF GameInv, Sessions

\* A step of the server's thread of n.
LEMMA ServerThreadInv ==
  ASSUME GameInv, NEW n \in User, ServerThread(n), UNCHANGED clientVars
  PROVE  GameInv'
BY HandleLoginInv, HandleInviteInv, HandleAcceptInv, HandleMarkInv, HandleExitInv, ReadGidInv, LookInv DEF ServerThread

\* A step of the client c.
LEMMA ClientInv ==
  ASSUME GameInv, NEW c \in User, Client(c)
  PROVE  GameInv'
BY PersonSends, ClientGoesOn, ClientEnds, PacketTaken DEF Client

\* A step in which nothing of the game changes.
LEMMA GameStutters == GameInv /\ UNCHANGED gameVars => GameInv'
<1> SUFFICES ASSUME GameInv, UNCHANGED gameVars PROVE GameInv'
  OBVIOUS
<1>1. UNCHANGED <<ulist, glist, named, looking, down, intruded, late, games, inbox, out>> /\ UNCHANGED clientVars
  BY DEF gameVars, serverVars
<1>2. UNCHANGED <<exits, stage, asked, oppo, hand, wins, seen>>
  BY <1>1 DEF clientVars
<1>3. TableTypes' /\ (~intruded' => TablesAgree')
  BY <1>1 DEF TableTypes, TablesAgree, GameInv
<1>4. ClientTypes'
  BY <1>1, <1>2 DEF ClientTypes, GameInv
<1>5. \A c \in User : Session(c)' /\ Room(c)'
  BY <1>1, <1>2, Undisturbed DEF GameInv, Sessions
<1>6. QED
  BY <1>3, <1>4, <1>5 DEF GameInv, Sessions

\* The inductive invariant of the game of Exp3 (server_handle and client_handle),
\* for any users, hands and number of games and rounds: the types, what a client
\* and its thread know of each other, and, until a thread has used a number or a
\* name that was out of date, that ulist and glist agree.
THEOREM GameInvariance == GameSpec => []GameInv
<1>1. GameInit /\ ClientInit => GameInv
  BY GameInitInv
<1>2. GameInv /\ [GameNext]_gameVars => GameInv'
  <2> SUFFICES ASSUME GameInv, [GameNext]_gameVars PROVE GameInv'
    OBVIOUS
  <2>1. CASE UNCHANGED gameVars
    BY <2>1, GameStutters
  <2>2. ASSUME NEW u \in User, ServerThread(u) /\ UNCHANGED clientVars PROVE GameInv'
    BY <2>2, ServerThreadInv
  <2>3. ASSUME NEW u \in User, Client(u) PROVE GameInv'
    BY <2>3, ClientInv
  <2>4. QED
    BY <2>1, <2>2, <2>3 DEF GameNext
<1>3. QED
  BY <1>1, <1>2, PTL DEF GameSpec

\* Two elements.
LEMMA PairCounted == ASSUME NEW a, NEW b, a # b PROVE IsFiniteSet({a, b}) /\ Cardinality({a, b}) = 2
<1>1. IsFiniteSet({a}) /\ Cardinality({a}) = 1
  BY FS_Singleton
<1>2. {a} \cup {b} = {a, b} /\ b \notin {a}
  OBVIOUS
<1>3. QED
  BY <1>1, <1>2, FS_AddElement

\* Until a thread has changed a game its user does not play in, the server does
\* not run into undefined behaviour, every game has two players, and the game
\* number of a user (state::gid in ulist) names a game in glist that it plays in.
THEOREM PointersHold == GameSpec => []PointersValid
<1>1. GameInv => PointersValid
  <2> SUFFICES ASSUME GameInv, ~intruded PROVE /\ ~down
                                               /\ \A g \in DOMAIN glist : Cardinality(glist[g].pl) = 2
                                               /\ \A u \in DOMAIN ulist : ulist[u].gid # -1 =>
                                                    ulist[u].gid \in DOMAIN glist /\ u \in glist[ulist[u].gid].pl
    BY DEF PointersValid
  <2>1. ~down /\ Linked(ulist, glist)
    BY DEF GameInv, TablesAgree
  <2>2. ASSUME NEW g \in DOMAIN glist PROVE Cardinality(glist[g].pl) = 2
    <3>1. PICK a, b \in glist[g].pl : a # b /\ glist[g].pl = {a, b}
      BY <2>1 DEF Linked, Pair
    <3>2. Cardinality({a, b}) = 2
      BY <3>1, PairCounted
    <3>3. QED
      BY <3>1, <3>2, Zenon
  <2>3. QED
    BY <2>1, <2>2 DEF Linked, Points
<1>2. QED
  BY <1>1, GameInvariance, PTL

\* The types of the game, with the room for packets on the way to a client.
THEOREM GameTyped == GameSpec => []GameTypeOK
<1>1. GameInv => GameTypeOK
  <2> SUFFICES ASSUME GameInv PROVE GameTypeOK
    OBVIOUS
  <2>1. TableTypes /\ ClientTypes /\ Sessions
    BY DEF GameInv
  <2>2. ulist \in [DOMAIN ulist -> state] /\ DOMAIN ulist \in SUBSET Names
    BY <2>1 DEF TableTypes, UsersTyped
  <2>3. \E known \in SUBSET Names : ulist \in [known -> state]
    BY <2>2
  <2>4. games \in 0..MaxGames /\ \A g \in DOMAIN glist : g \in Nat /\ g < games /\ Whole(glist[g])
    BY <2>1 DEF TableTypes, Numbered
  <2>5. DOMAIN glist \subseteq 0..MaxGames
    BY <2>4, GameAssumption
  <2>6. IsFiniteSet(Names)
    BY GameAssumption, FS_AddElement DEF Names
  <2>7. ASSUME NEW g \in DOMAIN glist
        PROVE  /\ glist[g].pl \subseteq Names /\ Cardinality(glist[g].pl) >= 2
               /\ glist[g].rdy \cup glist[g].refuse \cup glist[g].quit \subseteq glist[g].pl
               /\ glist[g].round \in 0..MaxRound
    <3>1. /\ glist[g].pl \in SUBSET Names /\ glist[g].round \in 0..MaxRound
          /\ glist[g].rdy \cup glist[g].refuse \cup glist[g].quit \subseteq glist[g].pl
      BY <2>4 DEF Whole, Game
    <3>2. PICK a \in glist[g].pl : \E b \in glist[g].pl : a # b
      BY <2>4 DEF Whole
    <3>3. PICK b \in glist[g].pl : a # b
      BY <3>2
    <3>4. IsFiniteSet(glist[g].pl) /\ {a, b} \subseteq glist[g].pl
      BY <2>6, <3>1, <3>2, <3>3, FS_Subset
    <3>5. Cardinality({a, b}) <= Cardinality(glist[g].pl) /\ Cardinality({a, b}) = 2
      BY <3>3, <3>4, FS_Subset, PairCounted
    <3>6. Cardinality(glist[g].pl) \in Nat
      BY <3>4, FS_CardinalityType
    <3>7. QED
      BY <3>1, <3>5, <3>6
  <2>8. \A u \in User : Len(inbox[u]) <= 1 /\ Len(out[u]) <= MaxOut + 1
    <3> SUFFICES ASSUME NEW u \in User PROVE Len(inbox[u]) <= 1 /\ Len(out[u]) <= MaxOut + 1
      OBVIOUS
    <3>1. Len(inbox[u]) <= 1 /\ Len(out[u]) + Owed(u) <= MaxOut + Expecting(u) /\ out[u] \in Seq(GameReply)
      BY <2>1 DEF Sessions, Session, Room, ClientTypes
    <3>2. Owed(u) \in 0..2 /\ Expecting(u) \in {0, 1} /\ Len(out[u]) \in Nat /\ MaxOut \in Nat
      BY <3>1, GameAssumption DEF Owed, Expecting
    <3>3. QED
      BY <3>1, <3>2
  <2>9. QED
    BY <2>1, <2>3, <2>4, <2>5, <2>7, <2>8 DEF GameTypeOK, TableTypes, ClientTypes
<1>2. QED
  BY <1>1, GameInvariance, PTL
-----------------------------------------------------------------------------
(* The rounds of the game of Exp3.  A hand is in one place at a time: with *)
(* the server's thread (Handed), in the game (Counted), or compared and    *)
(* still to be told (Decided); then its result is on its way back (Due).   *)
Live(c) == c \in named /\ ulist[c].gid \in DOMAIN glist
Mine(c) == glist[ulist[c].gid]
Holds(c, type) == inbox[c] # <<>> /\ Head(inbox[c]).type = type
Handed(c) == Holds(c, "gameanswer")
Counted(c) == Live(c) /\ Mine(c).hand[c] # unknown
Decided(c) == Live(c) /\ Mine(c).read[c] = 1
Due(c) == {i \in DOMAIN out[c] : out[c][i].type = "gameanswer"}

\* Wherever the hand of c is, c has answered in that game, and the server has
\* the hand that c remembers.  A hand that no longer matters is one of a game c
\* has left.
HandIs(c) ==
  /\ Handed(c) =>
       \/ stage[c] = "answered" /\ Head(inbox[c]).ans = hand[c] /\ Head(inbox[c]).game = seen[c][1]
       \/ stage[c] = "menu" /\ (Live(c) => Mine(c).id # Head(inbox[c]).game)
  /\ Counted(c) => stage[c] = "answered" /\ seen[c][1] = Mine(c).id /\ Mine(c).hand[c] = hand[c]
  /\ Decided(c) => stage[c] = "answered" /\ seen[c][1] = Mine(c).id /\ Mine(c).shown[c] = hand[c]
  /\ \A i \in Due(c) :
       /\ stage[c] = "answered" /\ out[c][i].game = seen[c][1] /\ out[c][i].round > 0
       /\ \A j \in DOMAIN out[c] : j < i => out[c][j].type # "gamequit"

\* It is in one of the four places only.
Once(c) ==
  /\ Handed(c) => ~Counted(c) /\ ~Decided(c) /\ Due(c) = {}
  /\ Counted(c) => ~Decided(c) /\ Due(c) = {}
  /\ Decided(c) => Due(c) = {}
  /\ \A i, j \in Due(c) : i = j

\* The end of a game is told before anything of the next game: a client never
\* takes the gamequit of an old game while it plays the one it is in.
QuitIs(c) ==
  \A i \in DOMAIN out[c] : out[c][i].type = "gamequit" /\ Live(c) =>
     /\ seen[c][1] # Mine(c).id
     /\ \A j \in DOMAIN out[c] : j < i /\ out[c][j].type = "gamestart" => out[c][j].game # Mine(c).id

\* An acceptance comes from a client that has not played in its game yet.
AcceptIs(c) ==
  Holds(c, "gameaccept") =>
    /\ stage[c] \in {"waiting", "menu"} \/ (stage[c] = "play" /\ seen[c][2] = 0)
    /\ Head(inbox[c]).u # c
Side(c) == (stage[c] # "off" => HandIs(c) /\ Once(c)) /\ QuitIs(c) /\ AcceptIs(c)

\* The game numbers of the history are those of games that were created.
Tags(c) ==
  /\ seen[c][1] <= games
  /\ \A i \in DOMAIN out[c] : out[c][i].game <= games
  /\ inbox[c] # <<>> => Head(inbox[c]).game <= games

\* Nobody is asked to play against itself.
OppoIs(c) ==
  /\ oppo[c] # c
  /\ \A i \in DOMAIN out[c] : out[c][i].type = "gamerequest" => out[c][i].u # c

\* A client that ended leaves its thread nothing but the end of the connection.
OffIs(c) ==
  stage[c] = "off" => /\ inbox[c] # <<>> => Head(inbox[c]).type = "eof"
                      /\ c \in named => inbox[c] # <<>>

\* Nothing was shown of a game of which no round was shown.
BlankIs(c) == seen[c][2] = 0 => seen[c][3] = 0 /\ seen[c][4] = 0
Plain(c) == Tags(c) /\ OppoIs(c) /\ OffIs(c) /\ BlankIs(c)

\* The results c was shown, and those it is about to be shown: game, round, own
\* hand, opponent's hand.
Results(c) ==
  (IF Playing(c) /\ seen[c][2] > 0 THEN {seen[c]} ELSE {}) \cup
  (IF stage[c] = "answered"
   THEN {<<out[c][i].game, out[c][i].round, hand[c], out[c][i].ans>> : i \in Due(c)} ELSE {})

\* A result of a game is of a round that is over, or of the round at hand and
\* then the one both hands of which the server keeps.
Fits(c, x, game) ==
  /\ c \in game.pl /\ x[2] <= game.round
  /\ x[2] = game.round => /\ game.read[c] = 2 /\ x[3] = game.shown[c]
                          /\ \A d \in game.pl \ {c} : x[4] = game.shown[d]
ResultIs(c) ==
  \A x \in Results(c) : \A g \in DOMAIN glist : glist[g].id = x[1] => Fits(c, x, glist[g])

\* Two results of the same round, of two players, have the same two hands.
Mirrored ==
  \A c, d \in User : c # d => \A x \in Results(c), y \in Results(d) :
    x[1] = y[1] /\ x[2] = y[2] => x[3] = y[4] /\ x[4] = y[3]

\* A player that is still marked as ready is not told before the mark is taken
\* away; if it was shown a result all the same, the opponent's is still to be told.
ReadyIs(g) ==
  \A c \in g.rdy :
    /\ g.read[c] # 1
    /\ c \in User /\ (\E x \in Results(c) : x[1] = g.id) =>
         \A d \in g.pl \ {c} : g.read[d] = 1 /\ d \notin g.rdy

\* The hands are compared for both players, and the second told begins a new round.
ReadIs(g) ==
  \A c, d \in g.pl : (g.read[c] = 0 => g.read[d] = 0) /\ (c # d => ~(g.read[c] = 2 /\ g.read[d] = 2))

\* A game has a number of its own.
Ids ==
  /\ \A g \in DOMAIN glist : glist[g].id \in 1..games
  /\ \A g, h \in DOMAIN glist : glist[g].id = glist[h].id => g = h
OfGames ==
  /\ Ids /\ Mirrored
  /\ \A c \in User : ResultIs(c)
  /\ \A g \in DOMAIN glist : ReadyIs(glist[g]) /\ ReadIs(glist[g])

\* What is so of the games, and of each client.
Rounds == OfGames /\ \A c \in User : Plain(c) /\ Side(c)

\* As in RoundsAgree, as long as nobody used what was out of date.
RoundsInv == ~intruded /\ ~late => Rounds
-----------------------------------------------------------------------------
\* What the game of Exp3 knows of one client.
LEMMA ClientFacts ==
  ASSUME GameInv, NEW c \in User
  PROVE  /\ c \in Names /\ Session(c)
         /\ inbox[c] \in Seq(GameRequest) /\ Len(inbox[c]) <= 1
         /\ inbox[c] # <<>> => Head(inbox[c]) \in GameRequest
         /\ out[c] \in Seq(GameReply)
         /\ \A i \in DOMAIN out[c] : i \in Nat /\ out[c][i] \in GameReply
         /\ stage[c] \in Stages /\ hand[c] \in 0..3 /\ oppo[c] \in Names
         /\ seen[c] \in Shown /\ seen[c][1] \in Nat /\ seen[c][2] \in Nat
<1>1. ClientTypes /\ Session(c)
  BY DEF GameInv, Sessions
<1>2. inbox[c] \in Seq(GameRequest) /\ out[c] \in Seq(GameReply) /\ seen[c] \in Shown /\ MaxRound \in Nat
  BY <1>1, GameAssumption DEF ClientTypes
<1>3. seen[c][1] \in Nat /\ seen[c][2] \in Nat
  BY <1>2 DEF Shown
<1>4. inbox[c] # <<>> => Head(inbox[c]) \in GameRequest
  BY <1>2
<1>5. \A i \in DOMAIN out[c] : i \in Nat /\ out[c][i] \in GameReply
  BY <1>2
<1>6. QED
  BY <1>1, <1>2, <1>3, <1>4, <1>5 DEF ClientTypes, Session, Names

\* The packets on the way to a client, and one more.
LEMMA Grown ==
  ASSUME NEW S, NEW q \in Seq(S), NEW p \in S
  PROVE  /\ DOMAIN q \subseteq DOMAIN Append(q, p)
         /\ Len(q) + 1 \in DOMAIN Append(q, p) /\ Append(q, p)[Len(q) + 1] = p
         /\ \A i \in DOMAIN q : i \in Nat /\ i < Len(q) + 1 /\ Append(q, p)[i] = q[i]
         /\ \A i \in DOMAIN Append(q, p) : i \in DOMAIN q \/ i = Len(q) + 1
OBVIOUS

\* The server's thread may send a packet that is about no round.
Quiet(c) ==
  \/ out'[c] = out[c]
  \/ \E p \in GameReply : p.type \notin {"gameanswer", "gamequit"} /\ out'[c] = Append(out[c], p)

\* The client itself does nothing; what its thread takes is not a hand.
Waits(c) ==
  /\ stage'[c] = stage[c] /\ seen'[c] = seen[c] /\ hand'[c] = hand[c] /\ oppo'[c] = oppo[c]
  /\ inbox'[c] = inbox[c] \/ (inbox'[c] = <<>> /\ ~Handed(c))

\* The game of c goes on, at most with its hand compared, or is a new one.
Kin(c) ==
  Live(c)' =>
    \/ Mine(c)'.id > games /\ Mine(c)'.hand[c] = unknown /\ Mine(c)'.read[c] = 0
    \/ /\ Live(c) /\ Mine(c)'.id = Mine(c).id
       /\ Mine(c)'.hand[c] # unknown => Mine(c)'.hand[c] = Mine(c).hand[c]
       /\ Mine(c)'.read[c] = 1 =>
            \/ Mine(c).read[c] = 1 /\ Mine(c)'.shown[c] = Mine(c).shown[c]
            \/ Counted(c) /\ ~Counted(c)' /\ Mine(c)'.shown[c] = Mine(c).hand[c]

\* A queue that got no hand and no end of a game has the results it had.
LEMMA QuietQueue ==
  ASSUME NEW c \in User, out[c] \in Seq(GameReply), Quiet(c)
  PROVE  /\ DOMAIN out[c] \subseteq DOMAIN out'[c] /\ Due(c)' = Due(c)
         /\ \A i \in DOMAIN out'[c] :
              \/ i \in DOMAIN out[c] /\ out'[c][i] = out[c][i]
              \/ /\ out'[c][i].type \notin {"gameanswer", "gamequit"}
                 /\ i \in Nat /\ \A j \in DOMAIN out[c] : j \in Nat /\ j < i
<1>1. /\ DOMAIN out[c] \subseteq DOMAIN out'[c]
      /\ \A i \in DOMAIN out[c] : out'[c][i] = out[c][i]
      /\ \A i \in DOMAIN out'[c] :
              \/ i \in DOMAIN out[c]
              \/ /\ out'[c][i].type \notin {"gameanswer", "gamequit"}
                 /\ i \in Nat /\ \A j \in DOMAIN out[c] : j \in Nat /\ j < i
  <2>1. CASE out'[c] = out[c]
    BY <2>1
  <2>2. CASE \E p \in GameReply : p.type \notin {"gameanswer", "gamequit"} /\ out'[c] = Append(out[c], p)
    <3>1. PICK p \in GameReply : p.type \notin {"gameanswer", "gamequit"} /\ out'[c] = Append(out[c], p)
      BY <2>2
    <3>2. Len(out[c]) + 1 \in Nat
      OBVIOUS
    <3>3. QED
      BY <3>1, <3>2, Grown
  <2>3. QED
    BY <2>1, <2>2 DEF Quiet
<1>2. Due(c)' = Due(c)
  BY <1>1 DEF Due
<1>3. QED
  BY <1>1, <1>2

\* A client that waits keeps what is known of its hand.
LEMMA SideKept ==
  ASSUME GameInv, NEW c \in User, Tags(c), Side(c), Waits(c), Kin(c), Quiet(c)
  PROVE  Side(c)'
<1>1. /\ inbox[c] \in Seq(GameRequest) /\ out[c] \in Seq(GameReply)
      /\ inbox[c] # <<>> => Head(inbox[c]) \in GameRequest
      /\ \A i \in DOMAIN out[c] : i \in Nat /\ out[c][i] \in GameReply
      /\ seen[c][1] \in Nat
  BY ClientFacts
<1>2. /\ DOMAIN out[c] \subseteq DOMAIN out'[c] /\ Due(c)' = Due(c)
      /\ \A i \in DOMAIN out'[c] :
           \/ i \in DOMAIN out[c] /\ out'[c][i] = out[c][i]
           \/ /\ out'[c][i].type \notin {"gameanswer", "gamequit"}
              /\ i \in Nat /\ \A j \in DOMAIN out[c] : j \in Nat /\ j < i
  BY <1>1, QuietQueue
<1>3. \A i \in Due(c) : i \in DOMAIN out[c] /\ i \in DOMAIN out'[c] /\ out'[c][i] = out[c][i]
  BY <1>2 DEF Due
<1>4. /\ stage'[c] = stage[c] /\ seen'[c] = seen[c] /\ hand'[c] = hand[c]
      /\ \A type : Holds(c, type)' => Holds(c, type) /\ inbox'[c] = inbox[c]
      /\ Handed(c)' => Handed(c) /\ inbox'[c] = inbox[c]
  BY DEF Waits, Holds, Handed
<1>5. games \in Nat /\ (inbox[c] # <<>> => Head(inbox[c]).game \in Nat) /\ \A i \in DOMAIN out[c] : out[c][i].game \in Nat
  BY <1>1 DEF GameInv, TableTypes, GameRequest, GameReply
<1>6. /\ Live(c)' => Mine(c)'.id > games \/ (Live(c) /\ Mine(c)'.id = Mine(c).id)
      /\ Counted(c)' => Counted(c) /\ Mine(c)'.id = Mine(c).id /\ Mine(c)'.hand[c] = Mine(c).hand[c]
      /\ Decided(c)' => /\ Mine(c)'.id = Mine(c).id
                        /\ \/ Decided(c) /\ Mine(c)'.shown[c] = Mine(c).shown[c]
                           \/ Counted(c) /\ ~Counted(c)' /\ Mine(c)'.shown[c] = Mine(c).hand[c]
  BY DEF Kin, Counted, Decided
<1>7. ASSUME stage[c] # "off", HandIs(c), Once(c) PROVE HandIs(c)'
  <2> DEFINE mine == stage[c] = "answered" /\ Head(inbox[c]).ans = hand[c] /\ Head(inbox[c]).game = seen[c][1]
             gone == stage[c] = "menu" /\ (Live(c) => Mine(c).id # Head(inbox[c]).game)
  <2>1. Handed(c)' => mine' \/ gone'
    <3> SUFFICES ASSUME Handed(c)' PROVE mine' \/ gone'
      OBVIOUS
    <3>1. Handed(c) /\ inbox'[c] = inbox[c] /\ inbox[c] # <<>>
      BY <1>4 DEF Handed, Holds
    <3>2. Head(inbox[c]).game <= games /\ Head(inbox[c]).game \in Nat
      BY <1>5, <3>1 DEF Tags
    <3>3. CASE mine
      BY <1>4, <3>1, <3>3
    <3>4. CASE gone
      <4>1. Live(c)' => Mine(c)'.id # Head(inbox[c]).game
        <5>1. Mine(c)'.id > games => Mine(c)'.id # Head(inbox[c]).game
          BY <1>5, <3>2
        <5>2. QED
          BY <1>6, <3>4, <5>1
      <4>2. QED
        BY <1>4, <3>1, <3>4, <4>1
    <3>5. QED
      BY <1>7, <3>1, <3>3, <3>4 DEF HandIs
  <2>2. Counted(c)' => stage'[c] = "answered" /\ seen'[c][1] = Mine(c)'.id /\ Mine(c)'.hand[c] = hand'[c]
    BY <1>4, <1>6, <1>7 DEF HandIs
  <2>3. Decided(c)' => stage'[c] = "answered" /\ seen'[c][1] = Mine(c)'.id /\ Mine(c)'.shown[c] = hand'[c]
    BY <1>4, <1>6, <1>7 DEF HandIs, Decided, Counted
  <2>4. \A i \in Due(c)' : /\ stage'[c] = "answered" /\ out'[c][i].game = seen'[c][1] /\ out'[c][i].round > 0
                           /\ \A j \in DOMAIN out'[c] : j < i => out'[c][j].type # "gamequit"
    BY <1>2, <1>3, <1>4, <1>7 DEF HandIs
  <2>5. QED
    BY <2>1, <2>2, <2>3, <2>4 DEF HandIs
<1>8. ASSUME Once(c) PROVE Once(c)'
  BY <1>2, <1>4, <1>6, <1>8 DEF Once
<1>9. QuitIs(c)'
  <2> SUFFICES ASSUME NEW i \in DOMAIN out'[c], out'[c][i].type = "gamequit", Live(c)'
               PROVE  /\ seen'[c][1] # Mine(c)'.id
                      /\ \A j \in DOMAIN out'[c] : j < i /\ out'[c][j].type = "gamestart" => out'[c][j].game # Mine(c)'.id
    BY DEF QuitIs
  <2>1. i \in DOMAIN out[c] /\ out[c][i].type = "gamequit"
    BY <1>2
  <2>2. \A j \in DOMAIN out'[c] : j < i => j \in DOMAIN out[c] /\ out'[c][j] = out[c][j]
    BY <1>1, <1>2, <2>1
  <2>3. CASE Mine(c)'.id > games
    BY <1>1, <1>4, <1>5, <2>2, <2>3 DEF Tags
  <2>4. CASE Live(c) /\ Mine(c)'.id = Mine(c).id
    BY <1>4, <2>1, <2>2, <2>4 DEF Side, QuitIs
  <2>5. QED
    BY <1>6, <2>3, <2>4
<1>10. AcceptIs(c)'
  <2>1. Holds(c, "gameaccept")' => Holds(c, "gameaccept") /\ inbox'[c] = inbox[c]
    BY <1>4
  <2>2. QED
    BY <1>4, <2>1 DEF Side, AcceptIs
<1>11. QED
  BY <1>4, <1>7, <1>8, <1>9, <1>10 DEF Side

\* A client that waits has been told, and will be told, what it had.
LEMMA ResultsQuiet ==
  ASSUME GameInv, NEW c \in User, Quiet(c), stage'[c] = stage[c], seen'[c] = seen[c], hand'[c] = hand[c]
  PROVE  Results(c)' = Results(c)
<1>1. out[c] \in Seq(GameReply)
  BY ClientFacts
<1>2. Due(c)' = Due(c) /\ \A i \in Due(c) : out'[c][i] = out[c][i]
  BY <1>1, QuietQueue DEF Due
<1>3. Playing(c)' = Playing(c)
  BY DEF Playing
<1>4. {<<out'[c][i].game, out'[c][i].round, hand'[c], out'[c][i].ans>> : i \in Due(c)'}
        = {<<out[c][i].game, out[c][i].round, hand[c], out[c][i].ans>> : i \in Due(c)}
  BY <1>2
<1>5. QED
  BY <1>3, <1>4 DEF Results

\* The games go on as they are, or are removed.
Alike(old, new) ==
  /\ new.id = old.id /\ new.pl = old.pl /\ new.read = old.read /\ new.shown = old.shown
  /\ new.round = old.round /\ new.rdy \subseteq old.rdy
GoOn == \A g \in DOMAIN glist' : g \in DOMAIN glist /\ Alike(glist[g], glist'[g])

\* Games that go on, with no new result, still agree.
LEMMA GamesKept ==
  ASSUME OfGames, GoOn, games' = games, \A c \in User : Results(c)' \subseteq Results(c)
  PROVE  OfGames'
<1>1. Ids'
  BY DEF OfGames, Ids, GoOn, Alike
<1>2. Mirrored'
  BY DEF OfGames, Mirrored
<1>3. ASSUME NEW c \in User PROVE ResultIs(c)'
  <2> SUFFICES ASSUME NEW x \in Results(c), NEW g \in DOMAIN glist', glist'[g].id = x[1]
               PROVE  Fits(c, x, glist'[g])
    BY DEF ResultIs
  <2>1. g \in DOMAIN glist /\ Alike(glist[g], glist'[g])
    BY DEF GoOn
  <2>2. ResultIs(c) /\ glist[g].id = x[1]
    BY <2>1 DEF OfGames, Alike
  <2>3. Fits(c, x, glist[g])
    BY <2>1, <2>2 DEF ResultIs
  <2>4. QED
    BY <2>1, <2>3 DEF Alike, Fits
<1>4. ASSUME NEW g \in DOMAIN glist' PROVE ReadyIs(glist[g])' /\ ReadIs(glist[g])'
  <2>1. g \in DOMAIN glist /\ Alike(glist[g], glist'[g]) /\ ReadyIs(glist[g]) /\ ReadIs(glist[g])
    BY <1>4 DEF GoOn, OfGames
  <2>2. ReadIs(glist[g])'
    BY <2>1 DEF ReadIs, Alike
  <2>3. ReadyIs(glist[g])'
    BY <2>1 DEF ReadyIs, Alike
  <2>4. QED
    BY <2>2, <2>3
<1>5. QED
  BY <1>1, <1>2, <1>3, <1>4 DEF OfGames

\* What a thread tells its client is about a game there has been, and asks it
\* about another user.
Says(c) ==
  \/ out'[c] = out[c]
  \/ \E p \in GameReply : /\ p.game <= games /\ (p.type = "gamerequest" => p.u # c)
                          /\ out'[c] = Append(out[c], p)
Attended(c) == c \in named' => stage[c] # "off" \/ (c \in named /\ inbox'[c] = inbox[c])

\* A client that is sent something, or nothing, by its thread.
LEMMA PlainKept ==
  ASSUME GameInv, NEW c \in User, Plain(c), games' \in Nat, games <= games', Attended(c), Says(c),
         stage'[c] = stage[c], seen'[c] = seen[c], oppo'[c] = oppo[c],
         inbox'[c] \in {inbox[c], <<>>}
  PROVE  Plain(c)'
<1>1. /\ inbox[c] \in Seq(GameRequest) /\ out[c] \in Seq(GameReply)
      /\ inbox[c] # <<>> => Head(inbox[c]) \in GameRequest
      /\ \A i \in DOMAIN out[c] : i \in Nat /\ out[c][i] \in GameReply
      /\ seen[c][1] \in Nat /\ games \in Nat
  BY ClientFacts DEF GameInv, TableTypes
<1>2. \A i \in DOMAIN out'[c] :
        \/ i \in DOMAIN out[c] /\ out'[c][i] = out[c][i]
        \/ out'[c][i] \in GameReply /\ out'[c][i].game <= games /\ (out'[c][i].type = "gamerequest" => out'[c][i].u # c)
  <2>1. CASE out'[c] = out[c]
    BY <2>1
  <2>2. CASE \E p \in GameReply : /\ p.game <= games /\ (p.type = "gamerequest" => p.u # c)
                                  /\ out'[c] = Append(out[c], p)
    BY <1>1, <2>2, Grown
  <2>3. QED
    BY <2>1, <2>2 DEF Says
<1>3. Tags(c)'
  <2>1. Tags(c)
    BY DEF Plain
  <2>2. \A p \in GameReply : p.game \in Nat
    BY DEF GameReply
  <2>3. \A p \in GameRequest : p.game \in Nat
    BY DEF GameRequest
  <2>4. seen'[c][1] <= games'
    BY <1>1, <2>1 DEF Tags
  <2>5. \A i \in DOMAIN out'[c] : out'[c][i].game <= games'
    BY <1>1, <1>2, <2>1, <2>2 DEF Tags
  <2>6. inbox'[c] # <<>> => Head(inbox'[c]).game <= games'
    BY <1>1, <2>1, <2>3 DEF Tags
  <2>7. QED
    BY <2>4, <2>5, <2>6 DEF Tags
<1>4. OppoIs(c)'
  BY <1>2 DEF Plain, OppoIs
<1>5. OffIs(c)'
  BY DEF Plain, OffIs, Attended
<1>6. BlankIs(c)'
  BY DEF Plain, BlankIs
<1>7. QED
  BY <1>3, <1>4, <1>5, <1>6 DEF Plain

\* What is left to show of a step of a thread: its games, and the hand of its user.
LEMMA ThreadSteps ==
  ASSUME GameInv, Rounds, UNCHANGED clientVars, games' \in Nat, games <= games', OfGames',
         \A c \in User : /\ Says(c) /\ Attended(c) /\ inbox'[c] \in {inbox[c], <<>>}
                         /\ Side(c)' \/ (Waits(c) /\ Kin(c) /\ Quiet(c))
  PROVE  Rounds'
<1>1. ASSUME NEW c \in User PROVE Plain(c)' /\ Side(c)'
  <2>1. Plain(c) /\ Side(c) /\ Tags(c)
    BY DEF Rounds, Plain
  <2>2. Side(c)'
    BY <2>1, SideKept
  <2>3. stage'[c] = stage[c] /\ seen'[c] = seen[c] /\ oppo'[c] = oppo[c]
    BY DEF clientVars
  <2>4. Plain(c)'
    BY <2>1, <2>3, PlainKept
  <2>5. QED
    BY <2>2, <2>4
<1>2. QED
  BY <1>1 DEF Rounds

\* A step of a thread that compares no hands and begins no game and no round.
LEMMA ThreadKeeps ==
  ASSUME GameInv, Rounds, UNCHANGED clientVars, games' = games, GoOn,
         \A c \in User : Waits(c) /\ Kin(c) /\ Quiet(c) /\ Says(c) /\ Attended(c)
  PROVE  Rounds'
<1>1. \A c \in User : Results(c)' = Results(c)
  BY ResultsQuiet DEF Waits
<1>2. OfGames'
  BY <1>1, GamesKept DEF Rounds
<1>3. games' \in Nat /\ games <= games'
  BY DEF GameInv, TableTypes
<1>4. \A c \in User : inbox'[c] \in {inbox[c], <<>>}
  BY DEF Waits
<1>5. QED
  BY <1>2, <1>3, <1>4, ThreadSteps

\* The thread of n takes a packet that is not a hand.
LEMMA TakenWaits ==
  ASSUME GameInv, NEW n \in User, NEW type, type # "gameanswer", Takes(n, type), UNCHANGED clientVars
  PROVE  /\ \A c \in User : Waits(c)
         /\ inbox'[n] = <<>> /\ \A c \in User : c # n => inbox'[c] = inbox[c]
         /\ Holds(n, type) /\ Head(inbox[n]) \in GameRequest /\ Legal(n, type)
<1>1. ClientTypes /\ Session(n)
  BY DEF GameInv, Sessions
<1>2. /\ Head(inbox[n]).type = type /\ inbox'[n] = <<>> /\ Legal(n, type) /\ Head(inbox[n]) \in GameRequest
      /\ \A c \in User : c # n => inbox'[c] = inbox[c]
  BY <1>1, TakenOff
<1>3. Holds(n, type) /\ ~Handed(n)
  BY <1>2 DEF Takes, SentIn, Holds, Handed
<1>4. stage' = stage /\ seen' = seen /\ hand' = hand /\ oppo' = oppo
  BY DEF clientVars
<1>5. QED
  BY <1>2, <1>3, <1>4 DEF Waits

\* The threads send nothing, or the one of n a packet about no round.
LEMMA SaidQuietly ==
  ASSUME GameInv, NEW n \in User,
         \/ UNCHANGED out
         \/ \E p \in GameReply : /\ p.type \notin {"gameanswer", "gamequit"} /\ p.game <= games
                                 /\ p.type = "gamerequest" => p.u # n
                                 /\ SendTo(n, p)
  PROVE  \A c \in User : Quiet(c) /\ Says(c)
<1>1. CASE UNCHANGED out
  BY <1>1 DEF Quiet, Says
<1>2. CASE \E p \in GameReply : /\ p.type \notin {"gameanswer", "gamequit"} /\ p.game <= games
                                /\ p.type = "gamerequest" => p.u # n
                                /\ SendTo(n, p)
  <2>1. PICK p \in GameReply : /\ p.type \notin {"gameanswer", "gamequit"} /\ p.game <= games
                               /\ p.type = "gamerequest" => p.u # n
                               /\ SendTo(n, p)
    BY <1>2
  <2>2. out \in [User -> Seq(GameReply)]
    BY DEF GameInv, ClientTypes
  <2>3. out'[n] = Append(out[n], p) /\ \A c \in User : c # n => out'[c] = out[c]
    BY <2>1, <2>2 DEF SendTo
  <2>4. QED
    BY <2>1, <2>3 DEF Quiet, Says
<1>3. QED
  BY <1>1, <1>2

\* A packet without contents is about no game.
LEMMA PlainSaid ==
  ASSUME GameInv, NEW n \in User, NEW u \in Names, NEW type \in {"loginok", "loginfail", "gamerequest", "gamerefuse"},
         type = "gamerequest" => u # n, SendTo(n, Packet(type, u))
  PROVE  \A c \in User : Quiet(c) /\ Says(c)
<1>1. PICK p \in GameReply : p = Packet(type, u)
  BY PlainPackets
<1>2. p.type = type /\ p.u = u /\ p.game = 0
  BY <1>1 DEF Packet
<1>3. p.game <= games
  BY <1>2 DEF GameInv, TableTypes
<1>4. SendTo(n, p)
  BY <1>1, Zenon
<1>5. QED
  BY <1>2, <1>3, <1>4, SaidQuietly

\* The entries of c and of its game stay, or c has none any more.
LEMMA KinKept ==
  ASSUME NEW c \in User,
         c \in named' => \/ ulist'[c].gid \notin DOMAIN glist'
                         \/ c \in named /\ ulist'[c].gid = ulist[c].gid,
         \A g \in DOMAIN glist' :
           /\ g \in DOMAIN glist /\ glist'[g].id = glist[g].id /\ glist'[g].hand[c] = glist[g].hand[c]
           /\ glist'[g].read[c] = glist[g].read[c] /\ glist'[g].shown[c] = glist[g].shown[c]
  PROVE  Kin(c)
BY DEF Kin, Live, Mine

\* HandleLogin begins no game.
LEMMA LoginRounds ==
  ASSUME GameInv, Rounds, NEW n \in User, HandleLogin(n), UNCHANGED clientVars
  PROVE  Rounds'
<1>1. Takes(n, "login") /\ UNCHANGED <<glist, games>> /\ TableTypes /\ n \in Names
  BY DEF HandleLogin, GameInv, Names
<1>2. /\ \A c \in User : Waits(c)
      /\ \A c \in User : c # n => inbox'[c] = inbox[c]
      /\ stage[n] # "off"
  BY <1>1, TakenWaits DEF Legal
<1>3. \A c \in User : Quiet(c) /\ Says(c)
  <2>1. PICK type \in {"loginok", "loginfail"} : SendTo(n, Packet(type, n))
    BY DEF HandleLogin
  <2>2. QED
    BY <1>1, <2>1, PlainSaid
<1>4. ASSUME NEW c \in User PROVE Attended(c) /\ Kin(c)
  <2>1. CASE n \notin DOMAIN ulist
    <3>1. named' = named \cup {n} /\ ulist' = With(ulist, {n}, LoggedIn)
      BY <2>1 DEF HandleLogin
    <3>2. c \in named => c # n /\ ulist'[c] = ulist[c]
      BY <1>1, <2>1, <3>1 DEF TableTypes, With
    <3>3. ulist'[n].gid = -1
      BY <3>1 DEF With, LoggedIn
    <3>4. -1 \notin DOMAIN glist'
      BY <1>1 DEF TableTypes, Numbered
    <3>5. Kin(c)
      BY <1>1, <3>1, <3>2, <3>3, <3>4, KinKept
    <3>6. Attended(c)
      BY <1>2, <3>1 DEF Attended
    <3>7. QED
      BY <3>5, <3>6
  <2>2. CASE n \in DOMAIN ulist
    <3>1. UNCHANGED <<ulist, named>>
      BY <2>2 DEF HandleLogin
    <3>2. Kin(c)
      BY <1>1, <3>1, KinKept
    <3>3. QED
      BY <1>2, <3>1, <3>2 DEF Attended
  <2>3. QED
    BY <2>1, <2>2
<1>5. GoOn
  BY <1>1 DEF GoOn, Alike
<1>6. QED
  BY <1>1, <1>2, <1>3, <1>4, <1>5, ThreadKeeps

\* Until a thread has changed a game its user does not play in, a user that has
\* a game plays in it against one other.
LEMMA OwnGame ==
  ASSUME GameInv, ~intruded, NEW n \in User, n \in named
  PROVE  /\ n \in DOMAIN ulist /\ (ulist[n].gid # -1 => Live(n)) /\ (Live(n) => ulist[n].gid # -1)
         /\ Live(n) =>
              /\ Whole(Mine(n)) /\ Mine(n) \in Game /\ n \in Mine(n).pl
              /\ Oppo(Mine(n), n) \in Names /\ Oppo(Mine(n), n) # n
              /\ Mine(n).pl = {n, Oppo(Mine(n), n)}
<1>1. TableTypes /\ Linked(ulist, glist) /\ n \in Names
  BY DEF GameInv, TablesAgree, Names
<1>2. n \in DOMAIN ulist /\ (ulist[n].gid # -1 => Live(n)) /\ -1 \notin DOMAIN glist
  BY <1>1 DEF TableTypes, Linked, Points, Live, Numbered
<1>3. ASSUME Live(n)
      PROVE  /\ Whole(Mine(n)) /\ Mine(n) \in Game /\ n \in Mine(n).pl
             /\ Oppo(Mine(n), n) \in Names /\ Oppo(Mine(n), n) # n
             /\ Mine(n).pl = {n, Oppo(Mine(n), n)}
  <2>1. ulist[n].gid \in DOMAIN glist /\ ulist[n].gid # -1
    BY <1>2, <1>3 DEF Live
  <2>2. Whole(Mine(n)) /\ Pair(Mine(n).pl) /\ n \in Mine(n).pl
    BY <1>1, <1>2, <2>1 DEF Mine, TableTypes, Numbered, Linked, Points
  <2>3. Oppo(Mine(n), n) \in Mine(n).pl \ {n} /\ Mine(n) \in Game
    BY <1>1, <2>2, OpponentPlays DEF Whole
  <2>4. Mine(n).pl \subseteq Names
    BY <2>3 DEF Game
  <2>5. QED
    BY <2>2, <2>3, <2>4 DEF Pair
<1>4. QED
  BY <1>2, <1>3 DEF Live

\* A mark on the own game that is no hand.
LEMMA MarkRounds ==
  ASSUME GameInv, Rounds, ~intruded, NEW n \in User, HandleRefuse(n) \/ HandleQuit(n), UNCHANGED clientVars
  PROVE  Rounds'
<1> DEFINE num == ulist[n].gid
<1>1. /\ UNCHANGED <<ulist, named, down, out, intruded, games>>
      /\ glist' = glist \/ /\ num \in DOMAIN glist
                           /\ \/ glist' = [glist EXCEPT ![num] = [glist[num] EXCEPT !.pl = @ \cup {n}, !.refuse = @ \cup {n}]]
                              \/ glist' = [glist EXCEPT ![num] = [glist[num] EXCEPT !.pl = @ \cup {n}, !.quit = @ \cup {n}]]
  BY DEF HandleRefuse, HandleQuit, Marks
<1>2. PICK type \in {"gamerefuse", "gamequit"} : Takes(n, type)
  BY DEF HandleRefuse, HandleQuit
<1>3. /\ \A c \in User : Waits(c) /\ Quiet(c) /\ Says(c) /\ Attended(c)
      /\ n \in named
  <2>1. (\A c \in User : Waits(c)) /\ n \in named /\ Holds(n, type) /\ \A c \in User : c # n => inbox'[c] = inbox[c]
    BY <1>2, TakenWaits DEF Legal
  <2>2. \A c \in User : Quiet(c) /\ Says(c)
    BY <1>1, SaidQuietly
  <2>3. stage[n] # "off"
    BY <1>2, <2>1 DEF Rounds, Plain, OffIs, Holds
  <2>4. QED
    BY <1>1, <2>1, <2>2, <2>3 DEF Attended
<1>4. ASSUME NEW g \in DOMAIN glist'
      PROVE  /\ g \in DOMAIN glist /\ Alike(glist[g], glist'[g]) /\ glist'[g].hand = glist[g].hand
  <2>1. CASE glist' = glist
    BY <1>4, <2>1 DEF Alike
  <2>2. CASE glist' # glist
    <3>1. num \in DOMAIN glist
      BY <1>1, <2>2
    <3>2. Mine(n) = glist[num] /\ glist[num] \in Game /\ glist[num].pl \cup {n} = glist[num].pl
      BY <1>3, <3>1, OwnGame DEF Live, Mine
    <3>3. DOMAIN glist' = DOMAIN glist /\ (g # num => glist'[g] = glist[g])
      BY <1>1, <2>2
    <3>4. Alike(glist[num], glist'[num]) /\ glist'[num].hand = glist[num].hand
      <4> DEFINE a == [glist[num] EXCEPT !.pl = @ \cup {n}, !.refuse = @ \cup {n}]
                 b == [glist[num] EXCEPT !.pl = @ \cup {n}, !.quit = @ \cup {n}]
      <4>1. Alike(glist[num], a) /\ Alike(glist[num], b) /\ a.hand = glist[num].hand /\ b.hand = glist[num].hand
        BY <3>2 DEF Alike, Game
      <4>2. glist' = [glist EXCEPT ![num] = a] \/ glist' = [glist EXCEPT ![num] = b]
        BY <1>1, <2>2, Zenon
      <4> HIDE DEF a, b
      <4>3. glist'[num] = a \/ glist'[num] = b
        BY <3>1, <4>2
      <4>4. QED
        BY <4>1, <4>3, Zenon
    <3>5. QED
      BY <1>4, <3>3, <3>4 DEF Alike
  <2>3. QED
    BY <2>1, <2>2
<1>5. \A c \in User : Kin(c)
  BY <1>1, <1>4, KinKept DEF Alike
<1>6. GoOn
  BY <1>4 DEF GoOn
<1>7. QED
  BY <1>1, <1>3, <1>5, <1>6, ThreadKeeps

\* The look begins with the number of the own game.
LEMMA ReadRounds ==
  ASSUME GameInv, Rounds, NEW n \in User, ReadGid(n), UNCHANGED clientVars
  PROVE  Rounds'
<1>1. UNCHANGED <<ulist, glist, named, games, inbox, out>>
  BY DEF ReadGid
<1>2. \A c \in User : Waits(c) /\ Quiet(c) /\ Says(c) /\ Attended(c)
  BY <1>1 DEF clientVars, Waits, Quiet, Says, Attended, Rounds, Plain, OffIs
<1>3. \A c \in User : Kin(c)
  BY <1>1, KinKept
<1>4. GoOn
  BY <1>1 DEF GoOn, Alike
<1>5. QED
  BY <1>1, <1>2, <1>3, <1>4, ThreadKeeps

\* The hand of n is counted in the game it was played in: it came from there.
LEMMA AnswerRounds ==
  ASSUME GameInv, Rounds, ~intruded, ~late', NEW n \in User, HandleAnswer(n), UNCHANGED clientVars
  PROVE  Rounds'
<1> DEFINE num == ulist[n].gid
           new == [glist[num] EXCEPT !.pl = @ \cup {n}, !.hand[n] = Head(inbox[n]).ans]
<1>1. /\ UNCHANGED <<ulist, named, down, out, intruded, games>> /\ Takes(n, "gameanswer")
      /\ glist' = IF num \in DOMAIN glist THEN [glist EXCEPT ![num] = new] ELSE glist
      /\ num \in DOMAIN glist => glist[num].id = Head(inbox[n]).game
  BY DEF HandleAnswer, Marks, GameInv, TableTypes
<1>2. /\ inbox'[n] = <<>> /\ \A c \in User : c # n => inbox'[c] = inbox[c]
      /\ Handed(n) /\ Head(inbox[n]) \in GameRequest /\ n \in named
  <2>1. ClientTypes /\ Session(n)
    BY DEF GameInv, Sessions
  <2>2. /\ Head(inbox[n]).type = "gameanswer" /\ inbox'[n] = <<>> /\ Legal(n, "gameanswer") /\ Head(inbox[n]) \in GameRequest
        /\ \A c \in User : c # n => inbox'[c] = inbox[c]
    BY <1>1, <2>1, TakenOff
  <2>3. QED
    BY <1>1, <2>2 DEF Takes, SentIn, Holds, Handed, Legal
<1>3. stage' = stage /\ seen' = seen /\ hand' = hand /\ oppo' = oppo
  BY DEF clientVars
<1>4. stage[n] # "off"
  BY <1>2 DEF Rounds, Plain, OffIs, Handed, Holds
<1>5. num \in DOMAIN glist =>
        /\ DOMAIN glist' = DOMAIN glist /\ \A g \in DOMAIN glist : g # num => glist'[g] = glist[g]
        /\ Alike(glist[num], glist'[num]) /\ glist'[num].hand[n] = Head(inbox[n]).ans
        /\ \A c \in User : c # n => glist'[num].hand[c] = glist[num].hand[c]
  <2> SUFFICES ASSUME num \in DOMAIN glist
               PROVE  /\ DOMAIN glist' = DOMAIN glist /\ \A g \in DOMAIN glist : g # num => glist'[g] = glist[g]
                      /\ Alike(glist[num], glist'[num]) /\ glist'[num].hand[n] = Head(inbox[n]).ans
                      /\ \A c \in User : c # n => glist'[num].hand[c] = glist[num].hand[c]
    OBVIOUS
  <2>1. Mine(n) = glist[num] /\ glist[num] \in Game /\ glist[num].pl \cup {n} = glist[num].pl
    BY <1>2, OwnGame DEF Live, Mine
  <2>2. glist' = [glist EXCEPT ![num] = new]
    BY <1>1
  <2>3. Alike(glist[num], new) /\ new.hand = [glist[num].hand EXCEPT ![n] = Head(inbox[n]).ans]
    BY <2>1 DEF Alike, Game
  <2> HIDE DEF new
  <2>4. glist'[num] = new /\ DOMAIN glist' = DOMAIN glist /\ \A g \in DOMAIN glist : g # num => glist'[g] = glist[g]
    BY <2>2
  <2>5. glist[num].hand \in [Names -> 0..3] /\ User \subseteq Names
    BY <2>1 DEF Game, Names
  <2>6. new.hand[n] = Head(inbox[n]).ans /\ \A c \in User : c # n => new.hand[c] = glist[num].hand[c]
    BY <2>3, <2>5
  <2>7. QED
    BY <2>3, <2>4, <2>6, Zenon
<1> HIDE DEF new
<1>6. num \notin DOMAIN glist => glist' = glist
  BY <1>1
<1>7. GoOn
  BY <1>5, <1>6 DEF GoOn, Alike
<1>8. ASSUME NEW c \in User, c # n PROVE Waits(c) /\ Kin(c)
  <2>1. Kin(c)
    BY <1>1, <1>5, <1>6, <1>8, KinKept DEF Alike
  <2>2. QED
    BY <1>2, <1>3, <1>8, <2>1 DEF Waits
<1>9. Side(n)'
  <2>1. ~Counted(n) /\ ~Decided(n) /\ Due(n) = {} /\ QuitIs(n)
    BY <1>2, <1>4 DEF Rounds, Side, Once
  <2>2. Due(n)' = {} /\ ~Handed(n)' /\ ~Holds(n, "gameaccept")'
    BY <1>1, <1>2, <2>1 DEF Due, Handed, Holds
  <2>3. (Live(n)' <=> Live(n)) /\ (Live(n) => Mine(n)' = glist'[num] /\ Mine(n) = glist[num] /\ num \in DOMAIN glist)
    BY <1>1, <1>5, <1>6 DEF Live, Mine
  <2>4. Live(n) => Alike(Mine(n), Mine(n)') /\ Mine(n)'.hand[n] = Head(inbox[n]).ans
    BY <1>5, <2>3
  <2>5. ~Decided(n)'
    BY <2>1, <2>3, <2>4 DEF Decided, Alike
  <2>6. Live(n) => stage[n] = "answered" /\ Head(inbox[n]).ans = hand[n] /\ Mine(n).id = seen[n][1]
    BY <1>1, <1>2, <1>4, <2>3 DEF Rounds, Side, HandIs
  <2>7. Counted(n)' => stage'[n] = "answered" /\ seen'[n][1] = Mine(n)'.id /\ Mine(n)'.hand[n] = hand'[n]
    BY <1>3, <2>3, <2>4, <2>6 DEF Counted, Alike
  <2>8. HandIs(n)' /\ Once(n)'
    BY <2>2, <2>5, <2>7 DEF HandIs, Once
  <2>9. QuitIs(n)'
    BY <1>1, <1>3, <2>1, <2>3, <2>4 DEF QuitIs, Alike
  <2>10. QED
    BY <2>2, <2>8, <2>9 DEF Side, AcceptIs
<1>10. \A c \in User : Quiet(c) /\ Says(c)
  BY <1>1, SaidQuietly
<1>11. \A c \in User : Attended(c) /\ inbox'[c] \in {inbox[c], <<>>}
  BY <1>1, <1>2, <1>4 DEF Attended
<1>12. OfGames'
  <2>1. \A c \in User : Results(c)' = Results(c)
    BY <1>3, <1>10, ResultsQuiet
  <2>2. QED
    BY <1>1, <1>7, <2>1, GamesKept DEF Rounds
<1>13. games' \in Nat /\ games <= games'
  BY <1>1 DEF GameInv, TableTypes
<1>14. QED
  BY <1>8, <1>9, <1>10, <1>11, <1>12, <1>13, ThreadSteps

\* The connection of n has ended: n has no game any more, the others have theirs
\* or none.
LEMMA ExitRounds ==
  ASSUME GameInv, Rounds, NEW n \in User, HandleExit(n), UNCHANGED clientVars
  PROVE  Rounds'
<1> DEFINE num == IF n \in named THEN ulist[n].gid ELSE -1
           opp == IF num \in DOMAIN glist THEN Oppo(glist[num], n) ELSE n
<1>1. /\ Takes(n, "eof") /\ UNCHANGED <<out, games>> /\ named' = named \ {n}
      /\ glist' = [g \in DOMAIN glist \ {num} |-> glist[g]]
      /\ ulist' = IF n \in named
                  THEN [u \in (DOMAIN ulist \cup {opp}) \ {n} |-> IF u = opp THEN LoggedIn ELSE ulist[u]]
                  ELSE ulist
      /\ named \subseteq DOMAIN ulist
  BY DEF HandleExit, Erased, GameInv, TableTypes
<1> HIDE DEF num, opp
<1>2. (\A c \in User : Waits(c)) /\ stage[n] = "off" /\ \A c \in User : c # n => inbox'[c] = inbox[c]
  BY <1>1, TakenWaits DEF Legal
<1>3. \A c \in User : Quiet(c) /\ Says(c)
  BY <1>1, SaidQuietly
<1>4. \A c \in User : Attended(c)
  BY <1>1, <1>2 DEF Attended
<1>5. /\ DOMAIN glist' \subseteq DOMAIN glist /\ \A g \in DOMAIN glist' : glist'[g] = glist[g]
      /\ -1 \notin DOMAIN glist'
  BY <1>1 DEF GameInv, TableTypes, Numbered
<1>6. ASSUME NEW c \in User PROVE Kin(c)
  <2>1. ASSUME c \in named' PROVE ulist'[c].gid \notin DOMAIN glist' \/ (c \in named /\ ulist'[c].gid = ulist[c].gid)
    <3>1. c \in named /\ c # n /\ c \in DOMAIN ulist
      BY <1>1, <2>1
    <3>2. ulist'[c] = LoggedIn \/ ulist'[c] = ulist[c]
      BY <1>1, <3>1
    <3>3. QED
      BY <1>5, <3>1, <3>2 DEF LoggedIn
  <2>2. QED
    BY <1>5, <2>1, KinKept
<1>7. GoOn
  BY <1>5 DEF GoOn, Alike
<1>8. QED
  BY <1>1, <1>2, <1>3, <1>4, <1>6, <1>7, ThreadKeeps

\* What has been, or will be, told to c is about a game there has been and a
\* round that was played.
LEMMA ResultFacts ==
  ASSUME GameInv, NEW c \in User, Tags(c), Side(c), NEW x \in Results(c)
  PROVE  x[1] \in Nat /\ x[1] <= games /\ x[2] \in Nat /\ x[2] > 0
<1>1. /\ \A i \in DOMAIN out[c] : i \in Nat /\ out[c][i] \in GameReply
      /\ seen[c][1] \in Nat /\ seen[c][2] \in Nat /\ MaxRound \in Nat
  BY ClientFacts, GameAssumption
<1>2. CASE Playing(c) /\ seen[c][2] > 0 /\ x = seen[c]
  BY <1>1, <1>2 DEF Tags
<1>3. CASE stage[c] = "answered" /\ \E i \in Due(c) : x = <<out[c][i].game, out[c][i].round, hand[c], out[c][i].ans>>
  <2>1. PICK i \in Due(c) : x = <<out[c][i].game, out[c][i].round, hand[c], out[c][i].ans>>
    BY <1>3
  <2>2. x[1] = out[c][i].game /\ x[2] = out[c][i].round
    BY <2>1
  <2>3. out[c][i] \in GameReply /\ i \in DOMAIN out[c] /\ out[c][i].round > 0
    BY <1>1, <1>3 DEF Due, Side, HandIs
  <2>4. out[c][i].game \in Nat /\ out[c][i].round \in Nat
    BY <1>1, <2>3 DEF GameReply
  <2>5. QED
    BY <2>2, <2>3, <2>4 DEF Tags
<1>4. QED
  BY <1>2, <1>3 DEF Results

\* A new game is one nobody has been told about.
LEMMA InviteRounds ==
  ASSUME GameInv, Rounds, ~intruded, NEW n \in User, HandleInvite(n), UNCHANGED clientVars
  PROVE  Rounds'
<1> DEFINE opp == Head(inbox[n]).u
           num == IF DOMAIN glist = {} THEN 0 ELSE Max(DOMAIN glist) + 1
<1>1. Takes(n, "gamerequest") /\ UNCHANGED named /\ TableTypes /\ n \in Names /\ games \in Nat
  BY DEF HandleInvite, GameInv, TableTypes, Names
<1>2. /\ \A c \in User : Waits(c)
      /\ \A c \in User : c # n => inbox'[c] = inbox[c]
      /\ n \in named /\ Holds(n, "gamerequest") /\ Head(inbox[n]) \in GameRequest
  BY <1>1, TakenWaits DEF Legal
<1>3. stage[n] # "off" /\ opp \in Names
  BY <1>2 DEF Rounds, Plain, OffIs, Holds, GameRequest
<1>4. \A c \in User : Attended(c) /\ inbox'[c] \in {inbox[c], <<>>}
  BY <1>1, <1>2, <1>3 DEF Attended, Waits
<1>5. CASE opp \in DOMAIN ulist /\ ulist[opp].st = "login" /\ opp # n
  <2>1. /\ games' = games + 1 /\ UNCHANGED out
        /\ ulist' = [ulist EXCEPT ![n].gid = num, ![opp].gid = num]
    BY <1>5, Zenon DEF HandleInvite
  <2>2. PICK garbage \in 0..1 : glist' = With(glist, {num}, NewGame(n, opp, garbage))
    BY <1>5, Zenon DEF HandleInvite
  <2>13. PICK new : new = NewGame(n, opp, garbage)
    OBVIOUS
  <2>3. num \in Nat /\ num \notin DOMAIN glist
    BY <1>1, FreshNumber
  <2>4. /\ new.id = games + 1 /\ new.pl = {n, opp} /\ new.rdy = {n} /\ new.round = garbage
        /\ new.hand = [u \in Names |-> unknown] /\ new.read = [u \in Names |-> 0]
    BY <2>13 DEF NewGame
  <2>5. /\ DOMAIN glist' = DOMAIN glist \cup {num} /\ glist'[num] = new
        /\ \A g \in DOMAIN glist : glist'[g] = glist[g]
    BY <2>2, <2>3, <2>13 DEF With
  <2> HIDE DEF num, opp
  <2>6. \A c \in User : Quiet(c) /\ Says(c)
    BY <2>1, SaidQuietly
  <2>7. ASSUME NEW c \in User PROVE Kin(c)
    <3> SUFFICES ASSUME Live(c)' PROVE \/ Mine(c)'.id > games /\ Mine(c)'.hand[c] = unknown /\ Mine(c)'.read[c] = 0
                                       \/ Live(c) /\ Mine(c)' = Mine(c)
      BY DEF Kin
    <3>1. c \in named /\ c \in DOMAIN ulist /\ (ulist[c].gid # -1 => ulist[c].gid \in DOMAIN glist) /\ -1 \notin DOMAIN glist
      BY <1>1, OwnGame DEF Live, TableTypes, Numbered
    <3>2. ulist \in [DOMAIN ulist -> state]
      BY <1>1 DEF TableTypes, UsersTyped
    <3>3. CASE c \in {n, opp}
      <4>1. ulist'[c].gid = num
        BY <1>5, <2>1, <3>1, <3>2, <3>3 DEF state
      <4>2. Mine(c)' = new
        BY <2>5, <4>1 DEF Mine
      <4>3. c \in Names /\ games + 1 > games
        BY <1>1 DEF Names
      <4>4. QED
        BY <2>4, <4>2, <4>3
    <3>4. CASE c \notin {n, opp}
      <4>1. ulist'[c] = ulist[c]
        BY <2>1, <3>1, <3>4
      <4>2. ulist[c].gid \in DOMAIN glist
        <5>1. -1 \notin DOMAIN glist'
          BY <2>3, <2>5, <3>1
        <5>2. QED
          BY <3>1, <4>1, <5>1 DEF Live
      <4>3. QED
        BY <2>5, <3>1, <4>1, <4>2 DEF Live, Mine
    <3>5. QED
      BY <3>3, <3>4
  <2>8. \A c \in User : Results(c)' = Results(c)
    <3>1. stage' = stage /\ seen' = seen /\ hand' = hand
      BY DEF clientVars
    <3>2. QED
      BY <2>6, <3>1, ResultsQuiet
  <2>9. \A c \in User : \A x \in Results(c) : x[1] \in Nat /\ x[1] <= games
    BY ResultFacts DEF Rounds, Plain
  <2>10. OfGames'
    <3>1. Ids'
      BY <1>1, <2>1, <2>4, <2>5 DEF Rounds, OfGames, Ids
    <3>2. Mirrored'
      BY <2>8 DEF Rounds, OfGames, Mirrored
    <3>3. ASSUME NEW c \in User PROVE ResultIs(c)'
      <4> SUFFICES ASSUME NEW x \in Results(c), NEW g \in DOMAIN glist', glist'[g].id = x[1]
                   PROVE  Fits(c, x, glist'[g])
        BY <2>8 DEF ResultIs
      <4>1. g # num
        BY <1>1, <2>4, <2>5, <2>9
      <4>2. g \in DOMAIN glist /\ glist'[g] = glist[g] /\ ResultIs(c)
        BY <2>5, <4>1 DEF Rounds, OfGames
      <4>3. QED
        BY <4>2 DEF ResultIs
    <3>4. ReadyIs(new)' /\ ReadIs(new)'
      <4>1. ReadIs(new)'
        BY <1>3, <1>1, <2>4 DEF ReadIs
      <4>2. \A c \in User : ~\E x \in Results(c) : x[1] = new.id
        BY <1>1, <2>4, <2>9
      <4>3. QED
        BY <1>1, <2>4, <2>8, <4>1, <4>2 DEF ReadyIs
    <3>5. ASSUME NEW g \in DOMAIN glist' PROVE ReadyIs(glist[g])' /\ ReadIs(glist[g])'
      <4>1. CASE g = num
        BY <2>5, <3>4, <4>1
      <4>2. CASE g # num
        <5>1. g \in DOMAIN glist /\ glist'[g] = glist[g] /\ ReadyIs(glist[g]) /\ ReadIs(glist[g])
          BY <2>5, <4>2 DEF Rounds, OfGames
        <5>2. QED
          BY <2>8, <5>1 DEF ReadyIs, ReadIs
      <4>3. QED
        BY <4>1, <4>2
    <3>6. QED
      BY <3>1, <3>2, <3>3, <3>5 DEF OfGames
  <2>11. games' \in Nat /\ games <= games'
    BY <1>1, <2>1
  <2>12. QED
    BY <1>2, <1>4, <2>6, <2>7, <2>10, <2>11, ThreadSteps
<1>6. CASE ~(opp \in DOMAIN ulist /\ ulist[opp].st = "login" /\ opp # n)
  <2>1. SendTo(n, Packet("gamerefuse", opp)) /\ UNCHANGED <<ulist, glist, games>>
    BY <1>6, Zenon DEF HandleInvite
  <2>2. \A c \in User : Quiet(c) /\ Says(c)
    BY <1>3, <2>1, PlainSaid
  <2>3. \A c \in User : Kin(c)
    BY <1>1, <2>1, KinKept
  <2>4. GoOn
    BY <2>1 DEF GoOn, Alike
  <2>5. QED
    BY <1>2, <1>4, <2>1, <2>2, <2>3, <2>4, ThreadKeeps
<1>7. QED
  BY <1>5, <1>6

\* A game is joined, or begun again, only by players who have been told of no
\* round of it.
LEMMA AcceptRounds ==
  ASSUME GameInv, Rounds, ~intruded', ~late', NEW n \in User, HandleAccept(n), UNCHANGED clientVars
  PROVE  Rounds'
<1> DEFINE opp == Head(inbox[n]).u
           num == ulist[n].gid
           both == opp \in glist[num].rdy \cup {n}
           entry == [st |-> "game", gid |-> num]
<1>1. Takes(n, "gameaccept") /\ UNCHANGED <<named, games>> /\ TableTypes /\ n \in Names /\ games \in Nat
  BY DEF HandleAccept, GameInv, TableTypes, Names
<1>2. /\ \A c \in User : Waits(c)
      /\ \A c \in User : c # n => inbox'[c] = inbox[c]
      /\ n \in named /\ Holds(n, "gameaccept") /\ Head(inbox[n]) \in GameRequest
  BY <1>1, TakenWaits DEF Legal
<1>3. /\ stage[n] \in {"waiting", "menu"} \/ (stage[n] = "play" /\ seen[n][2] = 0)
      /\ opp # n /\ opp \in Names
  BY <1>2 DEF Rounds, Side, AcceptIs, GameRequest
<1>4. stage[n] # "off" /\ stage[n] # "answered" /\ Results(n) = {}
  <2>1. Playing(n) => seen[n][2] = 0
    BY <1>3 DEF Playing
  <2>2. QED
    BY <1>3, <2>1 DEF Results
<1>5. \A c \in User : Attended(c) /\ inbox'[c] \in {inbox[c], <<>>}
  BY <1>1, <1>2, <1>4 DEF Attended, Waits
<1>6. ~Decided(n)
  BY <1>4 DEF Rounds, Side, HandIs
<1>7. CASE num \in DOMAIN glist
  <2>1. PICK game : game = glist[num]
    OBVIOUS
  <2> DEFINE new == [game EXCEPT !.pl = @ \cup {n, opp}, !.rdy = @ \cup {n}, !.round = IF both THEN 1 ELSE @]
  <2>2. /\ glist' = [glist EXCEPT ![num] = new]
        /\ ulist' = IF both THEN With(ulist, {n, opp}, entry) ELSE ulist
        /\ SendTo(n, [Packet("gamestart", opp) EXCEPT !.round = 1, !.game = game.id])
        /\ opp \in game.pl /\ ~intruded
        /\ both /\ opp \in DOMAIN ulist => ulist[opp].gid = num
    <3>1. /\ glist' = [glist EXCEPT ![num] = new]
          /\ ulist' = IF both THEN With(ulist, {n, opp}, entry) ELSE ulist
          /\ SendTo(n, [Packet("gamestart", opp) EXCEPT !.round = 1, !.game = game.id])
          /\ intruded' = (intruded \/ opp \notin game.pl)
          /\ late' = (late \/ (both /\ opp \in DOMAIN ulist /\ ulist[opp].gid # num))
      BY <1>7, <2>1, Zenon DEF HandleAccept
    <3>2. intruded \in BOOLEAN /\ late \in BOOLEAN
      BY <1>1 DEF TableTypes
    <3>3. QED
      BY <3>1, <3>2, Zenon
  <2>3. /\ Live(n) /\ Mine(n) = game /\ game \in Game /\ game.pl = {n, opp} /\ game.read[n] # 1
    <3>1. Live(n) /\ Mine(n) = game
      BY <1>2, <1>7, <2>1 DEF Live, Mine
    <3>2. game \in Game /\ game.pl = {n, Oppo(game, n)}
      BY <1>2, <2>2, <3>1, OwnGame
    <3>3. game.pl = {n, opp}
      BY <1>3, <2>2, <3>2
    <3>4. QED
      BY <1>6, <3>1, <3>2, <3>3 DEF Decided
  <2>4. /\ new.id = game.id /\ new.pl = game.pl /\ new.read = game.read /\ new.shown = game.shown
        /\ new.hand = game.hand /\ new.rdy = game.rdy \cup {n} /\ (~both => new.round = game.round)
    BY <2>3 DEF Game
  <2>5. PICK next : next = new
    OBVIOUS
  <2>6. /\ DOMAIN glist' = DOMAIN glist /\ glist'[num] = next
        /\ \A g \in DOMAIN glist : g # num => glist'[g] = glist[g]
    BY <1>7, <2>2, <2>5
  <2>7. /\ next.id = game.id /\ next.pl = game.pl /\ next.read = game.read /\ next.shown = game.shown
        /\ next.hand = game.hand /\ next.rdy = game.rdy \cup {n} /\ (~both => next.round = game.round)
    BY <2>4, <2>5, Zenon
  <2> HIDE DEF new, num, opp
  <2>8. \A c \in User : Quiet(c) /\ Says(c)
    <3>1. game.id \in Nat /\ game.id <= games
      BY <1>1, <1>7, <2>1 DEF Rounds, OfGames, Ids
    <3>2. PICK p \in GameReply : /\ p = [Packet("gamestart", opp) EXCEPT !.round = 1, !.game = game.id]
                                 /\ p.type = "gamestart" /\ p.game = game.id
      BY <1>3, <3>1, StartPacket
    <3>3. SendTo(n, p)
      BY <2>2, <3>2, Zenon
    <3>4. QED
      BY <3>1, <3>2, <3>3, SaidQuietly
  <2>9. ASSUME NEW c \in User PROVE Kin(c)
    <3>1. ASSUME c \in named PROVE ulist'[c].gid = ulist[c].gid
      <4>1. c \in DOMAIN ulist
        BY <1>1, <3>1 DEF TableTypes
      <4>2. CASE ~both
        BY <2>2, <4>2
      <4>3. CASE both
        <5>1. ulist' = With(ulist, {n, opp}, entry)
          BY <2>2, <4>3
        <5>2. CASE c \in {n, opp}
          <6>1. ulist'[c] = entry /\ entry.gid = num
            BY <4>1, <5>1, <5>2 DEF With
          <6>2. ulist[c].gid = num
            BY <2>2, <4>1, <4>3, <5>2 DEF num
          <6>3. QED
            BY <6>1, <6>2
        <5>3. CASE c \notin {n, opp}
          BY <4>1, <5>1, <5>3 DEF With
        <5>4. QED
          BY <5>2, <5>3
      <4>4. QED
        BY <4>2, <4>3
    <3>2. \A g \in DOMAIN glist' :
            /\ g \in DOMAIN glist /\ glist'[g].id = glist[g].id /\ glist'[g].hand[c] = glist[g].hand[c]
            /\ glist'[g].read[c] = glist[g].read[c] /\ glist'[g].shown[c] = glist[g].shown[c]
      BY <2>1, <2>6, <2>7
    <3>3. QED
      BY <1>1, <3>1, <3>2, KinKept
  <2>10. \A c \in User : Results(c)' = Results(c)
    <3>1. stage' = stage /\ seen' = seen /\ hand' = hand
      BY DEF clientVars
    <3>2. QED
      BY <2>8, <3>1, ResultsQuiet
  <2>11. \A c \in User : c \in game.rdy => ~\E x \in Results(c) : x[1] = game.id
    <3> SUFFICES ASSUME NEW c \in User, c \in game.rdy, NEW x \in Results(c), x[1] = game.id PROVE FALSE
      OBVIOUS
    <3>1. c # n /\ n \in game.pl
      BY <1>4, <2>3
    <3>2. ReadyIs(game)
      BY <1>7, <2>1 DEF Rounds, OfGames
    <3>3. game.read[n] = 1
      BY <3>1, <3>2 DEF ReadyIs
    <3>4. QED
      BY <2>3, <3>3
  <2>12. OfGames'
    <3>1. Ids'
      BY <1>1, <2>1, <2>6, <2>7 DEF Rounds, OfGames, Ids
    <3>2. Mirrored'
      BY <2>10 DEF Rounds, OfGames, Mirrored
    <3>3. ASSUME NEW c \in User PROVE ResultIs(c)'
      <4> SUFFICES ASSUME NEW x \in Results(c), NEW g \in DOMAIN glist', glist'[g].id = x[1]
                   PROVE  Fits(c, x, glist'[g])
        BY <2>10 DEF ResultIs
      <4>1. ResultIs(c) /\ g \in DOMAIN glist
        BY <2>6 DEF Rounds, OfGames
      <4>2. CASE g # num
        BY <2>6, <4>1, <4>2 DEF ResultIs
      <4>3. CASE g = num
        <5>1. game.id = x[1] /\ Fits(c, x, game)
          BY <2>1, <2>6, <2>7, <4>1, <4>3 DEF ResultIs
        <5>2. c = opp
          BY <1>4, <2>3, <5>1 DEF Fits
        <5>3. ~both
          BY <1>3, <2>1, <2>11, <5>1, <5>2
        <5>4. QED
          BY <2>6, <2>7, <4>3, <5>1, <5>3 DEF Fits
      <4>4. QED
        BY <4>2, <4>3
    <3>4. ReadIs(game) /\ ReadyIs(game)
      BY <1>7, <2>1 DEF Rounds, OfGames
    <3>5. ReadIs(next)
      BY <2>7, <3>4 DEF ReadIs
    <3>6. ReadyIs(next)'
      BY <1>4, <2>3, <2>7, <2>10, <2>11, <3>4 DEF ReadyIs
    <3>7. ASSUME NEW g \in DOMAIN glist' PROVE ReadyIs(glist[g])' /\ ReadIs(glist[g])'
      <4>1. CASE g = num
        BY <2>6, <3>5, <3>6, <4>1
      <4>2. CASE g # num
        <5>1. g \in DOMAIN glist /\ glist'[g] = glist[g] /\ ReadyIs(glist[g]) /\ ReadIs(glist[g])
          BY <2>6, <4>2 DEF Rounds, OfGames
        <5>2. QED
          BY <2>10, <5>1 DEF ReadyIs, ReadIs
      <4>3. QED
        BY <4>1, <4>2
    <3>8. QED
      BY <3>1, <3>2, <3>3, <3>7 DEF OfGames
  <2>13. QED
    BY <1>1, <1>2, <1>5, <2>8, <2>9, <2>12, ThreadSteps
<1>8. CASE num \notin DOMAIN glist
  <2>1. SendTo(n, Packet("gamerefuse", n)) /\ UNCHANGED <<ulist, glist>>
    BY <1>8, Zenon DEF HandleAccept
  <2>2. \A c \in User : Quiet(c) /\ Says(c)
    BY <1>1, <2>1, PlainSaid
  <2>3. \A c \in User : Kin(c)
    BY <1>1, <2>1, KinKept
  <2>4. GoOn
    BY <2>1 DEF GoOn, Alike
  <2>5. QED
    BY <1>1, <1>2, <1>5, <2>1, <2>2, <2>3, <2>4, ThreadKeeps
<1>9. QED
  BY <1>7, <1>8

\* A look is at the own game, as long as no thread has changed another one.
LEMMA LookOwn ==
  ASSUME GameInv, ~intruded', NEW n \in User, Look(n)
  PROVE  /\ ~intruded /\ n \in named /\ n \in DOMAIN ulist /\ Live(n) /\ looking[n] = ulist[n].gid
         /\ UNCHANGED <<named, inbox, games>>
         /\ \/ Ask(n, Mine(n), Oppo(Mine(n), n)) \/ Start(n, Mine(n), Oppo(Mine(n), n))
            \/ Refused(n, Mine(n), Oppo(Mine(n), n)) \/ Quitted(n, Mine(n), Oppo(Mine(n), n))
            \/ Round(n, Mine(n), Oppo(Mine(n), n)) \/ Idle(n, Mine(n), Oppo(Mine(n), n))
<1>1. /\ TableTypes /\ ClientTypes /\ Session(n) /\ looking[n] # NoLook
      /\ intruded' = (intruded \/ looking[n] # ulist[n].gid) /\ UNCHANGED <<named, inbox, games>>
  BY DEF GameInv, Sessions, Look
<1>2. ~intruded /\ looking[n] = ulist[n].gid /\ n \in named
  BY <1>1 DEF TableTypes, Session
<1>3. ulist[n].gid # -1
  BY <1>1, <1>2 DEF ClientTypes
<1>4. n \in DOMAIN ulist /\ Live(n)
  BY <1>2, <1>3, OwnGame
<1>5. looking[n] \in DOMAIN glist /\ glist[looking[n]] = Mine(n)
  BY <1>2, <1>4 DEF Live, Mine
<1>6. \/ Ask(n, glist[looking[n]], Oppo(glist[looking[n]], n)) \/ Start(n, glist[looking[n]], Oppo(glist[looking[n]], n))
      \/ Refused(n, glist[looking[n]], Oppo(glist[looking[n]], n)) \/ Quitted(n, glist[looking[n]], Oppo(glist[looking[n]], n))
      \/ Round(n, glist[looking[n]], Oppo(glist[looking[n]], n)) \/ Idle(n, glist[looking[n]], Oppo(glist[looking[n]], n))
  BY <1>5, Zenon DEF Look
<1>7. QED
  BY <1>1, <1>2, <1>4, <1>5, <1>6, Zenon

\* A game that is removed, and forgotten by both players.
LEMMA GameGone ==
  ASSUME GameInv, NEW n \in User, NEW opp \in Names, NEW g, Ended(n, opp, g), UNCHANGED named
  PROVE  /\ GoOn /\ \A c \in User : Kin(c)
         /\ n \in named => ~Live(n)'
         /\ DOMAIN glist' = DOMAIN glist \ {g} /\ \A h \in DOMAIN glist' : glist'[h] = glist[h]
<1>1. /\ DOMAIN glist' = DOMAIN glist \ {g} /\ \A h \in DOMAIN glist' : glist'[h] = glist[h]
      /\ -1 \notin DOMAIN glist' /\ named \subseteq DOMAIN ulist /\ -1 \notin DOMAIN glist
  BY DEF Ended, Erased, GameInv, TableTypes, Numbered
<1>2. \A c \in User : c \in named => \/ ulist'[c].gid = -1
                                     \/ ulist'[c] = ulist[c] /\ c \notin {n, opp}
  BY <1>1 DEF Ended
<1>3. \A c \in User : Kin(c)
  BY <1>1, <1>2, KinKept
<1>4. GoOn
  BY <1>1 DEF GoOn, Alike
<1>5. n \in named => ~Live(n)'
  BY <1>1, <1>2 DEF Live
<1>6. QED
  BY <1>1, <1>3, <1>4, <1>5

\* The looks that compare no hands and find no opponent gone.
LEMMA LookKeepsRounds ==
  ASSUME GameInv, Rounds, ~intruded, UNCHANGED clientVars, UNCHANGED <<named, inbox, games>>,
         NEW n \in User, Live(n), looking[n] = ulist[n].gid, NEW opp \in Names, opp # n,
         \/ Ask(n, Mine(n), opp) \/ Start(n, Mine(n), opp) \/ Refused(n, Mine(n), opp) \/ Idle(n, Mine(n), opp)
  PROVE  Rounds'
<1> DEFINE num == ulist[n].gid
<1>1. /\ num \in DOMAIN glist /\ Mine(n) = glist[num] /\ looking[n] = num /\ n \in named /\ TableTypes
      /\ n \in Names
  BY DEF Live, Mine, GameInv, TableTypes, Names
<1>2. PICK game \in Game : game = glist[num] /\ n \in game.pl
  BY <1>1, OwnGame
<1>3. \A c \in User : Waits(c) /\ Attended(c)
  BY DEF clientVars, Waits, Attended, Rounds, Plain, OffIs
<1>4. (\A c \in User : Quiet(c) /\ Says(c)) /\ GoOn /\ \A c \in User : Kin(c)
  <2>1. CASE Ask(n, Mine(n), opp)
    <3> DEFINE new == [game EXCEPT !.pl = @ \cup {n}]
    <3>1. glist' = [glist EXCEPT ![num] = new] /\ UNCHANGED ulist /\ SendTo(n, Packet("gamerequest", opp))
      BY <1>1, <1>2, <2>1 DEF Ask
    <3>2. /\ Alike(game, new) /\ new.hand = game.hand
      BY <1>2 DEF Alike, Game
    <3> HIDE DEF new, num
    <3>3. \A g \in DOMAIN glist' : g \in DOMAIN glist /\ Alike(glist[g], glist'[g]) /\ glist'[g].hand = glist[g].hand
      <4>1. DOMAIN glist' = DOMAIN glist /\ glist'[num] = new /\ \A g \in DOMAIN glist : g # num => glist'[g] = glist[g]
        BY <1>1, <3>1
      <4>2. \A g \in DOMAIN glist : Alike(glist[g], glist[g])
        BY DEF Alike
      <4>3. QED
        BY <1>2, <3>2, <4>1, <4>2
    <3>4. \A c \in User : Kin(c)
      BY <3>1, <3>3, KinKept DEF Alike
    <3>5. GoOn
      BY <3>3 DEF GoOn
    <3>6. \A c \in User : Quiet(c) /\ Says(c)
      BY <3>1, PlainSaid
    <3>7. QED
      BY <3>4, <3>5, <3>6
  <2>2. CASE Start(n, Mine(n), opp)
    <3> DEFINE new == [game EXCEPT !.rdy = @ \ {n, opp}]
    <3>1. /\ glist' = [glist EXCEPT ![num] = new] /\ UNCHANGED ulist
          /\ SendTo(n, [Packet("gamestart", opp) EXCEPT !.round = 1, !.game = game.id])
      BY <1>1, <1>2, <2>2 DEF Start
    <3>2. /\ Alike(game, new) /\ new.hand = game.hand
      BY <1>2 DEF Alike, Game
    <3> HIDE DEF new, num
    <3>3. \A g \in DOMAIN glist' : g \in DOMAIN glist /\ Alike(glist[g], glist'[g]) /\ glist'[g].hand = glist[g].hand
      <4>1. DOMAIN glist' = DOMAIN glist /\ glist'[num] = new /\ \A g \in DOMAIN glist : g # num => glist'[g] = glist[g]
        BY <1>1, <3>1
      <4>2. \A g \in DOMAIN glist : Alike(glist[g], glist[g])
        BY DEF Alike
      <4>3. QED
        BY <1>2, <3>2, <4>1, <4>2
    <3>4. \A c \in User : Kin(c)
      BY <3>1, <3>3, KinKept DEF Alike
    <3>5. GoOn
      BY <3>3 DEF GoOn
    <3>6. \A c \in User : Quiet(c) /\ Says(c)
      <4>1. game.id \in Nat /\ game.id <= games
        BY <1>1, <1>2 DEF Rounds, OfGames, Ids, TableTypes
      <4>2. PICK p \in GameReply : /\ p = [Packet("gamestart", opp) EXCEPT !.round = 1, !.game = game.id]
                                   /\ p.type = "gamestart" /\ p.game = game.id
        BY <4>1, StartPacket
      <4>3. SendTo(n, p)
        BY <3>1, <4>2, Zenon
      <4>4. QED
        BY <4>1, <4>2, <4>3, SaidQuietly
    <3>7. QED
      BY <3>4, <3>5, <3>6
  <2>3. CASE Refused(n, Mine(n), opp)
    <3>1. /\ glist' = Erased(num)
          /\ ulist' = [u \in DOMAIN ulist \cup {n, opp} |->
                         IF u \notin DOMAIN ulist THEN LoggedIn
                         ELSE [ulist[u] EXCEPT !.gid = IF u \in {n, opp} THEN -1 ELSE @]]
          /\ SendTo(n, Packet("gamerefuse", opp))
      BY <1>1, <2>3 DEF Refused
    <3>2. Ended(n, opp, num)
      BY <1>1, <3>1, BothForget DEF TableTypes
    <3>3. GoOn /\ \A c \in User : Kin(c)
      BY <3>2, GameGone
    <3>4. \A c \in User : Quiet(c) /\ Says(c)
      BY <3>1, PlainSaid
    <3>5. QED
      BY <3>3, <3>4
  <2>4. CASE Idle(n, Mine(n), opp)
    <3>1. UNCHANGED <<ulist, glist, out>>
      BY <2>4 DEF Idle
    <3>2. \A c \in User : Kin(c)
      BY <3>1, KinKept
    <3>3. GoOn
      BY <3>1 DEF GoOn, Alike
    <3>4. QED
      BY <3>1, <3>2, <3>3, SaidQuietly
  <2>5. QED
    BY <2>1, <2>2, <2>3, <2>4
<1>5. QED
  BY <1>3, <1>4, ThreadKeeps

\* The thread of n tells it that the opponent has quit: the game is gone, and
\* what n is still owed of it comes first.
LEMMA QuittedRounds ==
  ASSUME GameInv, Rounds, ~intruded, UNCHANGED clientVars, UNCHANGED <<named, inbox, games>>,
         NEW n \in User, Live(n), looking[n] = ulist[n].gid, NEW opp \in Names, opp # n,
         Quitted(n, Mine(n), opp)
  PROVE  Rounds'
<1> DEFINE num == ulist[n].gid
<1>1. /\ n \in named /\ TableTypes /\ n \in Names /\ looking[n] = num
  BY DEF Live, GameInv, TableTypes, Names
<1>2. /\ glist' = Erased(num) /\ ulist' = With(ulist, {n, opp}, LoggedIn)
      /\ SendTo(n, Packet("gamequit", opp))
  BY <1>1 DEF Quitted
<1>3. Ended(n, opp, num)
  BY <1>1, <1>2, BothForget DEF TableTypes
<1>4. GoOn /\ (\A c \in User : Kin(c)) /\ ~Live(n)'
  BY <1>1, <1>3, GameGone
<1>5. \A c \in User : Waits(c) /\ Attended(c)
  BY DEF clientVars, Waits, Attended, Rounds, Plain, OffIs
<1>6. PICK p \in GameReply : p = Packet("gamequit", opp)
  BY PlainPackets
<1>7. /\ p.type = "gamequit" /\ p.game = 0 /\ 0 <= games
  BY <1>1, <1>6 DEF Packet, TableTypes
<1>8. out'[n] = Append(out[n], p) /\ (\A c \in User : c # n => out'[c] = out[c]) /\ out[n] \in Seq(GameReply)
  <2>1. out \in [User -> Seq(GameReply)]
    BY DEF GameInv, ClientTypes
  <2>2. SendTo(n, p)
    BY <1>2, <1>6, Zenon
  <2>3. QED
    BY <2>1, <2>2 DEF SendTo
<1>9. \A c \in User : Says(c) /\ (c # n => Quiet(c))
  BY <1>7, <1>8 DEF Says, Quiet
<1>10. /\ DOMAIN out[n] \subseteq DOMAIN out'[n]
       /\ \A i \in DOMAIN out[n] : i \in Nat /\ i < Len(out[n]) + 1 /\ out'[n][i] = out[n][i]
       /\ \A i \in DOMAIN out'[n] : i \in DOMAIN out[n] \/ (i = Len(out[n]) + 1 /\ out'[n][i].type = "gamequit")
  BY <1>7, <1>8, Grown
<1>11. Due(n)' = Due(n) /\ \A i \in Due(n) : i \in DOMAIN out[n] /\ i \in DOMAIN out'[n] /\ out'[n][i] = out[n][i]
  BY <1>10 DEF Due
<1>12. stage' = stage /\ seen' = seen /\ hand' = hand /\ inbox' = inbox
  BY DEF clientVars
<1>13. Side(n)'
  <2>1. ~Counted(n)' /\ ~Decided(n)' /\ (Handed(n)' <=> Handed(n))
    BY <1>4, <1>12 DEF Counted, Decided, Handed, Holds
  <2>2. ASSUME stage[n] # "off" PROVE HandIs(n)' /\ Once(n)'
    <3>1. HandIs(n) /\ Once(n)
      BY <2>2 DEF Rounds, Side
    <3>2. \A i \in Due(n) : \A j \in DOMAIN out'[n] : j < i => j \in DOMAIN out[n] /\ out'[n][j] = out[n][j]
      <4> SUFFICES ASSUME NEW i \in Due(n), NEW j \in DOMAIN out'[n], j < i
                   PROVE  j \in DOMAIN out[n] /\ out'[n][j] = out[n][j]
        OBVIOUS
      <4>1. i \in Nat /\ i < Len(out[n]) + 1 /\ Len(out[n]) + 1 \in Nat
        BY <1>8, <1>10, <1>11
      <4>2. j # Len(out[n]) + 1
        BY <4>1
      <4>3. QED
        BY <1>10, <4>2
    <3>3. \A i \in Due(n)' : /\ stage'[n] = "answered" /\ out'[n][i].game = seen'[n][1] /\ out'[n][i].round > 0
                             /\ \A j \in DOMAIN out'[n] : j < i => out'[n][j].type # "gamequit"
      BY <1>11, <1>12, <3>1, <3>2 DEF HandIs
    <3>4. Handed(n)' => \/ stage'[n] = "answered" /\ Head(inbox'[n]).ans = hand'[n] /\ Head(inbox'[n]).game = seen'[n][1]
                        \/ stage'[n] = "menu" /\ (Live(n)' => Mine(n)'.id # Head(inbox'[n]).game)
      BY <1>4, <1>12, <2>1, <3>1 DEF HandIs
    <3>5. HandIs(n)'
      BY <2>1, <3>3, <3>4 DEF HandIs
    <3>6. Once(n)'
      BY <1>11, <2>1, <3>1 DEF Once
    <3>7. QED
      BY <3>5, <3>6
  <2>3. QuitIs(n)'
    BY <1>4 DEF QuitIs
  <2>4. AcceptIs(n)'
    BY <1>12 DEF Rounds, Side, AcceptIs, Holds
  <2>5. QED
    BY <1>12, <2>2, <2>3, <2>4 DEF Side
<1>14. ASSUME NEW c \in User PROVE Results(c)' = Results(c)
  <2>1. CASE c # n
    BY <1>9, <1>12, <2>1, ResultsQuiet
  <2>2. CASE c = n
    <3>1. Playing(n)' = Playing(n)
      BY <1>12 DEF Playing
    <3>2. {<<out'[n][i].game, out'[n][i].round, hand'[n], out'[n][i].ans>> : i \in Due(n)'}
            = {<<out[n][i].game, out[n][i].round, hand[n], out[n][i].ans>> : i \in Due(n)}
      BY <1>11, <1>12
    <3>3. QED
      BY <1>12, <2>2, <3>1, <3>2 DEF Results
  <2>3. QED
    BY <2>1, <2>2
<1>15. OfGames'
  BY <1>4, <1>14, GamesKept DEF Rounds
<1>16. games' \in Nat /\ games <= games'
  BY <1>1 DEF TableTypes
<1>17. QED
  BY <1>4, <1>5, <1>9, <1>12, <1>13, <1>15, <1>16, ThreadSteps

\* What a look at the hands does to the game of n and opp.  The first of the two
\* that looks once both hands are there compares them.
Passed(game, new) == new.id = game.id /\ new.pl = game.pl /\ new.rdy = game.rdy
Compared(game, new, n, opp) ==
  /\ game.read[n] = 0 /\ game.read[opp] = 0
  /\ game.hand[n] # unknown /\ game.hand[opp] # unknown
  /\ new.hand[n] = unknown /\ new.hand[opp] = unknown
  /\ new.shown[n] = game.hand[n] /\ new.shown[opp] = game.hand[opp]
First(game, new, n, opp) ==
  /\ Passed(game, new) /\ new.round = game.round
  /\ new.read[n] = 2 /\ new.read[opp] = 1
  /\ \/ Compared(game, new, n, opp)
     \/ game.read[n] = 1 /\ game.read[opp] = 1 /\ new.hand = game.hand /\ new.shown = game.shown
Last(game, new, n, opp) ==
  /\ Passed(game, new) /\ new.round = game.round + 1
  /\ game.read[n] = 1 /\ game.read[opp] = 2 /\ new.read[n] = 0 /\ new.read[opp] = 0
  /\ new.hand = game.hand /\ new.shown = game.shown

\* EndRound compares the hands when nobody has been told yet and both are there.
LEMMA HandsCompared ==
  ASSUME NEW game \in Game, NEW n \in Names, NEW opp \in Names, n # opp, game.pl = {n, opp}
  PROVE  \/ EndRound(game, n) = game /\ (game.read[n] = 0 /\ game.read[opp] = 0 => unknown \in {game.hand[n], game.hand[opp]})
         \/ /\ EndRound(game, n) \in Game /\ EndRound(game, n).read[n] = 1 /\ EndRound(game, n).read[opp] = 1
            /\ Passed(game, EndRound(game, n)) /\ EndRound(game, n).round = game.round
            /\ Compared(game, EndRound(game, n), n, opp)
<1> DEFINE a == game.hand[n]
           b == game.hand[opp]
           clear == Cleared(game, n, opp)
           scored == [clear EXCEPT
                        !.score[n] = IF Beats(a, b) THEN @ + 1 ELSE @,
                        !.score[opp] = IF a # b /\ ~Beats(a, b) THEN @ + 1 ELSE @,
                        !.shown[n] = a, !.shown[opp] = b,
                        !.read[n] = 1, !.read[opp] = 1]
           joined == [game EXCEPT !.pl = @ \cup {n}]
<1>1. Min(game.pl \ {n}) = opp
  <2>1. game.pl \ {n} = {opp}
    OBVIOUS
  <2>2. Min({opp}) \in {opp}
    BY LeastName
  <2>3. QED
    BY <2>1, <2>2
<1>2. joined = game
  <2>1. game.pl \cup {n} = game.pl
    OBVIOUS
  <2>2. QED
    BY <2>1 DEF Game
<1>3. EndRound(game, n) = IF game.read[n] # 0 \/ game.read[opp] # 0 THEN game
                          ELSE IF unknown \in {a, b} THEN game ELSE scored
  <2> DEFINE result(o) ==
               IF game.read[n] # 0 \/ game.read[o] # 0 THEN game
               ELSE IF unknown \in {game.hand[n], game.hand[o]} THEN [game EXCEPT !.pl = @ \cup {n}]
               ELSE [Cleared(game, n, o) EXCEPT
                       !.score[n] = IF Beats(game.hand[n], game.hand[o]) THEN @ + 1 ELSE @,
                       !.score[o] = IF game.hand[n] # game.hand[o] /\ ~Beats(game.hand[n], game.hand[o]) THEN @ + 1 ELSE @,
                       !.shown[n] = game.hand[n], !.shown[o] = game.hand[o],
                       !.read[n] = 1, !.read[o] = 1]
             least == Min(game.pl \ {n})
  <2>1. EndRound(game, n) = result(least)
    BY Zenon DEF EndRound
  <2>2. result(opp) = IF game.read[n] # 0 \/ game.read[opp] # 0 THEN game
                      ELSE IF unknown \in {a, b} THEN joined ELSE scored
    OBVIOUS
  <2> HIDE DEF result, scored, joined, a, b
  <2>3. result(least) = result(opp)
    BY <1>1
  <2>4. QED
    BY <1>2, <2>1, <2>2, <2>3, Zenon
<1>4. a \in 0..3 /\ b \in 0..3 /\ unknown \in 0..3
  BY DEF Game, unknown
<1>5. /\ clear \in Game /\ Passed(game, clear) /\ clear.round = game.round
      /\ clear.hand[n] = unknown /\ clear.hand[opp] = unknown
  <2> DEFINE hd == [game.hand EXCEPT ![n] = unknown, ![opp] = unknown]
  <2>1. hd \in [Names -> 0..3] /\ hd[n] = unknown /\ hd[opp] = unknown
    BY <1>4 DEF Game
  <2>2. clear = [game EXCEPT !.hand = hd]
    BY DEF Cleared, Game
  <2> HIDE DEF hd, clear
  <2>3. QED
    BY <2>1, <2>2 DEF Passed, Game
<1> HIDE DEF clear
<1>6. /\ scored \in Game /\ Passed(game, scored) /\ scored.round = game.round
      /\ scored.hand[n] = unknown /\ scored.hand[opp] = unknown
      /\ scored.shown[n] = a /\ scored.shown[opp] = b
      /\ scored.read[n] = 1 /\ scored.read[opp] = 1
  <2> HIDE DEF a, b
  <2> DEFINE sc == [clear.score EXCEPT ![n] = IF Beats(a, b) THEN @ + 1 ELSE @,
                                       ![opp] = IF a # b /\ ~Beats(a, b) THEN @ + 1 ELSE @]
             sh == [clear.shown EXCEPT ![n] = a, ![opp] = b]
             rd == [clear.read EXCEPT ![n] = 1, ![opp] = 1]
  <2>1. sc \in [Names -> Nat]
    BY <1>5 DEF Game
  <2>2. sh \in [Names -> 0..3] /\ sh[n] = a /\ sh[opp] = b
    BY <1>4, <1>5 DEF Game
  <2>3. rd \in [Names -> 0..2] /\ rd[n] = 1 /\ rd[opp] = 1
    BY <1>5 DEF Game
  <2>4. scored = [clear EXCEPT !.score = sc, !.shown = sh, !.read = rd]
    BY <1>5 DEF Game
  <2> HIDE DEF sc, sh, rd, scored
  <2>5. QED
    BY <1>5, <2>1, <2>2, <2>3, <2>4 DEF Game, Passed
<1> HIDE DEF scored, joined
<1>7. CASE game.read[n] = 0 /\ game.read[opp] = 0 /\ unknown \notin {a, b}
  <2>1. EndRound(game, n) = scored
    BY <1>3, <1>7
  <2>2. Compared(game, scored, n, opp)
    BY <1>6, <1>7 DEF Compared
  <2>3. QED
    BY <1>6, <2>1, <2>2
<1>8. CASE ~(game.read[n] = 0 /\ game.read[opp] = 0 /\ unknown \notin {a, b})
  BY <1>3, <1>8
<1>9. QED
  BY <1>7, <1>8

\* What a look at the hands tells n, and what is left of the game.
LEMMA RoundCases ==
  ASSUME NEW game \in Game, NEW n \in Names, NEW opp \in Names, n # opp, game.pl = {n, opp}, ReadIs(game)
  PROVE  LET ended == EndRound(game, n)
             told == IF ended.read[n] = 1 THEN [ended EXCEPT !.read[n] = 2] ELSE ended
             next == IF told.read[n] = 2 /\ told.read[opp] = 2 THEN NextRound(told) ELSE told
         IN  \/ ended.read[n] # 1 /\ told = game /\ next = game
             \/ /\ ended.read[n] = 1 /\ ended.round = game.round /\ ended.shown[opp] = next.shown[opp]
                /\ (First(game, next, n, opp) /\ told.round = next.round) \/ Last(game, next, n, opp)
<1> DEFINE ended == EndRound(game, n)
           mark == [ended EXCEPT !.read[n] = 2]
           told == IF ended.read[n] = 1 THEN mark ELSE ended
           next == IF told.read[n] = 2 /\ told.read[opp] = 2 THEN NextRound(told) ELSE told
           compares == /\ ended.read[n] = 1 /\ ended.read[opp] = 1
                       /\ Passed(game, ended) /\ ended.round = game.round
                       /\ Compared(game, ended, n, opp)
<1>1. ended \in Game /\ (compares \/ (ended = game /\ (game.read[n] = 0 /\ game.read[opp] = 0 => unknown \in {game.hand[n], game.hand[opp]})))
  BY HandsCompared
<1>2. /\ game.read[n] \in 0..2 /\ game.read[opp] \in 0..2
      /\ game.read[opp] = 0 => game.read[n] = 0
      /\ ~(game.read[n] = 2 /\ game.read[opp] = 2)
  BY DEF Game, ReadIs
<1> HIDE DEF ended
<1>3. /\ mark \in Game /\ Passed(ended, mark) /\ mark.round = ended.round /\ mark.hand = ended.hand
      /\ mark.shown = ended.shown /\ mark.read[n] = 2 /\ mark.read[opp] = ended.read[opp]
  BY <1>1 DEF Game, Passed
<1> HIDE DEF mark
<1>4. CASE ended.read[n] # 1
  <2>1. ended = game
    BY <1>1, <1>4
  <2>2. told = game
    BY <1>4, <2>1
  <2>3. next = game
    BY <1>2, <2>2
  <2>4. QED
    BY <1>4, <2>2, <2>3 DEF told, next, mark, ended
<1>5. CASE ended.read[n] = 1 /\ ended.read[opp] # 2
  <2>1. told = mark
    BY <1>5
  <2>2. next = mark
    BY <1>3, <1>5, <2>1
  <2>3. First(game, mark, n, opp) /\ ended.round = game.round
    <3>1. CASE compares
      BY <1>3, <3>1 DEF First, Compared, Passed
    <3>2. CASE ended = game
      BY <1>2, <1>3, <1>5, <3>2 DEF First, Passed
    <3>3. QED
      BY <1>1, <3>1, <3>2
  <2>4. /\ ended.read[n] = 1 /\ ended.round = game.round /\ ended.shown[opp] = next.shown[opp]
        /\ First(game, next, n, opp) /\ told.round = next.round
    BY <1>3, <1>5, <2>1, <2>2, <2>3
  <2> HIDE DEF told, next
  <2>5. QED
    BY <2>4 DEF told, next, mark, ended
<1>6. CASE ended.read[n] = 1 /\ ended.read[opp] = 2
  <2>1. ended = game
    BY <1>1, <1>6
  <2>2. told = mark /\ mark.pl = {n, opp}
    BY <1>3, <1>6, <2>1 DEF Passed
  <2>3. next = NextRound(mark)
    BY <1>3, <1>6, <2>2
  <2> DEFINE p == P1(mark)
             q == P2(mark)
  <2>4. p \in {n, opp} /\ q \in {n, opp} /\ p # q
    <3>1. p \in mark.pl
      BY <2>2, LeastName DEF P1
    <3>2. mark.pl \ {p} # {}
      BY <2>2
    <3>3. q \in mark.pl \ {p}
      <4>1. mark.pl \ {p} \in SUBSET Names
        BY <2>2
      <4>2. QED
        BY <3>2, <4>1, LeastName DEF P2
    <3>4. QED
      BY <2>2, <3>1, <3>3
  <2>5. next = [mark EXCEPT !.round = @ + 1, !.read[p] = 0, !.read[q] = 0]
    BY <2>3 DEF NextRound
  <2> HIDE DEF p, q, next, told
  <2>6. /\ next.id = mark.id /\ next.pl = mark.pl /\ next.rdy = mark.rdy /\ next.round = mark.round + 1
        /\ next.hand = mark.hand /\ next.shown = mark.shown
        /\ next.read[n] = 0 /\ next.read[opp] = 0
    <3> DEFINE rd == [mark.read EXCEPT ![p] = 0, ![q] = 0]
    <3>1. rd[n] = 0 /\ rd[opp] = 0
      BY <1>3, <2>4 DEF Game
    <3>2. next = [mark EXCEPT !.round = mark.round + 1, !.read = rd]
      BY <1>3, <2>4, <2>5 DEF Game
    <3> HIDE DEF rd
    <3>3. QED
      BY <1>3, <3>1, <3>2 DEF Game
  <2>7. Last(game, next, n, opp)
    BY <1>3, <1>6, <2>1, <2>6 DEF Last, Passed
  <2>8. /\ ended.read[n] = 1 /\ ended.round = game.round /\ ended.shown[opp] = next.shown[opp]
        /\ Last(game, next, n, opp)
    BY <1>3, <1>6, <2>1, <2>6, <2>7
  <2>9. QED
    BY <2>8 DEF told, next, mark, ended
<1>7. QED
  BY <1>4, <1>5, <1>6

\* What a look at the hands does to the tables.
LEMMA RoundStep ==
  ASSUME GameInv, Rounds, ~intruded, NEW n \in User, Live(n), looking[n] = ulist[n].gid,
         NEW opp \in Names, opp # n, Mine(n).pl = {n, opp}, Round(n, Mine(n), opp)
  PROVE  \/ UNCHANGED <<ulist, glist, out>>
         \/ \E new : \E p \in GameReply :
              /\ First(Mine(n), new, n, opp) \/ Last(Mine(n), new, n, opp)
              /\ SendTo(n, p) /\ p.type = "gameanswer" /\ p.ans = new.shown[opp]
              /\ p.round = Mine(n).round /\ p.game = Mine(n).id
              /\ \/ glist' = [glist EXCEPT ![ulist[n].gid] = new] /\ UNCHANGED ulist
                 \/ Last(Mine(n), new, n, opp) /\ Ended(n, opp, ulist[n].gid)
<1> DEFINE game == Mine(n)
           num == ulist[n].gid
           ended == EndRound(game, n)
           told == IF ended.read[n] = 1 THEN [ended EXCEPT !.read[n] = 2] ELSE ended
           next == IF told.read[n] = 2 /\ told.read[opp] = 2 THEN NextRound(told) ELSE told
           packet == [Packet("gameanswer", opp) EXCEPT !.ans = ended.shown[opp], !.round = ended.round,
                                                         !.game = game.id]
           over == next.round # told.round /\ (next.score[P1(next)] >= WIN \/ next.score[P2(next)] >= WIN)
<1>1. /\ TableTypes /\ n \in Names /\ n \in named /\ num \in DOMAIN glist /\ Mine(n) = glist[num]
  BY DEF GameInv, TableTypes, Names, Live, Mine
<1>2. game \in Game /\ ReadIs(game)
  BY <1>1, OwnGame DEF Rounds, OfGames
<1>3. /\ IF ended.read[n] = 1 THEN SendTo(n, packet) ELSE UNCHANGED out
      /\ IF over
         THEN /\ glist' = Erased(num)
              /\ ulist' = With(ulist, {n, opp}, LoggedIn)
         ELSE /\ next.round <= MaxRound
              /\ glist' = [glist EXCEPT ![num] = next]
              /\ UNCHANGED ulist
  BY Zenon DEF Round
<1>4. \/ ended.read[n] # 1 /\ told = game /\ next = game
      \/ /\ ended.read[n] = 1 /\ ended.round = game.round /\ ended.shown[opp] = next.shown[opp]
         /\ (First(game, next, n, opp) /\ told.round = next.round) \/ Last(game, next, n, opp)
  BY <1>1, <1>2, RoundCases
<1>5. ended \in Game
  BY <1>1, <1>2, HandsCompared
<1>6. /\ packet \in GameReply /\ packet.type = "gameanswer" /\ packet.ans = ended.shown[opp]
      /\ packet.round = ended.round /\ packet.game = game.id
  <2>1. ended.shown[opp] \in 0..3 /\ ended.round \in 0..MaxRound /\ game.id \in Nat
    BY <1>2, <1>5 DEF Game
  <2>2. PICK a \in 0..3, r \in 0..MaxRound, id \in Nat : a = ended.shown[opp] /\ r = ended.round /\ id = game.id
    BY <2>1
  <2> HIDE DEF ended, game, packet
  <2>3. packet = [Packet("gameanswer", opp) EXCEPT !.ans = a, !.round = r, !.game = id]
    BY <2>2, Zenon DEF packet
  <2>4. /\ packet \in GameReply /\ packet.type = "gameanswer" /\ packet.ans = a
        /\ packet.round = r /\ packet.game = id
    BY <2>3 DEF Packet, GameReply
  <2>5. QED
    BY <2>2, <2>4, Zenon
<1> HIDE DEF next, told, ended, packet
<1>7. CASE ended.read[n] # 1 /\ told = game /\ next = game
  <2>1. ~over
    BY <1>7
  <2>2. glist = [g \in DOMAIN glist |-> glist[g]]
    BY <1>1 DEF TableTypes, Numbered
  <2>3. glist' = [glist EXCEPT ![num] = glist[num]] /\ UNCHANGED ulist /\ UNCHANGED out
    BY <1>1, <1>3, <1>7, <2>1
  <2>4. glist' = glist
    BY <2>2, <2>3
  <2>5. QED
    BY <2>3, <2>4
<1>8. CASE /\ ended.read[n] = 1 /\ ended.round = game.round /\ ended.shown[opp] = next.shown[opp]
           /\ (First(game, next, n, opp) /\ told.round = next.round) \/ Last(game, next, n, opp)
  <2>1. /\ SendTo(n, packet) /\ packet.ans = next.shown[opp] /\ packet.round = game.round
        /\ First(game, next, n, opp) \/ Last(game, next, n, opp)
    BY <1>3, <1>6, <1>8
  <2>2. CASE over
    <3>1. Last(game, next, n, opp)
      BY <1>8, <2>2
    <3>2. Ended(n, opp, num)
      <4>1. glist' = Erased(num) /\ ulist' = With(ulist, {n, opp}, LoggedIn)
        BY <1>3, <2>2
      <4>2. QED
        BY <1>1, <4>1, BothForget DEF TableTypes
    <3>3. QED
      BY <1>6, <2>1, <3>1, <3>2
  <2>3. CASE ~over
    <3>1. glist' = [glist EXCEPT ![num] = next] /\ UNCHANGED ulist
      BY <1>3, <2>3
    <3>2. QED
      BY <1>6, <2>1, <3>1
  <2>4. QED
    BY <2>2, <2>3
<1>9. QED
  BY <1>4, <1>7, <1>8

\* A look at the hands that are compared, or at the result: n is told the hand
\* of its opponent against its own, and the opponent will be, or was, told the same.
LEMMA RoundRounds ==
  ASSUME GameInv, Rounds, ~intruded, UNCHANGED clientVars, UNCHANGED <<named, inbox, games>>,
         NEW n \in User, Live(n), looking[n] = ulist[n].gid,
         NEW opp \in Names, opp # n, Mine(n).pl = {n, opp}, Round(n, Mine(n), opp)
  PROVE  Rounds'
<1> DEFINE num == ulist[n].gid
<1>1. /\ TableTypes /\ n \in Names /\ n \in named /\ num \in DOMAIN glist /\ games \in Nat /\ named \subseteq DOMAIN ulist
  BY DEF GameInv, TableTypes, Names, Live
<1>2. PICK game \in Game : game = Mine(n)
  BY <1>1, OwnGame
<1>3. /\ game = glist[num] /\ game.pl = {n, opp} /\ ReadIs(game) /\ ReadyIs(game)
      /\ game.id \in Nat /\ game.id <= games /\ game.id > 0 /\ game.round \in Nat /\ game.round > 0
      /\ opp \notin game.rdy
  <2>1. game = glist[num] /\ game.pl = {n, opp}
    BY <1>2 DEF Mine
  <2>2. ReadIs(game) /\ ReadyIs(game) /\ game.id \in 1..games
    BY <1>1, <2>1 DEF Rounds, OfGames, Ids
  <2>3. game.round # 0 /\ opp \notin game.rdy
    BY <1>2 DEF Round
  <2>4. game.round \in Nat
    BY GameAssumption DEF Game
  <2>5. QED
    BY <1>1, <2>1, <2>2, <2>3, <2>4
<1>4. stage' = stage /\ seen' = seen /\ hand' = hand /\ inbox' = inbox /\ named' = named /\ games' = games
  BY DEF clientVars
<1>5. \A c \in User : Waits(c) /\ Attended(c)
  BY DEF clientVars, Waits, Attended, Rounds, Plain, OffIs
<1>6. CASE UNCHANGED <<ulist, glist, out>>
  <2>1. (\A c \in User : Kin(c)) /\ GoOn /\ \A c \in User : Quiet(c) /\ Says(c)
    BY <1>4, <1>6, KinKept, SaidQuietly DEF GoOn, Alike
  <2>2. QED
    BY <1>4, <1>5, <2>1, ThreadKeeps
<1>7. ASSUME NEW new, NEW p \in GameReply,
             First(game, new, n, opp) \/ Last(game, new, n, opp),
             SendTo(n, p), p.type = "gameanswer", p.ans = new.shown[opp], p.round = game.round, p.game = game.id,
             \/ glist' = [glist EXCEPT ![num] = new] /\ UNCHANGED ulist
             \/ Last(game, new, n, opp) /\ Ended(n, opp, num)
      PROVE  Rounds'
  <2> DEFINE result == <<game.id, game.round, hand[n], new.shown[opp]>>
             kept == glist' = [glist EXCEPT ![num] = new] /\ UNCHANGED ulist
  <2>1. out'[n] = Append(out[n], p) /\ (\A c \in User : c # n => out'[c] = out[c]) /\ out[n] \in Seq(GameReply)
    BY <1>7 DEF SendTo, GameInv, ClientTypes
  <2>2. \A c \in User : Says(c) /\ (c # n => Quiet(c))
    BY <1>3, <1>7, <2>1 DEF Says, Quiet
  <2>3. /\ new.id = game.id /\ new.pl = {n, opp} /\ new.rdy = game.rdy
    BY <1>3, <1>7 DEF First, Last, Passed
  <2>4. /\ kept => DOMAIN glist' = DOMAIN glist /\ glist'[num] = new
        /\ ~kept => DOMAIN glist' = DOMAIN glist \ {num}
        /\ \A g \in DOMAIN glist' : g \in DOMAIN glist /\ (g # num => glist'[g] = glist[g])
    <3>1. CASE kept
      BY <1>1, <3>1
    <3>2. CASE ~kept
      BY <1>1, <1>7, <3>2, GameGone
    <3>3. QED
      BY <3>1, <3>2
  <2> HIDE DEF kept
  <2>5. ASSUME NEW c \in User, c # n PROVE Kin(c)
    <3>1. CASE ~kept
      BY <1>1, <1>7, <3>1, GameGone DEF kept
    <3>2. CASE kept /\ c \in named /\ ulist[c].gid = num
      <4>1. c = opp
        <5>1. Live(c) /\ Mine(c) = game
          BY <1>1, <1>3, <3>2 DEF Live, Mine
        <5>2. c \in game.pl
          BY <3>2, <5>1, OwnGame
        <5>3. QED
          BY <1>3, <2>5, <5>2
      <4>2. /\ Live(c) /\ Live(c)' /\ Mine(c) = game /\ Mine(c)' = new
        BY <1>1, <1>3, <1>4, <2>4, <3>2 DEF Live, Mine, kept
      <4>3. CASE First(game, new, n, opp)
        <5>1. CASE Compared(game, new, n, opp)
          BY <2>3, <4>1, <4>2, <5>1 DEF Kin, Compared, Counted
        <5>2. CASE game.read[n] = 1 /\ game.read[opp] = 1 /\ new.hand = game.hand /\ new.shown = game.shown
          BY <2>3, <4>1, <4>2, <5>2 DEF Kin
        <5>3. QED
          BY <4>3, <5>1, <5>2 DEF First
      <4>4. CASE Last(game, new, n, opp)
        BY <2>3, <4>1, <4>2, <4>4 DEF Kin, Last
      <4>5. QED
        BY <1>7, <4>3, <4>4
    <3>3. CASE kept /\ ~(c \in named /\ ulist[c].gid = num)
      BY <1>4, <2>4, <3>3 DEF Kin, Live, Mine, kept
    <3>4. QED
      BY <3>1, <3>2, <3>3
  <2>6. /\ DOMAIN out[n] \subseteq DOMAIN out'[n] /\ Len(out[n]) + 1 \in DOMAIN out'[n] /\ out'[n][Len(out[n]) + 1] = p
        /\ \A i \in DOMAIN out[n] : i \in Nat /\ i < Len(out[n]) + 1 /\ out'[n][i] = out[n][i]
        /\ \A i \in DOMAIN out'[n] : i \in DOMAIN out[n] \/ i = Len(out[n]) + 1
        /\ Len(out[n]) + 1 \in Nat
    BY <2>1, Grown
  <2>7. Due(n)' = Due(n) \cup {Len(out[n]) + 1} /\ \A i \in Due(n) : i \in DOMAIN out[n]
    BY <1>7, <2>6 DEF Due
  <2>8. /\ Live(n) /\ Mine(n) = game
        /\ Counted(n) \/ Decided(n)
        /\ Live(n)' => kept /\ Mine(n)' = new
        /\ (~Counted(n)' \/ (Counted(n) /\ Decided(n))) /\ ~Decided(n)'
    <3>1. Counted(n) \/ Decided(n)
      BY <1>2, <1>7 DEF First, Last, Compared, Counted, Decided
    <3>2. ~kept => ~Live(n)'
      BY <1>1, <1>7, GameGone DEF kept
    <3>3. kept => Live(n)' /\ Mine(n)' = new
      BY <1>1, <1>4, <2>4 DEF Live, Mine, kept
    <3>4. ~Decided(n)'
      BY <1>7, <3>2, <3>3 DEF First, Last, Decided
    <3>5. ~Counted(n)' \/ (Counted(n) /\ Decided(n))
      BY <1>2, <1>7, <3>2, <3>3 DEF First, Last, Compared, Decided, Counted
    <3>6. QED
      BY <1>2, <3>1, <3>2, <3>3, <3>4, <3>5
  <2>9. ASSUME stage[n] # "off"
        PROVE  /\ stage[n] = "answered" /\ seen[n][1] = game.id /\ hand[n] = new.shown[n]
               /\ Due(n) = {} /\ ~Handed(n) /\ ~Counted(n)' /\ ~Decided(n)'
               /\ \A i \in DOMAIN out[n] : out[n][i].type # "gamequit"
    <3>1. HandIs(n) /\ Once(n) /\ QuitIs(n)
      BY <2>9 DEF Rounds, Side
    <3>2. Due(n) = {} /\ ~Handed(n) /\ ~(Counted(n) /\ Decided(n))
      BY <2>8, <3>1 DEF Once
    <3>3. stage[n] = "answered" /\ seen[n][1] = game.id
      BY <2>8, <3>1 DEF HandIs
    <3>4. hand[n] = new.shown[n]
      <4>1. CASE Compared(game, new, n, opp)
        <5>1. Counted(n)
          BY <2>8, <4>1 DEF Compared, Counted
        <5>2. QED
          BY <2>8, <3>1, <4>1, <5>1 DEF Compared, HandIs
      <4>2. CASE game.read[n] = 1 /\ new.shown = game.shown
        <5>1. Decided(n)
          BY <2>8, <4>2 DEF Decided
        <5>2. QED
          BY <2>8, <3>1, <4>2, <5>1 DEF HandIs
      <4>3. QED
        BY <1>7, <4>1, <4>2 DEF First, Last
    <3>5. \A i \in DOMAIN out[n] : out[n][i].type # "gamequit"
      BY <2>8, <3>1, <3>3 DEF QuitIs
    <3>6. QED
      BY <2>8, <3>2, <3>3, <3>4, <3>5
  <2>10. Side(n)'
    <3>1. ASSUME stage[n] # "off" PROVE HandIs(n)' /\ Once(n)'
      <4>1. ~Handed(n)' /\ Due(n)' = {Len(out[n]) + 1}
        BY <1>4, <2>7, <2>9, <3>1 DEF Handed, Holds
      <4>2. \A j \in DOMAIN out'[n] : j < Len(out[n]) + 1 => out'[n][j].type # "gamequit"
        BY <2>6, <2>9, <3>1
      <4>3. HandIs(n)'
        BY <1>3, <1>4, <1>7, <2>6, <2>9, <3>1, <4>1, <4>2 DEF HandIs
      <4>4. Once(n)'
        BY <2>9, <3>1, <4>1 DEF Once
      <4>5. QED
        BY <4>3, <4>4
    <3>2. QuitIs(n)'
      <4> SUFFICES ASSUME NEW i \in DOMAIN out'[n], out'[n][i].type = "gamequit", Live(n)'
                   PROVE  /\ seen'[n][1] # Mine(n)'.id
                          /\ \A j \in DOMAIN out'[n] : j < i /\ out'[n][j].type = "gamestart" => out'[n][j].game # Mine(n)'.id
        BY DEF QuitIs
      <4>1. i \in DOMAIN out[n] /\ out[n][i].type = "gamequit"
        BY <1>7, <2>6
      <4>2. \A j \in DOMAIN out'[n] : j < i => j \in DOMAIN out[n] /\ out'[n][j] = out[n][j]
        <5> SUFFICES ASSUME NEW j \in DOMAIN out'[n], j < i PROVE j \in DOMAIN out[n] /\ out'[n][j] = out[n][j]
          OBVIOUS
        <5>1. i \in Nat /\ i < Len(out[n]) + 1
          BY <2>6, <4>1
        <5>2. j # Len(out[n]) + 1
          BY <2>6, <5>1
        <5>3. QED
          BY <2>6, <5>2
      <4>3. Mine(n)'.id = Mine(n).id /\ QuitIs(n)
        BY <2>3, <2>8 DEF Rounds, Side
      <4>4. QED
        BY <1>4, <2>8, <4>1, <4>2, <4>3 DEF QuitIs
    <3>3. AcceptIs(n)'
      BY <1>4 DEF Rounds, Side, AcceptIs, Holds
    <3>4. QED
      BY <1>4, <3>1, <3>2, <3>3 DEF Side
  <2>11. /\ \A c \in User : c # n => Results(c)' = Results(c)
         /\ \A x \in Results(n)' : x \in Results(n) \/ (stage[n] = "answered" /\ x = result)
    <3>1. \A c \in User : c # n => Results(c)' = Results(c)
      BY <1>4, <2>2, ResultsQuiet
    <3>2. ASSUME NEW x \in Results(n)' PROVE x \in Results(n) \/ (stage[n] = "answered" /\ x = result)
      <4>1. CASE Playing(n)' /\ seen'[n][2] > 0 /\ x = seen'[n]
        BY <1>4, <4>1 DEF Playing, Results
      <4>2. CASE stage'[n] = "answered" /\ \E i \in Due(n)' : x = <<out'[n][i].game, out'[n][i].round, hand'[n], out'[n][i].ans>>
        <5>1. PICK i \in Due(n)' : x = <<out'[n][i].game, out'[n][i].round, hand'[n], out'[n][i].ans>>
          BY <4>2
        <5>2. CASE i \in Due(n)
          <6>1. x = <<out[n][i].game, out[n][i].round, hand[n], out[n][i].ans>>
            BY <1>4, <2>6, <2>7, <5>1, <5>2
          <6>2. QED
            BY <1>4, <4>2, <5>2, <6>1 DEF Results
        <5>3. CASE i = Len(out[n]) + 1
          BY <1>4, <1>7, <2>6, <4>2, <5>1, <5>3
        <5>4. QED
          BY <2>7, <5>2, <5>3
      <4>3. QED
        BY <3>2, <4>1, <4>2 DEF Results
    <3>3. QED
      BY <3>1, <3>2
  <2>12. stage[n] = "answered" => result = <<game.id, game.round, new.shown[n], new.shown[opp]>>
    BY <2>9
  <2>13. \A c \in User : ResultIs(c) /\ \A x \in Results(c) : x[1] = game.id => Fits(c, x, game)
    BY <1>1, <1>3 DEF Rounds, OfGames, ResultIs
  <2>14. OfGames'
    <3>1. Ids'
      BY <1>4, <1>1, <1>3, <2>3, <2>4 DEF Rounds, OfGames, Ids
    <3>2. ASSUME NEW d \in User, d # n, NEW y \in Results(d), y[1] = game.id, y[2] = game.round
          PROVE  y[3] = new.shown[opp] /\ y[4] = new.shown[n]
      <4>1. Fits(d, y, game)
        BY <2>13, <3>2
      <4>2. d = opp /\ game.read[opp] = 2 /\ y[3] = game.shown[opp] /\ y[4] = game.shown[n]
        BY <1>3, <3>2, <4>1 DEF Fits
      <4>3. Last(game, new, n, opp)
        BY <1>7, <4>2 DEF First, Compared
      <4>4. QED
        BY <4>2, <4>3 DEF Last
    <3>3. Mirrored'
      <4> SUFFICES ASSUME NEW c \in User, NEW d \in User, c # d, NEW x \in Results(c)', NEW y \in Results(d)',
                          x[1] = y[1], x[2] = y[2]
                   PROVE  x[3] = y[4] /\ x[4] = y[3]
        BY DEF Mirrored
      <4>1. CASE x \in Results(c) /\ y \in Results(d)
        BY <4>1 DEF Rounds, OfGames, Mirrored
      <4>2. CASE x \notin Results(c)
        <5>1. c = n /\ x = <<game.id, game.round, new.shown[n], new.shown[opp]>> /\ y \in Results(d)
          BY <2>11, <2>12, <4>2
        <5>2. x[1] = game.id /\ x[2] = game.round /\ x[3] = new.shown[n] /\ x[4] = new.shown[opp]
          BY <5>1
        <5>3. QED
          BY <3>2, <5>1, <5>2
      <4>3. CASE y \notin Results(d)
        <5>1. d = n /\ y = <<game.id, game.round, new.shown[n], new.shown[opp]>> /\ x \in Results(c)
          BY <2>11, <2>12, <4>3
        <5>2. y[1] = game.id /\ y[2] = game.round /\ y[3] = new.shown[n] /\ y[4] = new.shown[opp]
          BY <5>1
        <5>3. QED
          BY <3>2, <5>1, <5>2
      <4>4. QED
        BY <4>1, <4>2, <4>3
    <3>4. ASSUME NEW c \in User PROVE ResultIs(c)'
      <4> SUFFICES ASSUME NEW x \in Results(c)', NEW g \in DOMAIN glist', glist'[g].id = x[1]
                   PROVE  Fits(c, x, glist'[g])
        BY DEF ResultIs
      <4>1. g \in DOMAIN glist /\ (g # num => glist'[g] = glist[g])
        BY <2>4
      <4>2. CASE x \in Results(c) /\ g # num
        BY <2>13, <4>1, <4>2 DEF ResultIs
      <4>3. CASE x \in Results(c) /\ g = num
        <5>1. glist'[g] = new /\ x[1] = game.id
          BY <2>3, <2>4, <4>3
        <5>2. Fits(c, x, game)
          BY <2>13, <4>3, <5>1
        <5>3. x[2] \in Nat
          BY <4>3, ResultFacts DEF Rounds, Plain
        <5>4. CASE First(game, new, n, opp)
          <6>1. c \in new.pl /\ x[2] <= new.round /\ x[2] # new.round
            BY <1>3, <2>3, <5>2, <5>4 DEF Fits, First, Compared
          <6>2. QED
            BY <5>1, <6>1 DEF Fits
        <5>5. CASE Last(game, new, n, opp)
          <6>1. c \in new.pl /\ x[2] <= new.round /\ x[2] # new.round
            BY <1>3, <2>3, <5>2, <5>3, <5>5 DEF Fits, Last
          <6>2. QED
            BY <5>1, <6>1 DEF Fits
        <5>6. QED
          BY <1>7, <5>4, <5>5
      <4>4. CASE x \notin Results(c)
        <5>1. c = n /\ x = <<game.id, game.round, new.shown[n], new.shown[opp]>>
          BY <2>11, <2>12, <4>4
        <5>2. x[1] = game.id /\ x[2] = game.round /\ x[3] = new.shown[n] /\ x[4] = new.shown[opp]
          BY <5>1
        <5>3. g = num
          BY <1>1, <1>3, <4>1, <5>2 DEF Rounds, OfGames, Ids
        <5>4. glist'[g] = new
          BY <2>4, <5>3
        <5>5. CASE First(game, new, n, opp)
          <6>1. new.round = game.round /\ new.read[n] = 2
            BY <5>5 DEF First
          <6>2. QED
            BY <1>3, <2>3, <5>1, <5>2, <5>4, <6>1 DEF Fits
        <5>6. CASE Last(game, new, n, opp)
          <6>1. x[2] <= new.round /\ x[2] # new.round
            BY <1>3, <5>2, <5>6 DEF Last
          <6>2. QED
            BY <2>3, <5>1, <5>4, <6>1 DEF Fits
        <5>7. QED
          BY <1>7, <5>5, <5>6
      <4>5. QED
        BY <4>2, <4>3, <4>4
    <3>5. ReadIs(new)
      BY <2>3, <1>7 DEF ReadIs, First, Last
    <3>6. ReadyIs(new)'
      <4>1. ASSUME NEW c \in new.rdy
            PROVE  /\ c = n /\ First(game, new, n, opp) => new.read[c] = 2 /\ new.read[opp] = 1
                   /\ c = n /\ First(game, new, n, opp)
        <5>1. c \in game.rdy /\ game.read[c] # 1
          BY <1>3, <2>3 DEF ReadyIs
        <5>2. c = n
          <6>1. Whole(game)
            BY <1>2, OwnGame, <1>1
          <6>2. QED
            BY <1>3, <5>1, <6>1 DEF Whole
        <5>3. QED
          BY <1>7, <5>1, <5>2 DEF First, Last
      <4>2. QED
        BY <1>3, <2>3, <4>1 DEF ReadyIs
    <3>7. ASSUME NEW g \in DOMAIN glist' PROVE ReadyIs(glist[g])' /\ ReadIs(glist[g])'
      <4>1. g \in DOMAIN glist /\ (g # num => glist'[g] = glist[g])
        BY <2>4
      <4>2. CASE g = num
        BY <2>4, <3>5, <3>6, <4>2
      <4>3. CASE g # num
        <5>1. glist'[g] = glist[g] /\ ReadyIs(glist[g]) /\ ReadIs(glist[g]) /\ glist[g].id # game.id
          BY <1>1, <1>3, <4>1, <4>3 DEF Rounds, OfGames, Ids
        <5>2. \A c \in User : (\E x \in Results(c)' : x[1] = glist[g].id) => \E x \in Results(c) : x[1] = glist[g].id
          <6> SUFFICES ASSUME NEW c \in User, NEW x \in Results(c)', x[1] = glist[g].id
                       PROVE  x \in Results(c)
            OBVIOUS
          <6>1. x = result => x[1] = game.id
            OBVIOUS
          <6>2. QED
            BY <2>11, <5>1, <6>1
        <5>3. QED
          BY <5>1, <5>2 DEF ReadyIs, ReadIs
      <4>4. QED
        BY <4>2, <4>3
    <3>8. QED
      BY <3>1, <3>3, <3>4, <3>7 DEF OfGames
  <2>15. QED
    BY <1>1, <1>4, <1>5, <2>2, <2>5, <2>10, <2>14, ThreadSteps
<1>8. QED
  <2>1. \/ UNCHANGED <<ulist, glist, out>>
        \/ \E new : \E p \in GameReply :
             /\ First(Mine(n), new, n, opp) \/ Last(Mine(n), new, n, opp)
             /\ SendTo(n, p) /\ p.type = "gameanswer" /\ p.ans = new.shown[opp]
             /\ p.round = Mine(n).round /\ p.game = Mine(n).id
             /\ \/ glist' = [glist EXCEPT ![ulist[n].gid] = new] /\ UNCHANGED ulist
                \/ Last(Mine(n), new, n, opp) /\ Ended(n, opp, ulist[n].gid)
    BY RoundStep
  <2>2. QED
    BY <1>2, <1>6, <1>7, <2>1, Zenon

\* A thread's look at the game of its client, whatever it finds there.
LEMMA LookRounds ==
  ASSUME GameInv, Rounds, ~intruded', NEW n \in User, Look(n), UNCHANGED clientVars
  PROVE  Rounds'
<1> DEFINE opp == Oppo(Mine(n), n)
<1>1. /\ ~intruded /\ n \in named /\ Live(n) /\ looking[n] = ulist[n].gid /\ UNCHANGED <<named, inbox, games>>
      /\ \/ Ask(n, Mine(n), opp) \/ Start(n, Mine(n), opp) \/ Refused(n, Mine(n), opp)
         \/ Quitted(n, Mine(n), opp) \/ Round(n, Mine(n), opp) \/ Idle(n, Mine(n), opp)
  BY LookOwn, Zenon
<1>2. opp \in Names /\ opp # n /\ Mine(n).pl = {n, opp}
  BY <1>1, OwnGame
<1> HIDE DEF opp
<1>3. QED
  BY <1>1, <1>2, LookKeepsRounds, QuittedRounds, RoundRounds

\* A step of a thread of the server.
LEMMA ServerThreadRounds ==
  ASSUME GameInv, RoundsInv, NEW n \in User, ServerThread(n), UNCHANGED clientVars
  PROVE  RoundsInv'
<1> SUFFICES ASSUME ~intruded', ~late' PROVE Rounds'
  BY DEF RoundsInv
<1>1. ~intruded /\ ~late
  <2>1. intruded \in BOOLEAN /\ late \in BOOLEAN
    BY DEF GameInv, TableTypes
  <2>2. intruded' = intruded \/ \E more : intruded' = (intruded \/ more)
    BY Zenon DEF ServerThread, HandleLogin, HandleInvite, HandleAccept, HandleRefuse, HandleQuit, HandleAnswer,
           HandleExit, Marks, ReadGid, Look
  <2>3. late' = late \/ \E more : late' = (late \/ more)
    BY Zenon DEF ServerThread, HandleLogin, HandleInvite, HandleAccept, HandleRefuse, HandleQuit, HandleAnswer,
           HandleExit, Marks, ReadGid, Look
  <2>4. QED
    BY <2>1, <2>2, <2>3, Zenon
<1>2. Rounds
  BY <1>1 DEF RoundsInv
<1>3. QED
  BY <1>1, <1>2, LoginRounds, InviteRounds, AcceptRounds, MarkRounds, AnswerRounds, ExitRounds, ReadRounds, LookRounds
     DEF ServerThread

\* The entries of the server stay while a client takes a step.
LEMMA ServerStays ==
  ASSUME UNCHANGED serverVars, NEW c \in User
  PROVE  /\ UNCHANGED <<ulist, glist, named, games, intruded, late>>
         /\ (Live(c)' <=> Live(c)) /\ Mine(c)' = Mine(c)
         /\ (Counted(c)' <=> Counted(c)) /\ (Decided(c)' <=> Decided(c))
BY DEF serverVars, Live, Mine, Counted, Decided

\* What is left to show of a step of a client: its own part, and that it learns
\* of no result that was not on its way.
LEMMA ClientSteps ==
  ASSUME GameInv, Rounds, NEW c \in User, UNCHANGED serverVars,
         \A d \in User : d # c => /\ stage'[d] = stage[d] /\ seen'[d] = seen[d] /\ hand'[d] = hand[d] /\ oppo'[d] = oppo[d]
                                  /\ inbox'[d] = inbox[d] /\ out'[d] = out[d],
         Plain(c)', Side(c)', Results(c)' \subseteq Results(c)
  PROVE  Rounds'
<1>1. UNCHANGED <<ulist, glist, named, games>> /\ games \in Nat
  BY DEF serverVars, GameInv, TableTypes
<1>2. ASSUME NEW d \in User, d # c PROVE Plain(d)' /\ Side(d)' /\ Results(d)' = Results(d)
  <2>1. Waits(d) /\ Kin(d) /\ Quiet(d) /\ Says(d) /\ Attended(d)
    <3>1. Kin(d)
      BY <1>1, KinKept
    <3>2. QED
      BY <1>1, <1>2, <3>1 DEF Waits, Quiet, Says, Attended
  <2>2. Plain(d) /\ Side(d) /\ Tags(d)
    BY DEF Rounds, Plain
  <2>3. Side(d)'
    BY <2>1, <2>2, SideKept
  <2>4. Plain(d)'
    BY <1>1, <1>2, <2>1, <2>2, PlainKept
  <2>5. Results(d)' = Results(d)
    BY <1>2, <2>1, ResultsQuiet
  <2>6. QED
    BY <2>3, <2>4, <2>5
<1>3. GoOn
  BY <1>1 DEF GoOn, Alike
<1>4. OfGames'
  BY <1>1, <1>2, <1>3, GamesKept DEF Rounds
<1>5. QED
  BY <1>2, <1>4 DEF Rounds

\* Only a client that has answered has a hand with the server.
LEMMA Handless ==
  ASSUME NEW c \in User, Side(c), stage[c] \notin {"answered", "off"}
  PROVE  /\ ~Counted(c) /\ ~Decided(c) /\ Due(c) = {}
         /\ Handed(c) => stage[c] = "menu" /\ (Live(c) => Mine(c).id # Head(inbox[c]).game)
BY DEF Side, HandIs

\* A client whose hand was not with the server: after a step of the client it is
\* at most on its way there.
LEMMA HandlessSide ==
  ASSUME NEW c \in User, UNCHANGED serverVars, ~Counted(c), ~Decided(c), Due(c)' = {},
         Handed(c)' => \/ stage'[c] = "answered" /\ Head(inbox'[c]).ans = hand'[c] /\ Head(inbox'[c]).game = seen'[c][1]
                       \/ stage'[c] = "menu" /\ (Live(c) => Mine(c).id # Head(inbox'[c]).game)
  PROVE  HandIs(c)' /\ Once(c)'
<1>1. ~Counted(c)' /\ ~Decided(c)' /\ (Live(c)' <=> Live(c)) /\ Mine(c)' = Mine(c)
  BY ServerStays
<1>2. QED
  BY <1>1 DEF HandIs, Once

\* A packet to the server that is no hand, from a client that has not answered.
LEMMA PostedRounds ==
  ASSUME GameInv, Rounds, NEW c \in User, UNCHANGED <<serverVars, out, hand, seen>>,
         NEW p \in GameRequest, Sends(c, p), NEW s \in Stages, To(stage, c, s),
         oppo' = oppo \/ \E u \in User \ {c} : To(oppo, c, u),
         stage[c] \notin {"answered", "off"}, s \notin {"answered", "off"},
         Playing(c)' => Playing(c), p.game <= games,
         p.type \notin {"gameanswer", "eof"},
         p.type = "gameaccept" => s = "waiting" /\ p.u # c
  PROVE  Rounds'
<1>1. /\ c \in Names /\ stage \in [User -> Stages] /\ inbox \in [User -> Seq(GameRequest)] /\ oppo \in [User -> Names]
      /\ Plain(c) /\ Side(c)
  BY DEF GameInv, ClientTypes, Names, Rounds
<1>2. /\ inbox[c] = <<>> /\ inbox'[c] # <<>> /\ Head(inbox'[c]) = p /\ \A d \in User : d # c => inbox'[d] = inbox[d]
  BY <1>1, Posted
<1>3. stage'[c] = s /\ \A d \in User : d # c => stage'[d] = stage[d]
  BY <1>1 DEF To
<1>4. oppo'[c] # c /\ \A d \in User : d # c => oppo'[d] = oppo[d]
  BY <1>1 DEF To, Plain, OppoIs
<1>5. UNCHANGED serverVars /\ out' = out /\ hand' = hand /\ seen' = seen /\ UNCHANGED <<ulist, glist, named, games>>
  BY ServerStays
<1>6. ~Counted(c) /\ ~Decided(c) /\ Due(c) = {}
  BY <1>1, Handless
<1>7. Due(c)' = {} /\ ~Handed(c)'
  BY <1>2, <1>5, <1>6 DEF Due, Handed, Holds
<1>8. Side(c)'
  <2>1. HandIs(c)' /\ Once(c)'
    BY <1>5, <1>6, <1>7, HandlessSide
  <2>2. QuitIs(c)'
    BY <1>1, <1>5, ServerStays DEF Side, QuitIs
  <2>3. AcceptIs(c)'
    BY <1>2, <1>3 DEF AcceptIs, Holds
  <2>4. QED
    BY <2>1, <2>2, <2>3 DEF Side
<1>9. Plain(c)'
  <2>1. Tags(c)'
    BY <1>1, <1>2, <1>5 DEF Plain, Tags
  <2>2. OppoIs(c)'
    BY <1>1, <1>4, <1>5 DEF Plain, OppoIs
  <2>3. OffIs(c)' /\ BlankIs(c)'
    BY <1>1, <1>3, <1>5 DEF Plain, OffIs, BlankIs
  <2>4. QED
    BY <2>1, <2>2, <2>3 DEF Plain
<1>10. Results(c)' \subseteq Results(c)
  BY <1>3, <1>5 DEF Results, Playing
<1>11. QED
  BY <1>2, <1>3, <1>4, <1>5, <1>8, <1>9, <1>10, ClientSteps

\* What the person types, short of a hand.
LEMMA TypedRounds ==
  ASSUME GameInv, Rounds, NEW c \in User,
         TypeName(c) \/ Invite(c) \/ Accept(c) \/ Refuse(c) \/ QuitGame(c)
  PROVE  Rounds'
<1>1. /\ ClientTypes /\ c \in Names /\ oppo[c] \in Names /\ stage \in [User -> Stages] /\ 0 <= games
      /\ oppo[c] # c
  BY DEF GameInv, ClientTypes, Names, TableTypes, Rounds, Plain, OppoIs
<1>2. /\ "sent" \in Stages /\ "waiting" \in Stages /\ "menu" \in Stages
      /\ \A s \in {"sent", "waiting", "menu"} : s \notin {"answered", "off", "play", "over"}
  BY DEF Stages
<1>3. \A s \in {"sent", "waiting", "menu"} : To(stage, c, s) => ~Playing(c)'
  BY <1>1, <1>2 DEF To, Playing
<1>4. \A u \in Names : \A t \in {"login", "gamerequest", "gameaccept", "gamerefuse", "gamequit"} :
        /\ Packet(t, u) \in GameRequest /\ Packet(t, u).type = t /\ Packet(t, u).u = u
        /\ Packet(t, u).game <= games /\ t \notin {"gameanswer", "eof"}
  <2>1. \A u \in Names : \A t \in {"login", "gamerequest", "gameaccept", "gamerefuse", "gamequit"} :
          Packet(t, u) \in GameRequest
    BY PlainPackets
  <2>2. QED
    BY <1>1, <2>1 DEF Packet
<1>5. CASE TypeName(c)
  <2>1. /\ stage[c] = "login" /\ Sends(c, Packet("login", c)) /\ To(stage, c, "sent")
        /\ UNCHANGED <<serverVars, out, hand, seen>> /\ oppo' = oppo
    BY <1>5 DEF TypeName
  <2>2. QED
    BY <1>1, <1>2, <1>3, <1>4, <2>1, PostedRounds
<1>6. CASE Invite(c)
  <2>1. PICK u \in User \ {c} : Sends(c, Packet("gamerequest", u)) /\ To(oppo, c, u)
    BY <1>6 DEF Invite
  <2>2. stage[c] = "menu" /\ To(stage, c, "waiting") /\ UNCHANGED <<serverVars, out, hand, seen>> /\ u \in Names
    BY <1>6 DEF Invite, Names
  <2>3. QED
    BY <1>1, <1>2, <1>3, <1>4, <2>1, <2>2, PostedRounds
<1>7. CASE Accept(c)
  <2>1. /\ stage[c] = "menu" /\ Sends(c, Packet("gameaccept", oppo[c])) /\ To(stage, c, "waiting")
        /\ UNCHANGED <<serverVars, out, hand, seen>> /\ oppo' = oppo
    BY <1>7 DEF Accept
  <2>2. QED
    BY <1>1, <1>2, <1>3, <1>4, <2>1, PostedRounds
<1>8. CASE Refuse(c)
  <2>1. /\ stage[c] = "menu" /\ Sends(c, Packet("gamerefuse", oppo[c])) /\ stage' = stage
        /\ UNCHANGED <<serverVars, out, hand, seen>> /\ oppo' = oppo
    BY <1>8 DEF Refuse
  <2>2. To(stage, c, "menu")
    BY <1>1, <2>1 DEF To
  <2>3. QED
    BY <1>1, <1>2, <1>3, <1>4, <2>1, <2>2, PostedRounds
<1>9. CASE QuitGame(c)
  <2>1. /\ stage[c] = "play" /\ Sends(c, Packet("gamequit", c)) /\ To(stage, c, "menu")
        /\ UNCHANGED <<serverVars, out, hand, seen>> /\ oppo' = oppo
    BY <1>9 DEF QuitGame
  <2>2. QED
    BY <1>1, <1>2, <1>3, <1>4, <2>1, PostedRounds
<1>10. QED
  BY <1>5, <1>6, <1>7, <1>8, <1>9

\* The hand the person plays is for the game the client was last shown.
LEMMA PlayRounds ==
  ASSUME GameInv, Rounds, NEW c \in User, Play(c)
  PROVE  Rounds'
<1>1. PICK a \in Answer : /\ Sends(c, [Packet("gameanswer", c) EXCEPT !.ans = a, !.game = seen[c][1]])
                          /\ To(hand, c, a)
  BY DEF Play
<1>2. PICK p : p = [Packet("gameanswer", c) EXCEPT !.ans = a, !.game = seen[c][1]]
  OBVIOUS
<1>3. p.type = "gameanswer" /\ p.ans = a /\ p.game = seen[c][1]
  BY <1>2 DEF Packet
<1>4. /\ inbox \in [User -> Seq(GameRequest)] /\ stage \in [User -> Stages] /\ hand \in [User -> 0..3]
      /\ Plain(c) /\ Side(c)
  BY DEF GameInv, ClientTypes, Rounds
<1>5. inbox' = [inbox EXCEPT ![c] = <<p>>] /\ inbox[c] = <<>>
  BY <1>1, <1>2, Zenon DEF Sends
<1>6. /\ inbox'[c] # <<>> /\ Head(inbox'[c]) = p /\ \A d \in User : d # c => inbox'[d] = inbox[d]
  <2>1. <<p>> # <<>> /\ Head(<<p>>) = p
    OBVIOUS
  <2>2. inbox'[c] = <<p>> /\ \A d \in User : d # c => inbox'[d] = inbox[d]
    BY <1>4, <1>5
  <2>3. QED
    BY <2>1, <2>2, Zenon
<1>7. /\ hand'[c] = a /\ stage[c] = "play" /\ stage'[c] = "answered"
      /\ \A d \in User : d # c => hand'[d] = hand[d] /\ stage'[d] = stage[d]
  BY <1>1, <1>4 DEF Play, To
<1>8. UNCHANGED serverVars /\ out' = out /\ oppo' = oppo /\ seen' = seen /\ UNCHANGED <<ulist, glist, named, games>>
  <2>1. UNCHANGED <<serverVars, out, oppo, seen>>
    BY DEF Play
  <2>2. QED
    BY <2>1, ServerStays
<1>9. ~Counted(c) /\ ~Decided(c) /\ Due(c) = {}
  BY <1>4, <1>7, Handless
<1>10. Due(c)' = {}
  BY <1>8, <1>9 DEF Due
<1>11. Side(c)'
  <2>1. HandIs(c)' /\ Once(c)'
    BY <1>3, <1>6, <1>7, <1>8, <1>9, <1>10, HandlessSide
  <2>2. QuitIs(c)'
    BY <1>4, <1>8, ServerStays DEF Side, QuitIs
  <2>3. AcceptIs(c)'
    BY <1>3, <1>6 DEF AcceptIs, Holds
  <2>4. QED
    BY <2>1, <2>2, <2>3 DEF Side
<1>12. Plain(c)'
  <2>1. Tags(c)'
    BY <1>3, <1>4, <1>6, <1>8 DEF Plain, Tags
  <2>2. OppoIs(c)' /\ OffIs(c)' /\ BlankIs(c)'
    BY <1>4, <1>7, <1>8 DEF Plain, OppoIs, OffIs, BlankIs
  <2>3. QED
    BY <2>1, <2>2 DEF Plain
<1>13. Results(c)' \subseteq Results(c)
  BY <1>7, <1>8, <1>10 DEF Results, Playing
<1>14. QED
  BY <1>6, <1>7, <1>8, <1>11, <1>12, <1>13, ClientSteps

\* A client that starts: its user is not known to the server any more.
LEMMA ConnectRounds ==
  ASSUME GameInv, Rounds, NEW c \in User, Connect(c)
  PROVE  Rounds'
<1>1. /\ stage \in [User -> Stages] /\ out \in [User -> Seq(GameReply)] /\ Plain(c)
  BY DEF GameInv, ClientTypes, Rounds
<1>2. /\ stage[c] = "off" /\ inbox[c] = <<>> /\ UNCHANGED serverVars /\ inbox' = inbox /\ oppo' = oppo /\ hand' = hand /\ seen' = seen
      /\ stage'[c] = "login" /\ out'[c] = <<>> /\ \A d \in User : d # c => stage'[d] = stage[d] /\ out'[d] = out[d]
  BY <1>1 DEF Connect, To
<1>3. UNCHANGED <<ulist, glist, named, games>>
  BY <1>2, ServerStays
<1>4. c \notin named /\ DOMAIN out'[c] = {}
  BY <1>1, <1>2 DEF Plain, OffIs
<1>5. ~Counted(c) /\ ~Decided(c) /\ Due(c)' = {} /\ ~Handed(c)'
  BY <1>2, <1>4 DEF Counted, Decided, Live, Due, Handed, Holds
<1>6. Side(c)'
  <2>1. HandIs(c)' /\ Once(c)'
    BY <1>2, <1>5, HandlessSide
  <2>2. QuitIs(c)' /\ AcceptIs(c)'
    BY <1>2, <1>4 DEF QuitIs, AcceptIs, Holds
  <2>3. QED
    BY <2>1, <2>2 DEF Side
<1>7. Plain(c)'
  BY <1>1, <1>2, <1>3, <1>4 DEF Plain, Tags, OppoIs, OffIs, BlankIs
<1>8. Results(c)' \subseteq Results(c)
  BY <1>2 DEF Results, Playing
<1>9. QED
  BY <1>2, <1>6, <1>7, <1>8, ClientSteps

\* A client that goes on after a game.
LEMMA ContinueRounds ==
  ASSUME GameInv, Rounds, NEW c \in User, Continue(c)
  PROVE  Rounds'
<1>1. stage \in [User -> Stages] /\ Plain(c) /\ Side(c)
  BY DEF GameInv, ClientTypes, Rounds
<1>2. /\ stage[c] = "over" /\ UNCHANGED serverVars /\ inbox' = inbox /\ out' = out /\ oppo' = oppo /\ hand' = hand /\ seen' = seen
      /\ stage'[c] = "menu" /\ \A d \in User : d # c => stage'[d] = stage[d]
  BY <1>1 DEF Continue, To
<1>3. UNCHANGED <<ulist, glist, named, games>>
  BY <1>2, ServerStays
<1>4. ~Counted(c) /\ ~Decided(c) /\ Due(c) = {} /\ ~Handed(c)
  BY <1>1, <1>2, Handless
<1>5. Due(c)' = {} /\ ~Handed(c)'
  BY <1>2, <1>4 DEF Due, Handed, Holds
<1>6. Side(c)'
  <2>1. HandIs(c)' /\ Once(c)'
    BY <1>2, <1>4, <1>5, HandlessSide
  <2>2. QuitIs(c)'
    BY <1>1, <1>2, ServerStays DEF Side, QuitIs
  <2>3. AcceptIs(c)'
    BY <1>1, <1>2 DEF Side, AcceptIs, Holds
  <2>4. QED
    BY <2>1, <2>2, <2>3 DEF Side
<1>7. Plain(c)'
  BY <1>1, <1>2, <1>3 DEF Plain, Tags, OppoIs, OffIs, BlankIs
<1>8. Results(c)' \subseteq Results(c)
  BY <1>2 DEF Results, Playing
<1>9. QED
  BY <1>2, <1>6, <1>7, <1>8, ClientSteps

\* A client that ends has been told nothing.
LEMMA EndRounds ==
  ASSUME GameInv, Rounds, NEW c \in User, Exit(c)
  PROVE  Rounds'
<1>1. /\ ClientTypes /\ c \in Names /\ c # NoUser /\ games \in Nat
  BY GameAssumption DEF GameInv, Names, TableTypes, NoUser
<1>2. /\ Sends(c, Packet("eof", c)) /\ UNCHANGED serverVars
      /\ stage'[c] = "off" /\ out'[c] = <<>> /\ oppo'[c] = NoUser /\ seen'[c] = Nothing
      /\ \A d \in User : d # c => stage'[d] = stage[d] /\ out'[d] = out[d] /\ oppo'[d] = oppo[d] /\ seen'[d] = seen[d] /\ hand'[d] = hand[d]
  BY <1>1 DEF Exit, To, ClientTypes
<1>3. Packet("eof", c) \in GameRequest /\ Packet("eof", c).type = "eof" /\ Packet("eof", c).game = 0
  BY <1>1, PlainPackets DEF Packet
<1>4. /\ inbox'[c] # <<>> /\ Head(inbox'[c]).type = "eof" /\ Head(inbox'[c]).game = 0
      /\ \A d \in User : d # c => inbox'[d] = inbox[d]
  BY <1>1, <1>2, <1>3, Posted DEF ClientTypes
<1>5. Side(c)'
  BY <1>2, <1>4 DEF Side, QuitIs, AcceptIs, Holds
<1>6. Plain(c)'
  <2>1. games' = games
    BY <1>2, ServerStays
  <2>2. seen'[c][1] = 0 /\ seen'[c][2] = 0 /\ seen'[c][3] = 0 /\ seen'[c][4] = 0
    BY <1>2 DEF Nothing
  <2>3. DOMAIN out'[c] = {}
    BY <1>2
  <2>4. QED
    BY <1>1, <1>2, <1>4, <2>1, <2>2, <2>3 DEF Plain, Tags, OppoIs, OffIs, BlankIs
<1>7. Results(c)' \subseteq Results(c)
  BY <1>2 DEF Results, Playing
<1>8. QED
  BY <1>2, <1>4, <1>5, <1>6, <1>7, ClientSteps

\* A client takes the first of its packets: the others move up.
LEMMA MovedUp ==
  ASSUME GameInv, NEW c \in User, Receives(c)
  PROVE  /\ \A i \in DOMAIN out'[c] : i \in Nat /\ i + 1 \in DOMAIN out[c] /\ out'[c][i] = out[c][i + 1]
         /\ 1 \in DOMAIN out[c] /\ out[c][1] = Head(out[c]) /\ Head(out[c]) \in GameReply
         /\ \A i \in Due(c)' : i \in Nat /\ i + 1 \in Due(c) /\ out'[c][i] = out[c][i + 1]
         /\ \A d \in User : d # c => out'[d] = out[d]
         /\ UNCHANGED serverVars /\ inbox' = inbox
         /\ \A i \in DOMAIN out[c] : i \in Nat /\ (1 < i + 1)
<1>1. out \in [User -> Seq(GameReply)] /\ out[c] \in Seq(GameReply) /\ out[c] # <<>>
  BY DEF GameInv, ClientTypes, Receives
<1>2. out' = [out EXCEPT ![c] = Tail(out[c])] /\ UNCHANGED serverVars /\ inbox' = inbox
  BY DEF Receives
<1>3. out'[c] = Tail(out[c]) /\ \A d \in User : d # c => out'[d] = out[d]
  BY <1>1, <1>2
<1>4. /\ \A i \in DOMAIN Tail(out[c]) : i \in Nat /\ i + 1 \in DOMAIN out[c] /\ Tail(out[c])[i] = out[c][i + 1]
      /\ 1 \in DOMAIN out[c] /\ out[c][1] = Head(out[c]) /\ Head(out[c]) \in GameReply
      /\ \A i \in DOMAIN out[c] : i \in Nat /\ (1 < i + 1)
  BY <1>1
<1>5. \A i \in Due(c)' : i \in Nat /\ i + 1 \in Due(c) /\ out'[c][i] = out[c][i + 1]
  BY <1>3, <1>4 DEF Due
<1>6. QED
  BY <1>2, <1>3, <1>4, <1>5

\* Behind a packet there are the same packets after it was taken.
LEMMA QuitStays ==
  ASSUME GameInv, NEW c \in User, Receives(c), QuitIs(c),
         \/ seen'[c][1] = seen[c][1]
         \/ Head(out[c]).type = "gamestart" /\ seen'[c][1] = Head(out[c]).game
  PROVE  QuitIs(c)'
<1> SUFFICES ASSUME NEW i \in DOMAIN out'[c], out'[c][i].type = "gamequit", Live(c)'
             PROVE  /\ seen'[c][1] # Mine(c)'.id
                    /\ \A j \in DOMAIN out'[c] : j < i /\ out'[c][j].type = "gamestart" => out'[c][j].game # Mine(c)'.id
  BY DEF QuitIs
<1>1. /\ i \in Nat /\ i + 1 \in DOMAIN out[c] /\ out[c][i + 1].type = "gamequit"
      /\ \A j \in DOMAIN out'[c] : j \in Nat /\ j + 1 \in DOMAIN out[c] /\ out'[c][j] = out[c][j + 1]
      /\ 1 \in DOMAIN out[c] /\ out[c][1] = Head(out[c])
  BY MovedUp
<1>2. Live(c) /\ Mine(c)' = Mine(c)
  BY MovedUp, ServerStays
<1>3. 1 < i + 1
  <2>1. i >= 1
    <3>1. out' = [out EXCEPT ![c] = Tail(out[c])] /\ out \in [User -> Seq(GameReply)] /\ out[c] # <<>>
      BY DEF Receives, GameInv, ClientTypes
    <3>2. out'[c] = Tail(out[c]) /\ Tail(out[c]) \in Seq(GameReply)
      BY <3>1
    <3>3. QED
      BY <3>2
  <2>2. QED
    BY <1>1, <2>1
<1>4. seen'[c][1] # Mine(c).id
  BY <1>1, <1>2, <1>3 DEF QuitIs
<1>5. ASSUME NEW j \in DOMAIN out'[c], j < i, out'[c][j].type = "gamestart" PROVE out'[c][j].game # Mine(c).id
  <2>1. j + 1 \in DOMAIN out[c] /\ out'[c][j] = out[c][j + 1] /\ j + 1 < i + 1
    BY <1>1, <1>5
  <2>2. QED
    BY <1>1, <1>2, <1>5, <2>1 DEF QuitIs
<1>6. QED
  BY <1>2, <1>4, <1>5

\* What was to come of a client that has been told nothing new.
LEMMA ResultsMovedUp ==
  ASSUME GameInv, NEW c \in User, Receives(c), stage'[c] = "answered" => hand'[c] = hand[c] /\ stage[c] = "answered",
         Playing(c)' /\ seen'[c][2] > 0 => seen'[c] \in Results(c)
  PROVE  Results(c)' \subseteq Results(c)
<1> SUFFICES ASSUME NEW x \in Results(c)' PROVE x \in Results(c)
  OBVIOUS
<1>1. CASE Playing(c)' /\ seen'[c][2] > 0 /\ x = seen'[c]
  BY <1>1
<1>2. CASE stage'[c] = "answered" /\ \E i \in Due(c)' : x = <<out'[c][i].game, out'[c][i].round, hand'[c], out'[c][i].ans>>
  <2>1. PICK i \in Due(c)' : x = <<out'[c][i].game, out'[c][i].round, hand'[c], out'[c][i].ans>>
    BY <1>2
  <2>2. i + 1 \in Due(c) /\ out'[c][i] = out[c][i + 1]
    BY MovedUp
  <2>3. x = <<out[c][i + 1].game, out[c][i + 1].round, hand[c], out[c][i + 1].ans>>
    BY <1>2, <2>1, <2>2
  <2>4. QED
    BY <1>2, <2>2, <2>3 DEF Results
<1>3. QED
  BY <1>1, <1>2 DEF Results

\* A packet the stage of the client has no use for.
LEMMA DroppedRounds ==
  ASSUME GameInv, Rounds, NEW c \in User, Dropped(c)
  PROVE  Rounds'
<1>1. Receives(c) /\ stage' = stage /\ seen' = seen /\ hand' = hand /\ oppo' = oppo /\ Plain(c) /\ Side(c)
  BY DEF Dropped, clientVars, Rounds
<1>2. /\ \A i \in DOMAIN out'[c] : i \in Nat /\ i + 1 \in DOMAIN out[c] /\ out'[c][i] = out[c][i + 1]
      /\ \A i \in Due(c)' : i \in Nat /\ i + 1 \in Due(c) /\ out'[c][i] = out[c][i + 1]
      /\ \A d \in User : d # c => out'[d] = out[d]
      /\ UNCHANGED serverVars /\ inbox' = inbox
  BY <1>1, MovedUp
<1>3. /\ UNCHANGED <<ulist, glist, named, games>> /\ (Live(c)' <=> Live(c)) /\ Mine(c)' = Mine(c)
      /\ (Counted(c)' <=> Counted(c)) /\ (Decided(c)' <=> Decided(c)) /\ (Handed(c)' <=> Handed(c))
  BY <1>2, ServerStays DEF Handed, Holds
<1>4. ASSUME stage[c] # "off" PROVE HandIs(c)' /\ Once(c)'
  <2>1. HandIs(c) /\ Once(c)
    BY <1>1, <1>4 DEF Side
  <2>2. ASSUME NEW i \in Due(c)'
        PROVE  /\ stage[c] = "answered" /\ out'[c][i].game = seen[c][1] /\ out'[c][i].round > 0
               /\ \A j \in DOMAIN out'[c] : j < i => out'[c][j].type # "gamequit"
    <3>1. i + 1 \in Due(c) /\ out'[c][i] = out[c][i + 1] /\ i \in Nat
      BY <1>2
    <3>2. \A j \in DOMAIN out'[c] : j < i => j + 1 \in DOMAIN out[c] /\ j + 1 < i + 1 /\ out'[c][j] = out[c][j + 1]
      BY <1>2, <3>1
    <3>3. QED
      BY <2>1, <3>1, <3>2 DEF HandIs
  <2>3. HandIs(c)'
    BY <1>1, <1>2, <1>3, <2>1, <2>2 DEF HandIs
  <2>4. Once(c)'
    <3>1. \A i, j \in Due(c)' : i = j
      <4> SUFFICES ASSUME NEW i \in Due(c)', NEW j \in Due(c)' PROVE i = j
        OBVIOUS
      <4>1. i \in Nat /\ j \in Nat /\ i + 1 = j + 1
        BY <1>2, <2>1 DEF Once
      <4>2. QED
        BY <4>1
    <3>2. Due(c) = {} => Due(c)' = {}
      BY <1>2
    <3>3. QED
      BY <1>3, <2>1, <3>1, <3>2 DEF Once
  <2>5. QED
    BY <2>3, <2>4
<1>5. QuitIs(c)'
  BY <1>1, QuitStays DEF Side
<1>6. AcceptIs(c)'
  BY <1>1, <1>2 DEF Side, AcceptIs, Holds
<1>7. Side(c)'
  BY <1>1, <1>4, <1>5, <1>6 DEF Side
<1>8. Plain(c)'
  BY <1>1, <1>2, <1>3 DEF Plain, Tags, OppoIs, OffIs, BlankIs
<1>9. Results(c)' \subseteq Results(c)
  BY <1>1, ResultsMovedUp DEF Results, Playing
<1>10. QED
  BY <1>1, <1>2, <1>7, <1>8, <1>9, ClientSteps

\* What is left to show of a packet that a client takes and that is no result.
LEMMA TakenRounds ==
  ASSUME GameInv, Rounds, NEW c \in User, Receives(c), NEW s \in Stages, To(stage, c, s), hand' = hand,
         s \notin {"answered", "off"}, stage[c] # "off",
         ~Counted(c), ~Decided(c), Due(c) = {} \/ (stage[c] = "answered" /\ Due(c) = {1}),
         Handed(c) => s = "menu" /\ (Live(c) => Mine(c).id # Head(inbox[c]).game),
         Holds(c, "gameaccept") => s \in {"waiting", "menu"} \/ (s = "play" /\ seen'[c][2] = 0),
         \A d \in User : d # c => seen'[d] = seen[d] /\ oppo'[d] = oppo[d],
         oppo'[c] # c,
         \/ seen'[c] = seen[c] /\ ~Playing(c)'
         \/ Head(out[c]).type = "gamestart" /\ seen'[c] = <<Head(out[c]).game, 0, 0, 0>>
         \/ seen'[c][1] = seen[c][1] /\ seen'[c][2] > 0 /\ seen'[c][2] \in Nat /\ seen'[c] \in Results(c)
  PROVE  Rounds'
<1>1. /\ stage \in [User -> Stages] /\ Plain(c) /\ Side(c) /\ games \in Nat
      /\ \A i \in DOMAIN out[c] : out[c][i].game <= games
  BY DEF GameInv, ClientTypes, Rounds, TableTypes, Plain, Tags
<1>2. stage'[c] = s /\ \A d \in User : d # c => stage'[d] = stage[d]
  BY <1>1 DEF To
<1>3. /\ \A i \in DOMAIN out'[c] : i \in Nat /\ i + 1 \in DOMAIN out[c] /\ out'[c][i] = out[c][i + 1]
      /\ 1 \in DOMAIN out[c] /\ out[c][1] = Head(out[c])
      /\ \A i \in Due(c)' : i \in Nat /\ i + 1 \in Due(c) /\ out'[c][i] = out[c][i + 1] /\ i \in DOMAIN out'[c]
      /\ \A d \in User : d # c => out'[d] = out[d]
      /\ UNCHANGED serverVars /\ inbox' = inbox
  BY MovedUp DEF Due
<1>4. UNCHANGED <<ulist, glist, named, games>>
  BY <1>3, ServerStays
<1>5. Due(c)' = {}
  <2>1. \A i \in DOMAIN out'[c] : i # 0
    <3>1. out' = [out EXCEPT ![c] = Tail(out[c])] /\ out \in [User -> Seq(GameReply)] /\ out[c] # <<>>
      BY DEF Receives, GameInv, ClientTypes
    <3>2. out'[c] = Tail(out[c]) /\ Tail(out[c]) \in Seq(GameReply)
      BY <3>1
    <3>3. QED
      BY <3>2
  <2>2. QED
    BY <1>3, <2>1
<1>6. Side(c)'
  <2>1. HandIs(c)' /\ Once(c)'
    <3>1. Handed(c)' => stage'[c] = "menu" /\ (Live(c) => Mine(c).id # Head(inbox'[c]).game)
      BY <1>2, <1>3 DEF Handed, Holds
    <3>2. QED
      BY <1>3, <1>5, <3>1, HandlessSide
  <2>2. QuitIs(c)'
    <3>1. \/ seen'[c][1] = seen[c][1]
          \/ Head(out[c]).type = "gamestart" /\ seen'[c][1] = Head(out[c]).game
      OBVIOUS
    <3>2. QED
      BY <1>1, <3>1, QuitStays DEF Side
  <2>3. AcceptIs(c)'
    BY <1>1, <1>2, <1>3 DEF Side, AcceptIs, Holds
  <2>4. QED
    BY <2>1, <2>2, <2>3 DEF Side
<1>7. Plain(c)'
  <2>1. Tags(c)'
    <3>1. seen'[c][1] <= games
      BY <1>1, <1>3 DEF Plain, Tags
    <3>2. QED
      BY <1>1, <1>3, <1>4, <3>1 DEF Plain, Tags
  <2>2. OppoIs(c)'
    BY <1>1, <1>3 DEF Plain, OppoIs
  <2>3. OffIs(c)'
    BY <1>2 DEF OffIs
  <2>4. BlankIs(c)'
    BY <1>1 DEF Plain, BlankIs
  <2>5. QED
    BY <2>1, <2>2, <2>3, <2>4 DEF Plain
<1>8. Results(c)' \subseteq Results(c)
  <2>1. Playing(c)' /\ seen'[c][2] > 0 => seen'[c] \in Results(c)
    OBVIOUS
  <2>2. QED
    BY <1>2, <2>1, ResultsMovedUp
<1>9. QED
  BY <1>2, <1>3, <1>6, <1>7, <1>8, ClientSteps

\* A packet the client expects.
LEMMA AcceptedRounds ==
  ASSUME GameInv, Rounds, NEW c \in User, Accepted(c)
  PROVE  Rounds'
<1> DEFINE p == Head(out[c])
<1>1. Receives(c) /\ Expects(c, p.type)
  BY DEF Accepted
<1>2. /\ 1 \in DOMAIN out[c] /\ out[c][1] = p /\ p \in GameReply
      /\ Plain(c) /\ Side(c) /\ oppo[c] # c /\ c # NoUser
      /\ stage \in [User -> Stages] /\ oppo \in [User -> Names] /\ seen \in [User -> Shown] /\ c \in Names
  BY <1>1, MovedUp, GameAssumption DEF Rounds, Plain, OppoIs, NoUser, GameInv, ClientTypes, Names
<1> HIDE DEF p
<1>3. stage[c] \in {"sent", "menu", "waiting", "answered", "play"} /\ stage[c] # "off"
  BY <1>1 DEF Expects
<1>4. stage[c] # "answered" => /\ ~Counted(c) /\ ~Decided(c) /\ Due(c) = {}
                               /\ Handed(c) => stage[c] = "menu" /\ (Live(c) => Mine(c).id # Head(inbox[c]).game)
  BY <1>2, <1>3, Handless
<1>5. Holds(c, "gameaccept") => stage[c] \in {"waiting", "menu"} \/ (stage[c] = "play" /\ seen[c][2] = 0)
  BY <1>2 DEF Side, AcceptIs
<1>6. "menu" \in Stages /\ "login" \in Stages /\ "play" \in Stages /\ "over" \in Stages
  BY DEF Stages
<1>7. CASE LoginReply(c, p)
  <2>1. stage[c] = "sent" /\ UNCHANGED <<hand, seen, oppo>>
    BY <1>1, <1>7 DEF LoginReply, Expects
  <2>2. PICK s \in {"menu", "login"} : To(stage, c, s)
    BY <1>7 DEF LoginReply
  <2>3. ~Playing(c)' /\ s \in Stages /\ s \notin {"answered", "off"}
    BY <1>2, <1>6, <2>2 DEF To, Playing
  <2>4. QED
    BY <1>1, <1>2, <1>4, <1>5, <2>1, <2>2, <2>3, TakenRounds
<1>8. CASE Invited(c, p)
  <2>1. stage[c] = "menu" /\ UNCHANGED <<hand, seen>> /\ stage' = stage /\ oppo' = [oppo EXCEPT ![c] = p.u]
    BY <1>1, <1>8 DEF Invited, Expects, To
  <2>2. To(stage, c, "menu") /\ ~Playing(c)'
    BY <1>2, <2>1 DEF To, Playing
  <2>3. p.u # c
    BY <1>2, <1>8 DEF Plain, OppoIs, Invited
  <2>4. oppo'[c] # c /\ \A d \in User : d # c => oppo'[d] = oppo[d]
    BY <1>2, <2>1, <2>3
  <2>5. QED
    BY <1>1, <1>2, <1>4, <1>5, <1>6, <2>1, <2>2, <2>4, TakenRounds
<1>9. CASE BackToMenu(c, p)
  <2>1. /\ stage[c] \in {"waiting", "answered", "play"} /\ (stage[c] # "waiting" => p.type = "gamequit")
        /\ To(stage, c, "menu") /\ UNCHANGED <<hand, seen>> /\ oppo' = [oppo EXCEPT ![c] = NoUser]
    BY <1>1, <1>9 DEF BackToMenu, Expects, To
  <2>2. ~Playing(c)'
    BY <1>2, <2>1 DEF To, Playing
  <2>3. oppo'[c] # c /\ \A d \in User : d # c => oppo'[d] = oppo[d]
    BY <1>2, <2>1
  <2>4. /\ ~Counted(c) /\ ~Decided(c) /\ Due(c) = {}
        /\ Handed(c) => (Live(c) => Mine(c).id # Head(inbox[c]).game)
    <3>1. CASE stage[c] # "answered"
      BY <1>4, <3>1
    <3>2. CASE stage[c] = "answered"
      <4>1. HandIs(c) /\ QuitIs(c) /\ out[c][1].type = "gamequit"
        BY <1>2, <2>1, <3>2 DEF Side
      <4>2. Live(c) => seen[c][1] # Mine(c).id
        BY <1>2, <4>1 DEF QuitIs
      <4>3. ~Counted(c) /\ ~Decided(c)
        BY <4>1, <4>2 DEF HandIs, Counted, Decided
      <4>4. Due(c) = {}
        <5> SUFFICES ASSUME NEW i \in Due(c) PROVE FALSE
          OBVIOUS
        <5>1. i \in DOMAIN out[c] /\ out[c][i].type = "gameanswer" /\ i # 1
          BY <4>1 DEF Due
        <5>2. i \in Nat /\ i >= 1
          <6>1. out[c] \in Seq(GameReply)
            BY ClientFacts
          <6>2. QED
            BY <5>1, <6>1
        <5>3. 1 < i
          BY <5>1, <5>2
        <5>4. QED
          BY <1>2, <4>1, <5>3 DEF HandIs
      <4>5. Handed(c) => Head(inbox[c]).game = seen[c][1]
        BY <3>2, <4>1 DEF HandIs
      <4>6. QED
        BY <4>2, <4>3, <4>4, <4>5
    <3>3. QED
      BY <3>1, <3>2
  <2>5. QED
    BY <1>1, <1>2, <1>3, <1>6, <2>1, <2>2, <2>3, <2>4, TakenRounds
<1>10. CASE Started(c, p)
  <2>1. /\ stage[c] = "waiting" /\ To(stage, c, "play") /\ UNCHANGED <<hand, oppo>>
        /\ seen' = [seen EXCEPT ![c] = <<p.game, 0, 0, 0>>] /\ p.type = "gamestart"
    BY <1>1, <1>10 DEF Started, Expects, To
  <2>2. seen'[c] = <<p.game, 0, 0, 0>> /\ \A d \in User : d # c => seen'[d] = seen[d]
    BY <1>2, <2>1
  <2>3. seen'[c][2] = 0
    BY <2>2
  <2>4. QED
    BY <1>1, <1>2, <1>4, <1>6, <2>1, <2>2, <2>3, TakenRounds DEF p
<1>11. CASE Answered(c, p)
  <2>1. /\ stage[c] = "answered" /\ UNCHANGED <<hand, oppo>> /\ p.type = "gameanswer"
        /\ seen' = [seen EXCEPT ![c] = <<p.game, p.round, hand[c], p.ans>>]
    BY <1>1, <1>11 DEF Answered, Expects, To
  <2>2. PICK s \in {"over", "play"} : To(stage, c, s)
    BY <1>11 DEF Answered
  <2>3. HandIs(c) /\ Once(c) /\ 1 \in Due(c)
    BY <1>2, <1>3, <2>1 DEF Side, Due
  <2>4. Due(c) = {1} /\ ~Handed(c) /\ ~Counted(c) /\ ~Decided(c)
    BY <2>3 DEF Once
  <2>5. seen'[c] = <<p.game, p.round, hand[c], p.ans>> /\ \A d \in User : d # c => seen'[d] = seen[d]
    BY <1>2, <2>1
  <2>6. seen'[c] \in Results(c)
    BY <1>2, <2>1, <2>3, <2>5 DEF Results
  <2>7. p.game = seen[c][1] /\ p.round > 0 /\ p.round \in Nat
    <3>1. p.game = seen[c][1] /\ p.round > 0
      BY <1>2, <2>3 DEF HandIs
    <3>2. p.round \in 0..MaxRound
      BY <1>2 DEF GameReply
    <3>3. QED
      BY <3>1, <3>2, GameAssumption
  <2>8. seen'[c][1] = seen[c][1] /\ seen'[c][2] > 0 /\ seen'[c][2] \in Nat
    BY <2>5, <2>7
  <2>9. s \in Stages /\ s \notin {"answered", "off"}
    BY <1>6, <2>2
  <2>10. ~Holds(c, "gameaccept")
    BY <1>5, <2>1
  <2>11. QED
    BY <1>1, <1>2, <1>3, <2>1, <2>2, <2>4, <2>5, <2>6, <2>8, <2>9, <2>10, TakenRounds
<1>12. QED
  BY <1>7, <1>8, <1>9, <1>10, <1>11 DEF Accepted, p

\* A step of a client.
LEMMA ClientRounds ==
  ASSUME GameInv, RoundsInv, NEW c \in User, Client(c)
  PROVE  RoundsInv'
<1> SUFFICES ASSUME ~intruded', ~late' PROVE Rounds'
  BY DEF RoundsInv
<1>1. UNCHANGED serverVars
  BY DEF Client, Connect, TypeName, Invite, Accept, Refuse, Play, QuitGame, Continue, Exit, Dropped, Accepted, Receives
<1>2. Rounds
  BY <1>1, ServerStays DEF RoundsInv
<1>3. QED
  BY <1>2, ConnectRounds, TypedRounds, PlayRounds, ContinueRounds, EndRounds, DroppedRounds, AcceptedRounds DEF Client

\* A step in which nothing of the game changes.
LEMMA StutterRounds == GameInv /\ RoundsInv /\ UNCHANGED gameVars => RoundsInv'
<1> SUFFICES ASSUME GameInv, RoundsInv, UNCHANGED gameVars, ~intruded', ~late' PROVE Rounds'
  BY DEF RoundsInv
<1>1. UNCHANGED <<ulist, glist, named, looking, down, intruded, late, games, inbox, out>> /\ UNCHANGED clientVars
  BY DEF gameVars, serverVars
<1>2. Rounds
  BY <1>1 DEF RoundsInv
<1>3. \A c \in User : Waits(c) /\ Quiet(c) /\ Says(c) /\ Attended(c)
  BY <1>1, <1>2 DEF clientVars, Waits, Quiet, Says, Attended, Rounds, Plain, OffIs
<1>4. (\A c \in User : Kin(c)) /\ GoOn
  BY <1>1, KinKept DEF GoOn, Alike
<1>5. QED
  BY <1>1, <1>2, <1>3, <1>4, ThreadKeeps

\* Nobody is connected and no round was shown.
LEMMA RoundsInit == GameInit /\ ClientInit => RoundsInv
<1> SUFFICES ASSUME GameInit, ClientInit PROVE Rounds
  BY DEF RoundsInv
<1>1. glist = <<>> /\ named = {} /\ games = 0 /\ DOMAIN glist = {}
  BY DEF GameInit
<1>2. ASSUME NEW c \in User PROVE Plain(c) /\ Side(c) /\ Results(c) = {}
  <2>1. /\ stage[c] = "off" /\ inbox[c] = <<>> /\ out[c] = <<>> /\ oppo[c] = NoUser /\ seen[c] = Nothing
        /\ DOMAIN out[c] = {} /\ c # NoUser
    BY GameAssumption DEF GameInit, ClientInit, NoUser
  <2>2. seen[c][1] = 0 /\ seen[c][2] = 0 /\ seen[c][3] = 0 /\ seen[c][4] = 0
    BY <2>1 DEF Nothing
  <2>3. Plain(c)
    BY <1>1, <2>1, <2>2 DEF Plain, Tags, OppoIs, OffIs, BlankIs
  <2>4. Side(c)
    BY <2>1 DEF Side, QuitIs, AcceptIs, Holds
  <2>5. Results(c) = {}
    BY <2>1 DEF Results, Playing
  <2>6. QED
    BY <2>3, <2>4, <2>5
<1>3. OfGames
  BY <1>1, <1>2 DEF OfGames, Ids, Mirrored, ResultIs
<1>4. QED
  BY <1>2, <1>3 DEF Rounds

\* The inductive invariant behind the rounds of the game of Exp3: through every
\* step of server_handle, EndRound and client_end_round, and every interleaving
\* of the server's threads with the clients, a hand is in one place, the two
\* players of a game are told each round in turn, and what they are told is what
\* the server compared.
THEOREM RoundsInvariance == GameSpec => []RoundsInv
<1>1. GameInit /\ ClientInit => RoundsInv
  BY RoundsInit
<1>2. GameInv /\ RoundsInv /\ [GameNext]_gameVars => RoundsInv'
  <2> SUFFICES ASSUME GameInv, RoundsInv, [GameNext]_gameVars PROVE RoundsInv'
    OBVIOUS
  <2>1. CASE UNCHANGED gameVars
    BY <2>1, StutterRounds
  <2>2. ASSUME NEW u \in User, ServerThread(u) /\ UNCHANGED clientVars PROVE RoundsInv'
    BY <2>2, ServerThreadRounds
  <2>3. ASSUME NEW u \in User, Client(u) PROVE RoundsInv'
    BY <2>3, ClientRounds
  <2>4. QED
    BY <2>1, <2>2, <2>3 DEF GameNext
<1>3. QED
  BY <1>1, <1>2, GameInvariance, PTL DEF GameSpec

\* The players of a game see the same rounds: for any users, hands and bounds, two
\* clients that have both been shown a round of a game (client_end_round, from the
\* gameanswer of EndRound) were shown the same two hands, each from its side.
THEOREM RoundsAgreement == GameSpec => []RoundsAgree
<1>1. GameInv /\ RoundsInv => RoundsAgree
  <2> SUFFICES ASSUME GameInv, Rounds, NEW c \in User, NEW d \in User, c # d, Playing(c), Playing(d),
                      seen[c][1] = seen[d][1], seen[c][2] = seen[d][2]
               PROVE  seen[c] = <<seen[d][1], seen[d][2], seen[d][4], seen[d][3]>>
    BY DEF RoundsAgree, RoundsInv
  <2>1. /\ seen[c] = <<seen[c][1], seen[c][2], seen[c][3], seen[c][4]>>
        /\ seen[c][2] \in Nat
    <3>1. seen[c] \in Shown /\ seen[c][2] \in Nat
      BY ClientFacts
    <3>2. QED
      BY <3>1 DEF Shown
  <2>2. CASE seen[c][2] = 0
    <3>1. BlankIs(c) /\ BlankIs(d)
      BY DEF Rounds, Plain
    <3>2. QED
      BY <2>1, <2>2, <3>1 DEF BlankIs
  <2>3. CASE seen[c][2] # 0
    <3>1. seen[c][2] > 0 /\ seen[d][2] > 0
      BY <2>1, <2>3
    <3>2. seen[c] \in Results(c) /\ seen[d] \in Results(d)
      BY <3>1 DEF Results
    <3>3. seen[c][3] = seen[d][4] /\ seen[c][4] = seen[d][3]
      BY <3>2 DEF Rounds, OfGames, Mirrored
    <3>4. QED
      BY <2>1, <3>3
  <2>4. QED
    BY <2>2, <2>3
<1>2. QED
  BY <1>1, GameInvariance, RoundsInvariance, PTL
=============================================================================
