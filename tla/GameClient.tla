------------------------------ MODULE GameClient ------------------------------
(***************************************************************************)
(* The clients of the rock-paper-scissors server of Exp3 and the whole     *)
(* game: one process for each user, driven by what the person types and by *)
(* the packets of its server thread.  stage is the source's stage: "off"   *)
(* not running, "login" and "sent" its 1 before and after the name was     *)
(* typed, "menu" 2, "play" 4, "waiting" 5, "over" 6, "answered" 7.  Bounds *)
(* on the person: a name is typed once per answer of the server, and y and *)
(* n only after an invitation was shown.                                   *)
(***************************************************************************)
EXTENDS GameServer

CONSTANT MaxExits    \* bound: how often a client ends

VARIABLES
  exits,         \* how often a client has ended
  stage, asked,  \* stage; iswaitaccept
  oppo,          \* oppo.name, or NoUser
  hand,          \* self.ans
  wins,          \* self.score and oppo.score, each up to WIN
  seen           \* history: the game, and the round, own hand and opponent's hand last shown

clientVars == <<exits, stage, asked, oppo, hand, wins, seen>>
gameVars == <<serverVars, inbox, out, clientVars>>

Nothing == <<0, 0, 0, 0>>

ClientInit ==
  /\ exits = 0
  /\ stage = [c \in User |-> "off"] /\ asked = [c \in User |-> FALSE]
  /\ oppo = [c \in User |-> NoUser] /\ hand = [c \in User |-> unknown]
  /\ wins = [c \in User |-> <<0, 0>>] /\ seen = [c \in User |-> Nothing]

\* The client sends a packet; the person waits for an idle connection.
Sends(c, p) == inbox[c] = <<>> /\ inbox' = [inbox EXCEPT ![c] = <<p>>]
To(f, c, v) == f' = [f EXCEPT ![c] = v]
-----------------------------------------------------------------------------
(* What the person does                                                    *)

Connect(c) ==
  /\ stage[c] = "off" /\ inbox[c] = <<>>
  /\ To(stage, c, "login") /\ To(out, c, <<>>)
  /\ UNCHANGED <<serverVars, inbox, exits, asked, oppo, hand, wins, seen>>

TypeName(c) ==
  /\ stage[c] = "login" /\ Sends(c, Packet("login", c))
  /\ To(stage, c, "sent")
  /\ UNCHANGED <<serverVars, out, exits, asked, oppo, hand, wins, seen>>

Invite(c) ==
  /\ stage[c] = "menu"
  /\ \E u \in User \ {c} : Sends(c, Packet("gamerequest", u)) /\ To(oppo, c, u)
  /\ To(stage, c, "waiting")
  /\ UNCHANGED <<serverVars, out, exits, asked, hand, wins, seen>>

Accept(c) ==
  /\ stage[c] = "menu" /\ asked[c] /\ Sends(c, Packet("gameaccept", oppo[c]))
  /\ To(stage, c, "waiting") /\ To(asked, c, FALSE)
  /\ UNCHANGED <<serverVars, out, exits, oppo, hand, wins, seen>>

Refuse(c) ==
  /\ stage[c] = "menu" /\ asked[c] /\ Sends(c, Packet("gamerefuse", oppo[c]))
  /\ To(asked, c, FALSE)
  /\ UNCHANGED <<serverVars, out, exits, stage, oppo, hand, wins, seen>>

Play(c) ==
  /\ stage[c] = "play"
  /\ \E a \in Answer : Sends(c, [Packet("gameanswer", c) EXCEPT !.ans = a, !.game = seen[c][1]])
                     /\ To(hand, c, a)
  /\ To(stage, c, "answered")
  /\ UNCHANGED <<serverVars, out, exits, asked, oppo, wins, seen>>

QuitGame(c) ==
  /\ stage[c] = "play" /\ Sends(c, Packet("gamequit", c))
  /\ To(stage, c, "menu")
  /\ UNCHANGED <<serverVars, out, exits, asked, oppo, hand, wins, seen>>

Continue(c) ==
  /\ stage[c] = "over" /\ To(stage, c, "menu")
  /\ UNCHANGED <<serverVars, inbox, out, exits, asked, oppo, hand, wins, seen>>

\* The program ends and so does the connection; the next one starts afresh.
Exit(c) ==
  /\ stage[c] # "off" /\ exits < MaxExits /\ exits' = exits + 1
  /\ Sends(c, Packet("eof", c))
  /\ To(out, c, <<>>) /\ To(stage, c, "off") /\ To(asked, c, FALSE)
  /\ To(oppo, c, NoUser) /\ To(hand, c, unknown)
  /\ To(wins, c, <<0, 0>>) /\ To(seen, c, Nothing)
  /\ UNCHANGED serverVars
-----------------------------------------------------------------------------
(* A packet of the server; one the stage has no use for is dropped.        *)

Expects(c, type) ==
  \/ stage[c] = "sent" /\ type \in {"loginok", "loginfail"}
  \/ stage[c] = "menu" /\ type = "gamerequest"
  \/ stage[c] = "waiting" /\ type \in {"gamerefuse", "gamestart"}
  \/ stage[c] = "answered" /\ type \in {"gameanswer", "gamequit"}
  \/ stage[c] = "play" /\ type = "gamequit"

Receives(c) == out[c] # <<>> /\ out' = [out EXCEPT ![c] = Tail(@)] /\ UNCHANGED <<serverVars, inbox>>

Dropped(c) ==
  Receives(c) /\ ~Expects(c, Head(out[c]).type) /\ UNCHANGED clientVars

LoginReply(c, p) ==
  /\ p.type \in {"loginok", "loginfail"}
  /\ To(stage, c, IF p.type = "loginok" THEN "menu" ELSE "login")
  /\ UNCHANGED <<exits, asked, oppo, hand, wins, seen>>

Invited(c, p) ==
  /\ p.type = "gamerequest"
  /\ To(oppo, c, p.u) /\ To(asked, c, TRUE)
  /\ UNCHANGED <<exits, stage, hand, wins, seen>>

\* oppo.zero() forgets the opponent's name and score, not the own score.
BackToMenu(c, p) ==
  /\ p.type \in {"gamerefuse", "gamequit"}
  /\ To(stage, c, "menu") /\ To(oppo, c, NoUser) /\ To(wins, c, <<wins[c][1], 0>>)
  /\ UNCHANGED <<exits, asked, hand, seen>>

Started(c, p) ==
  /\ p.type = "gamestart"
  /\ To(stage, c, "play") /\ To(seen, c, <<p.game, 0, 0, 0>>)
  /\ UNCHANGED <<exits, asked, oppo, hand, wins>>

\* client_end_round
Scored(w, mine, theirs) ==
  LET cap(n) == Min({n, WIN}) IN
  IF mine = theirs THEN w
  ELSE IF Beats(mine, theirs) THEN <<cap(w[1] + 1), w[2]>> ELSE <<w[1], cap(w[2] + 1)>>

Answered(c, p) ==
  /\ p.type = "gameanswer"
  /\ To(wins, c, Scored(wins[c], hand[c], p.ans))
  /\ To(seen, c, <<p.game, p.round, hand[c], p.ans>>)
  /\ To(stage, c, IF WIN \in {wins'[c][1], wins'[c][2]} THEN "over" ELSE "play")
  /\ UNCHANGED <<exits, asked, oppo, hand>>

Accepted(c) ==
  LET p == Head(out[c]) IN
  /\ Receives(c) /\ Expects(c, p.type)
  /\ LoginReply(c, p) \/ Invited(c, p) \/ BackToMenu(c, p) \/ Started(c, p) \/ Answered(c, p)
-----------------------------------------------------------------------------
Client(c) ==
  \/ Connect(c) \/ TypeName(c) \/ Invite(c) \/ Accept(c) \/ Refuse(c) \/ Play(c)
  \/ QuitGame(c) \/ Continue(c) \/ Exit(c) \/ Dropped(c) \/ Accepted(c)

\* Nothing answers once the server is down.
GameNext ==
  \E u \in User : \/ ServerThread(u) /\ UNCHANGED clientVars
                  \/ ~down /\ Client(u)

GameSpec == GameInit /\ ClientInit /\ [][GameNext]_gameVars
-----------------------------------------------------------------------------
Stages == {"off", "login", "sent", "menu", "waiting", "play", "answered", "over"}

GameTypeOK ==
  /\ \E known \in SUBSET Names : ulist \in [known -> state]
  /\ DOMAIN glist \subseteq 0..MaxGames
  /\ \A g \in DOMAIN glist :
       /\ glist[g].pl \subseteq Names /\ Cardinality(glist[g].pl) >= 2
       /\ glist[g].rdy \cup glist[g].refuse \cup glist[g].quit \subseteq glist[g].pl
       /\ glist[g].round \in 0..MaxRound
  /\ named \subseteq DOMAIN ulist
  /\ looking \in [User -> {NoLook} \cup 0..MaxGames]
  /\ down \in BOOLEAN /\ intruded \in BOOLEAN /\ late \in BOOLEAN /\ games \in 0..MaxGames
  /\ \A u \in User : Len(inbox[u]) <= 1 /\ Len(out[u]) <= MaxOut + 1
  /\ stage \in [User -> Stages] /\ asked \in [User -> BOOLEAN]
  /\ oppo \in [User -> Names]

\* As long as no thread has changed a game its user does not play in, the two
\* tables agree: a game number in ulist (state::gid) names a game in glist of
\* exactly two players, the user among them.
PointersValid ==
  ~intruded =>
    /\ ~down
    /\ \A g \in DOMAIN glist : Cardinality(glist[g].pl) = 2
    /\ \A u \in DOMAIN ulist : ulist[u].gid # -1 =>
         ulist[u].gid \in DOMAIN glist /\ u \in glist[ulist[u].gid].pl

\* Between gamestart and the way back to the menu.
Playing(c) == stage[c] \in {"play", "answered", "over"}

\* Two clients that have been shown the same round of the same game were shown
\* the same two hands, each from its own side.
RoundsAgree ==
  ~intruded /\ ~late => \A c, d \in User :
    (c # d /\ Playing(c) /\ Playing(d) /\ seen[c][1] = seen[d][1] /\ seen[c][2] = seen[d][2]) =>
      seen[c] = <<seen[d][1], seen[d][2], seen[d][4], seen[d][3]>>
=============================================================================
