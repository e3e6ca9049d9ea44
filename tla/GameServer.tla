------------------------------ MODULE GameServer ------------------------------
(***************************************************************************)
(* The rock-paper-scissors server of Exp3: a thread for each connected     *)
(* client works on the shared tables ulist and glist.  A thread takes the  *)
(* next packet of its client, or after half a second without one looks     *)
(* whether the game of its user has changed.  It reads the number of that  *)
(* game BEFORE it takes rwlock, so the look is two steps: ReadGid, Look.   *)
(*                                                                         *)
(* A user is a number and the order of the numbers is the order of the     *)
(* names in a std::map; each person logs in under a name of its own.       *)
(* operator[] of a map creates what it does not find: a game record grows  *)
(* a player (pl), ulist a user.  userinfo packets and the menu on the      *)
(* server's terminal are left out.                                         *)
(***************************************************************************)
EXTENDS Integers, Sequences, FiniteSetsExt

CONSTANTS
  User,          \* the names people log in with
  Answer,        \* what may be played, out of 1 rock, 2 paper, 3 scissors
  WIN,           \* the score that ends a game, 2 in the source
  MaxGames,      \* bound: games created
  MaxRound,      \* bound: no game goes past this round
  MaxOut         \* bound: packets on the way to one client

ASSUME GameAssumption ==
  /\ User \subseteq Nat /\ IsFiniteSet(User)
  /\ Answer \subseteq 1..3
  /\ WIN \in Nat \ {0} /\ MaxGames \in Nat /\ MaxRound \in Nat \ {0} /\ MaxOut \in Nat \ {0}

VARIABLES
  ulist,         \* user -> its state, for the users the server knows
  glist,         \* number -> gameinfo
  named,         \* the threads whose local variable name is set
  looking,       \* the gid a thread has read and not yet used, or NoLook
  down,          \* undefined behaviour has ended the server
  inbox,         \* packets to the server, per connection
  out,           \* packets to the client, per connection
  intruded,      \* history: a thread used a number or a name that was out of date
  late,          \* history: a hand was counted in a game it was not played in,
                 \* or a user was moved there from another one
  games          \* how many games have been created, up to MaxGames: in a game, id,
                 \* and in a packet, game, tell as history which one it is or is about

serverVars == <<ulist, glist, named, looking, down, intruded, late, games>>

unknown == 0
NoUser == -1       \* the empty name, before all others in a std::map
Names == User \cup {NoUser}
NoLook == -2
state == [st : {"login", "game"}, gid : -1..MaxGames]
LoggedIn == [st |-> "login", gid |-> -1]

\* gameinfo(name) and set_p2(oppo); the constructor leaves round as memory was.
NewGame(name, oppo, garbage) ==
  [id |-> games + 1, pl |-> {name, oppo}, rdy |-> {name}, refuse |-> {}, quit |-> {},
   hand |-> [u \in Names |-> unknown], shown |-> [u \in Names |-> unknown],
   score |-> [u \in Names |-> 0], read |-> [u \in Names |-> 0], round |-> garbage]

P1(game) == Min(game.pl)
P2(game) == Min(game.pl \ {P1(game)})
Oppo(game, name) == IF name = P1(game) THEN P2(game) ELSE P1(game)

\* Rock, paper and scissors beat scissors, rock and paper.
Beats(a, b) == <<a, b>> \in {<<1, 3>>, <<2, 1>>, <<3, 2>>}

FaultyCleared(game, name, oppo) == [game EXCEPT !.hand[name] = unknown]
Cleared(game, name, oppo) == [game EXCEPT !.hand[name] = unknown, !.hand[oppo] = unknown]

EndRound(game, name) ==
  LET oppo == Min(game.pl \ {name})
      a == game.hand[name]
      b == game.hand[oppo]
  IN IF game.read[name] # 0 \/ game.read[oppo] # 0 THEN game
     ELSE IF unknown \in {a, b} THEN [game EXCEPT !.pl = @ \cup {name}]
     ELSE [Cleared(game, name, oppo) EXCEPT
                       !.score[name] = IF Beats(a, b) THEN @ + 1 ELSE @,
                       !.score[oppo] = IF a # b /\ ~Beats(a, b) THEN @ + 1 ELSE @,
                       !.shown[name] = a, !.shown[oppo] = b,
                       !.read[name] = 1, !.read[oppo] = 1]

NextRound(game) ==
  [game EXCEPT !.round = @ + 1, !.read[P1(game)] = 0, !.read[P2(game)] = 0]

\* The entries of some keys are written, and created where there are none.
With(table, keys, entry) ==
  [k \in DOMAIN table \cup keys |-> IF k \in keys THEN entry ELSE table[k]]
Erased(g) == [i \in DOMAIN glist \ {g} |-> glist[i]]
Packet(t, u) == [type |-> t, u |-> u, ans |-> unknown, round |-> 0, game |-> 0]
SendTo(n, p) == out' = [out EXCEPT ![n] = Append(@, p)]
SentIn(n, p) == inbox[n] # <<>> /\ Head(inbox[n]).type = p

GameInit ==
  /\ ulist = <<>> /\ glist = <<>>
  /\ named = {} /\ looking = [u \in User |-> NoLook]
  /\ down = FALSE /\ intruded = FALSE /\ late = FALSE /\ games = 0
  /\ inbox = [u \in User |-> <<>>] /\ out = [u \in User |-> <<>>]
-----------------------------------------------------------------------------
(* server_handle, a packet of the client                                   *)

\* The thread of n takes the next packet of its client.
Takes(n, type) ==
  /\ ~down /\ looking[n] = NoLook
  /\ SentIn(n, type)
  /\ inbox' = [inbox EXCEPT ![n] = Tail(@)]
  /\ UNCHANGED looking

HandleLogin(n) ==
  /\ Takes(n, "login")
  /\ IF n \notin DOMAIN ulist
     THEN /\ ulist' = With(ulist, {n}, LoggedIn)
          /\ named' = named \cup {n}
          /\ SendTo(n, Packet("loginok", n))
     ELSE /\ SendTo(n, Packet("loginfail", n))
          /\ UNCHANGED <<ulist, named>>
  /\ UNCHANGED <<glist, down, intruded, late, games>>

\* Case 4: the new game takes the number after the last one.
HandleInvite(n) ==
  /\ Takes(n, "gamerequest")
  /\ LET oppo == Head(inbox[n]).u
         gid == IF DOMAIN glist = {} THEN 0 ELSE Max(DOMAIN glist) + 1
     IN IF oppo \in DOMAIN ulist /\ ulist[oppo].st = "login" /\ oppo # n
        THEN /\ games < MaxGames /\ games' = games + 1
             /\ \E garbage \in 0..1 : glist' = With(glist, {gid}, NewGame(n, oppo, garbage))
             /\ ulist' = [ulist EXCEPT ![n].gid = gid, ![oppo].gid = gid]
             /\ UNCHANGED out
        ELSE /\ SendTo(n, Packet("gamerefuse", oppo))
             /\ UNCHANGED <<ulist, glist, games>>
  /\ UNCHANGED <<named, down, intruded, late>>

\* Case 5: the opponent is the one the packet names.  An invitation that has
\* outlived its game moves the opponent out of the one it is in now.
HandleAccept(n) ==
  /\ Takes(n, "gameaccept")
  /\ LET oppo == Head(inbox[n]).u
         gid == ulist[n].gid
     IN IF gid \in DOMAIN glist
        THEN LET game == glist[gid]
                 both == oppo \in game.rdy \cup {n}
             IN /\ glist' = [glist EXCEPT ![gid] =
                     [game EXCEPT !.pl = @ \cup {n, oppo}, !.rdy = @ \cup {n},
                                  !.round = IF both THEN 1 ELSE @]]
                /\ ulist' = IF both
                     THEN With(ulist, {n, oppo}, [st |-> "game", gid |-> gid])
                     ELSE ulist
                /\ SendTo(n, [Packet("gamestart", oppo) EXCEPT !.round = 1, !.game = game.id])
                /\ intruded' = (intruded \/ oppo \notin game.pl)
                /\ late' = (late \/ (both /\ oppo \in DOMAIN ulist /\ ulist[oppo].gid # gid))
        ELSE /\ SendTo(n, Packet("gamerefuse", n))
             /\ UNCHANGED <<ulist, glist, intruded, late>>
  /\ UNCHANGED <<named, down, games>>

\* Cases 6, 7 and 8: a mark on the game of the user, when there is one.
Marks(n, Marked(_)) ==
  /\ glist' = LET gid == ulist[n].gid
              IN IF gid \in DOMAIN glist THEN [glist EXCEPT ![gid] = Marked(@)] ELSE glist
  /\ UNCHANGED <<ulist, named, down, out, intruded, games>>

HandleRefuse(n) ==
  UNCHANGED late /\ Takes(n, "gamerefuse") /\ Marks(n, LAMBDA game : [game EXCEPT !.pl = @ \cup {n}, !.refuse = @ \cup {n}])

HandleQuit(n) ==
  UNCHANGED late /\ Takes(n, "gamequit") /\ Marks(n, LAMBDA game : [game EXCEPT !.pl = @ \cup {n}, !.quit = @ \cup {n}])

\* A hand of the last game is late when the user is in the next one already.
HandleAnswer(n) ==
  /\ Takes(n, "gameanswer")
  /\ Marks(n, LAMBDA game : [game EXCEPT !.pl = @ \cup {n}, !.hand[n] = Head(inbox[n]).ans])
  /\ late' = (late \/ LET gid == ulist[n].gid IN
                        gid \in DOMAIN glist /\ glist[gid].id # Head(inbox[n]).game)

\* Case 2: recv returns 0.  The entry of the opponent is written even when
\* there is none; a game that is gone is looked into all the same.
HandleExit(n) ==
  /\ Takes(n, "eof")
  /\ LET gid == IF n \in named THEN ulist[n].gid ELSE -1
         oppo == IF gid \in DOMAIN glist THEN Oppo(glist[gid], n) ELSE n
     IN /\ down' = (gid \notin DOMAIN glist \cup {-1})
        /\ glist' = Erased(gid)
        /\ ulist' = IF n \in named
                    THEN [u \in (DOMAIN ulist \cup {oppo}) \ {n} |->
                            IF u = oppo THEN LoggedIn ELSE ulist[u]]
                    ELSE ulist
  /\ named' = named \ {n}
  /\ UNCHANGED <<out, intruded, late, games>>
-----------------------------------------------------------------------------
(* server_handle, case 1: nothing arrived for half a second                *)

\* The number of the game, read before rwlock is taken.
ReadGid(n) ==
  /\ ~down /\ n \in named /\ looking[n] = NoLook
  /\ inbox[n] = <<>> /\ Len(out[n]) < MaxOut
  /\ ulist[n].gid # -1
  /\ looking' = [looking EXCEPT ![n] = ulist[n].gid]
  /\ UNCHANGED <<ulist, glist, named, down, intruded, late, games, inbox, out>>

Ask(n, game, oppo) ==
  /\ oppo \in game.rdy /\ n \notin game.rdy
  /\ glist' = [glist EXCEPT ![looking[n]].pl = @ \cup {n}]
  /\ SendTo(n, Packet("gamerequest", oppo))
  /\ UNCHANGED ulist

Start(n, game, oppo) ==
  /\ {n, oppo} \subseteq game.rdy
  /\ glist' = [glist EXCEPT ![looking[n]].rdy = @ \ {n, oppo}]
  /\ SendTo(n, [Packet("gamestart", oppo) EXCEPT !.round = 1, !.game = game.id])
  /\ UNCHANGED ulist

FaultyRefused(n, game, oppo) ==
  /\ oppo \notin game.rdy /\ oppo \in game.refuse
  /\ glist' = Erased(looking[n])
  /\ ulist' = [ulist EXCEPT ![n].gid = -1]
  /\ SendTo(n, Packet("gamerefuse", oppo))

\* The opponent refused: only the numbers of the game are forgotten.
Refused(n, game, oppo) ==
  /\ oppo \notin game.rdy /\ oppo \in game.refuse
  /\ glist' = Erased(looking[n])
  /\ ulist' = [u \in DOMAIN ulist \cup {n, oppo} |->
                  IF u \notin DOMAIN ulist THEN LoggedIn
                  ELSE [ulist[u] EXCEPT !.gid = IF u \in {n, oppo} THEN -1 ELSE @]]
  /\ SendTo(n, Packet("gamerefuse", oppo))

Quitted(n, game, oppo) ==
  /\ oppo \notin game.rdy \cup game.refuse /\ oppo \in game.quit
  /\ glist' = Erased(looking[n])
  /\ ulist' = With(ulist, {n, oppo}, LoggedIn)
  /\ SendTo(n, Packet("gamequit", oppo))

\* The hands are compared, n is told the result once, and when both have
\* been told the next round begins or the game is over.
Round(n, game, oppo) ==
  /\ oppo \notin game.rdy \cup game.refuse \cup game.quit /\ game.round # 0
  /\ LET ended == EndRound(game, n)
         told == IF ended.read[n] = 1 THEN [ended EXCEPT !.read[n] = 2] ELSE ended
         next == IF told.read[n] = 2 /\ told.read[oppo] = 2 THEN NextRound(told) ELSE told
     IN /\ IF ended.read[n] = 1
           THEN SendTo(n, [Packet("gameanswer", oppo) EXCEPT !.ans = ended.shown[oppo],
                                                             !.round = ended.round,
                                                             !.game = game.id])
           ELSE UNCHANGED out
        /\ IF next.round # told.round /\ (next.score[P1(next)] >= WIN \/ next.score[P2(next)] >= WIN)
           THEN /\ glist' = Erased(looking[n])
                /\ ulist' = With(ulist, {n, oppo}, LoggedIn)
           ELSE /\ next.round <= MaxRound
                /\ glist' = [glist EXCEPT ![looking[n]] = next]
                /\ UNCHANGED ulist

Idle(n, game, oppo) ==
  /\ oppo \notin game.rdy \cup game.refuse \cup game.quit /\ game.round = 0
  /\ UNCHANGED <<ulist, glist, out>>

\* A game that is gone is created again without players, and looking at the
\* first of none is undefined behaviour.
Look(n) ==
  /\ ~down /\ looking[n] # NoLook
  /\ looking' = [looking EXCEPT ![n] = NoLook]
  /\ IF looking[n] \in DOMAIN glist
     THEN LET game == glist[looking[n]]
              oppo == Oppo(game, n)
          IN /\ \/ Ask(n, game, oppo) \/ Start(n, game, oppo) \/ Refused(n, game, oppo)
                \/ Quitted(n, game, oppo) \/ Round(n, game, oppo) \/ Idle(n, game, oppo)
             /\ UNCHANGED down
     ELSE down' = TRUE /\ UNCHANGED <<ulist, glist, out>>
  /\ intruded' = (intruded \/ looking[n] # ulist[n].gid)
  /\ UNCHANGED <<named, inbox, late, games>>

ServerThread(n) ==
  \/ HandleLogin(n) \/ HandleInvite(n) \/ HandleAccept(n) \/ HandleRefuse(n)
  \/ HandleQuit(n) \/ HandleAnswer(n) \/ HandleExit(n)
  \/ ReadGid(n) \/ Look(n)
=============================================================================
