----------------------------- MODULE IrcChannel -----------------------------
(***************************************************************************)
(* A channel the bot was told to join (ircchannel.c, and IrcServer_join    *)
(* and IrcServer_part of ircserver.c), with the bot's handlers for it      *)
(* (chanJoined in ircbot.c), the login state of its server and, external,  *)
(* the IRC network's side of the channel.  Commands and messages travel in *)
(* order and are lost when the connection ends.  Everything in the bot     *)
(* runs on the main thread; a tick is dispatched handler by handler.       *)
(***************************************************************************)
EXTENDS EventList

CONSTANTS Nicks,         \* nicks of other users
          JoinSyncTicks, RejoinTicks,   \* JOINSYNCTICKS and REJOINTICKS
          MaxInFlight,   \* bound: messages on their way to the bot
          MaxEvents      \* bound: kicks, disconnects and others' moves

ASSUME TicksAssumption == JoinSyncTicks \in Nat \ {0} /\ RejoinTicks \in Nat \ {0}
ASSUME BoundsAssumption == MaxInFlight \in Nat /\ MaxEvents \in Nat
(* The bot's own nick is none of them.                                     *)
ASSUME NicksAssumption == "own" \notin Nicks

VARIABLES
    live,           \* the IrcChannel exists, or was destroyed "twice"
    online,         \* the server is logged in (connst > 0)
    isJoined, wantJoined, joinsyncticks, rejointicks,
    nicks,          \* the keys of the hash table nicks that are nicks
    misnamed,       \* its keys that begin with a prefix, without the prefix
    ticks, pos,     \* handlers of the tick event, position of Event_raise
    onConnect,      \* registrations of joinOnConnect
    onDisconnect,   \* registrations of disconnected
    userHandlers,   \* registrations of userJoined and of userParted
    toServer,       \* commands on their way to the network
    toBot,          \* messages on their way to the bot
    member, others, \* network: the bot is on the channel, and who else is
    voiced,         \* history: of them, whom NAMES listed with a prefix "+"
    events          \* how many bounded events have happened

fields == <<isJoined, wantJoined, joinsyncticks, rejointicks, nicks, misnamed>>
handlers == <<ticks, onConnect, onDisconnect, userHandlers>>
network == <<member, others, voiced>>
vars == <<live, online, fields, handlers, pos, toServer, toBot, network, events>>

(* NAMES lists the users with prefixes for what they are on the channel:   *)
(* "@" stands for "@", "%" and none, "+" for "+" and all the others.       *)
Prefixes == {"@", "+"}
Entries == [nick : Nicks, prefix : Prefixes]

(* What the network sends, with the nick it is about.  NICK also says      *)
(* whether the user is one of voiced, which no handler looks at.           *)
Messages ==
    [cmd : {"JOIN", "PART", "KICK"}, nick : Nicks \cup {"own"}]
    \cup [cmd : {"NICK"}, nick : Nicks, new : Nicks, voiced : BOOLEAN]
    \cup [cmd : {"NAMES"}, list : SUBSET Entries]
    \cup [cmd : {"ENDOFNAMES"}]

(* Every variable has its type; neither timeout is counted down past the 0 *)
(* at which the code acts on it, which it would never reach again.         *)
TypeOK ==
    /\ live \in {"yes", "twice", "not yet"} /\ online \in BOOLEAN
    /\ isJoined \in BOOLEAN /\ wantJoined \in BOOLEAN
    /\ joinsyncticks \in 0..JoinSyncTicks
    /\ rejointicks \in 0..RejoinTicks
    /\ nicks \subseteq Nicks /\ misnamed \subseteq Nicks
    /\ ticks \in Seq({"waitjoin", "waitrejoin", "gone"}) /\ pos \in Nat
    /\ onConnect \in Nat /\ onDisconnect \in 0..2 /\ userHandlers \in 0..2
    /\ toServer \in Seq({"JOIN", "PART"})
    /\ toBot \in Seq(Messages)
    /\ member \in BOOLEAN /\ others \subseteq Nicks /\ voiced \subseteq others
    /\ events \in 0..MaxEvents

Init ==
    /\ live = "not yet" /\ online = FALSE
    /\ isJoined = FALSE /\ wantJoined = FALSE
    /\ joinsyncticks = 0 /\ rejointicks = 0
    /\ nicks = {} /\ misnamed = {} /\ ticks = <<>> /\ pos = 0
    /\ onConnect = 0 /\ onDisconnect = 0 /\ userHandlers = 0
    /\ toServer = <<>> /\ toBot = <<>>
    /\ member = FALSE /\ others \in SUBSET Nicks /\ voiced = {}
    /\ events = 0

Waiting == pos = 0 /\ live # "twice"

(* An event of the environment that is counted against the bound.          *)
Counted == events < MaxEvents /\ events' = events + 1

-----------------------------------------------------------------------------
(* The bot.                                                                *)

(* onDisconnect and userHandlers only tell none, one and more apart.       *)
More(n) == IF n = 0 THEN 1 ELSE 2

(* IrcChannel_join when wantJoined is 0, with list the tick handlers.      *)
join(list) ==
    /\ wantJoined' = TRUE
    /\ \/ /\ online'
          /\ toServer' = Append(toServer, "JOIN")
          /\ joinsyncticks' = JoinSyncTicks
          /\ ticks' = Register(list, "waitjoin")
          /\ onDisconnect' = More(onDisconnect)
          /\ onConnect' = 0
       \/ /\ ~online'
          /\ onConnect' = onConnect + 1
          /\ ticks' = list
          /\ UNCHANGED <<toServer, joinsyncticks, onDisconnect>>

(* IrcServer_join creates the channel; again, it does nothing.             *)
IrcServer_join ==
    /\ Waiting /\ live = "not yet"
    /\ live' = "yes"
    /\ UNCHANGED online
    /\ join(ticks)
    /\ UNCHANGED <<isJoined, rejointicks, nicks, misnamed, userHandlers, pos,
                   toBot, network, events>>

(* IrcServer_part: IrcChannel_part; then the channel is destroyed, and     *)
(* destroyed again by IBHashTable_delete.                                  *)
IrcServer_part ==
    /\ Waiting /\ live = "yes"
    /\ live' = "twice"
    /\ wantJoined' = FALSE
    /\ isJoined' = FALSE
    /\ onConnect' = 0
    /\ ticks' = Unregister(Unregister(ticks, "waitjoin"), "waitrejoin")
    /\ onDisconnect' = 0
    /\ toServer' = IF isJoined /\ online THEN Append(toServer, "PART") ELSE toServer
    /\ UNCHANGED <<online, joinsyncticks, rejointicks, nicks, misnamed,
                   userHandlers, pos, toBot, network, events>>

(* The server's connected event: joinOnConnect, if it is registered.       *)
Connect ==
    /\ Waiting /\ ~online
    /\ online' = TRUE
    /\ \/ /\ onConnect > 0
          /\ join(ticks)
       \/ /\ onConnect = 0
          /\ UNCHANGED <<wantJoined, joinsyncticks, ticks, onConnect,
                         onDisconnect, toServer>>
    /\ UNCHANGED <<live, isJoined, rejointicks, nicks, misnamed, userHandlers,
                   pos, toBot, network, events>>

(* mutant: the channel is not remembered for the next connection *)
WantedOnConnectNever == 0

(* Whether disconnected registers joinOnConnect.                           *)
WantedOnConnect == IF wantJoined THEN 1 ELSE 0

(* The server's disconnected event: disconnected, if it is registered.     *)
Disconnect ==
    /\ Waiting /\ online /\ Counted
    /\ online' = FALSE
    /\ toServer' = <<>> /\ toBot' = <<>>
    /\ member' = FALSE
    /\ \/ /\ onDisconnect > 0
          /\ ticks' = Unregister(Unregister(ticks, "waitjoin"), "waitrejoin")
          /\ onDisconnect' = 0
          /\ onConnect' = WantedOnConnect
          /\ isJoined' = FALSE
       \/ /\ onDisconnect = 0
          /\ UNCHANGED <<ticks, onDisconnect, onConnect, isJoined>>
    /\ UNCHANGED <<live, wantJoined, joinsyncticks, rejointicks, nicks,
                   misnamed, userHandlers, pos, others, voiced>>

-----------------------------------------------------------------------------
(* handleMsg, for the next message.                                        *)

Handling(cmd) ==
    /\ Waiting /\ live = "yes" /\ toBot # <<>>
    /\ Head(toBot).cmd = cmd
    /\ toBot' = Tail(toBot)
    /\ UNCHANGED <<live, online, wantJoined, joinsyncticks, onConnect,
                   onDisconnect, pos, toServer, network, events>>

(* MSG_JOIN: another user enters.                                          *)
HandleJoin ==
    /\ Handling("JOIN")
    /\ nicks' = nicks \cup ({Head(toBot).nick} \ {"own"})
    /\ UNCHANGED <<isJoined, rejointicks, misnamed, ticks, userHandlers>>

(* MSG_PART and MSG_QUIT: the bot's own nick is not in the table.          *)
HandlePart ==
    /\ Handling("PART")
    /\ nicks' = nicks \ {Head(toBot).nick}
    /\ UNCHANGED <<isJoined, rejointicks, misnamed, ticks, userHandlers>>

(* MSG_NICK: the new nick is not added when the old one is not in the      *)
(* table.                                                                  *)
HandleNick ==
    /\ Handling("NICK")
    /\ nicks' = IF Head(toBot).nick \in nicks
                THEN (nicks \ {Head(toBot).nick}) \cup {Head(toBot).new}
                ELSE nicks
    /\ UNCHANGED <<isJoined, rejointicks, misnamed, ticks, userHandlers>>

(* mutant: every kick is taken for one of the bot *)
KickedSelfAlways(nick) == TRUE

KickedSelf(nick) == nick = "own"

(* MSG_KICK of another user, and of the bot.                               *)
HandleKick ==
    /\ Handling("KICK")
    /\ \/ /\ ~KickedSelf(Head(toBot).nick)
          /\ nicks' = nicks \ {Head(toBot).nick}
          /\ UNCHANGED <<isJoined, rejointicks, ticks>>
       \/ /\ KickedSelf(Head(toBot).nick)
          /\ isJoined' = FALSE
          /\ rejointicks' = IF wantJoined THEN RejoinTicks ELSE rejointicks
          /\ ticks' = IF wantJoined THEN Register(ticks, "waitrejoin") ELSE ticks
          /\ UNCHANGED nicks
    /\ UNCHANGED <<misnamed, userHandlers>>

(* mutant: no prefix is skipped *)
SkippedNone == {}

(* The prefixes that handleMsg skips: it tests for "@", "%" and once more  *)
(* "@".                                                                    *)
Skipped == {"@"}

(* The nicks that RPL_NAMREPLY puts into the table without a prefix, and   *)
(* with one.                                                               *)
Named(list) == {e.nick : e \in {e \in list : e.prefix \in Skipped}}
Misnamed(list) == {e.nick : e \in {e \in list : e.prefix \notin Skipped}}

(* RPL_NAMREPLY.                                                           *)
HandleNames ==
    /\ Handling("NAMES")
    /\ nicks' = nicks \cup Named(Head(toBot).list)
    /\ misnamed' = misnamed \cup Misnamed(Head(toBot).list)
    /\ UNCHANGED <<isJoined, rejointicks, ticks, userHandlers>>

JoinedHandlers(list) == Unregister(Unregister(list, "waitjoin"), "waitrejoin")

(* RPL_ENDOFNAMES; chanJoined registers the handlers for other users.      *)
HandleEndOfNames ==
    /\ Handling("ENDOFNAMES")
    /\ isJoined' = TRUE
    /\ ticks' = JoinedHandlers(ticks)
    /\ userHandlers' = More(userHandlers)
    /\ UNCHANGED <<rejointicks, nicks, misnamed>>

-----------------------------------------------------------------------------
(* A tick.                                                                 *)

TickStart ==
    /\ Waiting /\ ticks # <<>> /\ Len(toServer) < MaxInFlight
    /\ pos' = 1
    /\ UNCHANGED <<live, online, fields, handlers, toServer, toBot, network, events>>

At(h) ==
    /\ pos \in DOMAIN ticks /\ ticks[pos] = h
    /\ pos' = pos + 1
    /\ UNCHANGED <<live, online, isJoined, nicks, misnamed, userHandlers, toBot,
                   network, events>>

TickSkip ==
    /\ At("gone")
    /\ UNCHANGED <<wantJoined, joinsyncticks, rejointicks, ticks, onConnect,
                   onDisconnect, toServer>>

TickEnd ==
    /\ pos > Len(ticks)
    /\ pos' = 0
    /\ UNCHANGED <<live, online, fields, handlers, toServer, toBot, network, events>>

(* mutant: nothing is left to try again *)
ExpiredHandlersNone(list) == Unregister(list, "waitjoin")

ExpiredHandlers(list) == Register(Unregister(list, "waitjoin"), "waitrejoin")

waitjoin ==
    /\ At("waitjoin")
    /\ joinsyncticks' = joinsyncticks - 1
    /\ \/ /\ joinsyncticks' = 0
          /\ toServer' = IF online THEN Append(toServer, "PART") ELSE toServer
          /\ ticks' = ExpiredHandlers(ticks)
          /\ rejointicks' = RejoinTicks
       \/ /\ joinsyncticks' # 0
          /\ UNCHANGED <<toServer, ticks, rejointicks>>
    /\ UNCHANGED <<wantJoined, onConnect, onDisconnect>>

(* wantJoined is reset, so that IrcChannel_join does its work.             *)
waitrejoin ==
    /\ At("waitrejoin")
    /\ rejointicks' = rejointicks - 1
    /\ \/ /\ rejointicks' = 0
          /\ join(Unregister(ticks, "waitrejoin"))
       \/ /\ rejointicks' # 0
          /\ UNCHANGED <<wantJoined, joinsyncticks, ticks, onConnect,
                         onDisconnect, toServer>>

-----------------------------------------------------------------------------
(* The network: commands are answered in order, and everyone on the        *)
(* channel is told of what happens there.                                  *)

bot == <<live, online, fields, handlers, pos>>

Tell(msgs) == toBot' = toBot \o msgs /\ Len(toBot) < MaxInFlight

(* The bot's own entry is left out of NAMES: it is ignored, or goes into   *)
(* the table with a prefix, where nothing looks for it.                    *)
Welcome(prefix) ==
    <<[cmd |-> "JOIN", nick |-> "own"],
      [cmd |-> "NAMES",
       list |-> {[nick |-> n, prefix |-> prefix[n]] : n \in others}],
      [cmd |-> "ENDOFNAMES"]>>

NetworkJoin ==
    /\ toServer # <<>> /\ Head(toServer) = "JOIN"
    /\ toServer' = Tail(toServer)
    /\ \/ /\ ~member
          /\ member' = TRUE
          /\ \E prefix \in [others -> Prefixes] :
                /\ Tell(Welcome(prefix))
                /\ voiced' = {n \in others : prefix[n] = "+"}
          /\ UNCHANGED events
       \/ /\ ~member /\ Counted     \* refused, e.g. the bot is banned
          /\ UNCHANGED <<member, voiced, toBot>>
       \/ /\ member
          /\ UNCHANGED <<member, voiced, toBot, events>>
    /\ UNCHANGED <<bot, others>>

NetworkPart ==
    /\ toServer # <<>> /\ Head(toServer) = "PART"
    /\ toServer' = Tail(toServer)
    /\ member' = FALSE
    /\ \/ member /\ Tell(<<[cmd |-> "PART", nick |-> "own"]>>)
       \/ ~member /\ UNCHANGED toBot
    /\ UNCHANGED <<bot, others, voiced, events>>

Kick ==
    /\ member /\ Counted
    /\ member' = FALSE
    /\ Tell(<<[cmd |-> "KICK", nick |-> "own"]>>)
    /\ UNCHANGED <<bot, toServer, others, voiced>>

(* Another user's move, of which the bot is told if it is on the channel.  *)
TellMember(msg) == IF member THEN Tell(<<msg>>) ELSE UNCHANGED toBot

OtherJoins(n) ==
    /\ n \notin others /\ Counted
    /\ others' = others \cup {n}
    /\ TellMember([cmd |-> "JOIN", nick |-> n])
    /\ UNCHANGED <<bot, toServer, member, voiced>>

OtherLeaves(n) ==
    /\ n \in others /\ Counted
    /\ others' = others \ {n} /\ voiced' = voiced \ {n}
    /\ \E cmd \in {"PART", "KICK"} : TellMember([cmd |-> cmd, nick |-> n])
    /\ UNCHANGED <<bot, toServer, member>>

OtherRenames(n, new) ==
    /\ n \in others /\ new \notin others /\ Counted
    /\ others' = (others \ {n}) \cup {new}
    /\ voiced' = IF n \in voiced THEN (voiced \ {n}) \cup {new} ELSE voiced
    /\ TellMember([cmd |-> "NICK", nick |-> n, new |-> new, voiced |-> n \in voiced])
    /\ UNCHANGED <<bot, toServer, member>>

-----------------------------------------------------------------------------
Tick == TickStart \/ TickSkip \/ TickEnd \/ waitjoin \/ waitrejoin

Handle == HandleJoin \/ HandlePart \/ HandleNick \/ HandleKick \/ HandleNames
          \/ HandleEndOfNames

Answer == NetworkJoin \/ NetworkPart

Next ==
    \/ IrcServer_join \/ IrcServer_part \/ Connect \/ Disconnect
    \/ Handle \/ Tick \/ Answer \/ Kick
    \/ \E n \in Nicks : OtherJoins(n) \/ OtherLeaves(n)
    \/ \E n, new \in Nicks : OtherRenames(n, new)

Spec == Init /\ [][Next]_vars

(* The timer goes on, what was received is handled, and a connected        *)
(* network answers.                                                        *)
FairSpec == Spec /\ WF_vars(Tick) /\ WF_vars(Handle) /\ WF_vars(Answer)

-----------------------------------------------------------------------------
(* Properties.                                                             *)

(* A wanted channel that is not joined is pursued by exactly one of the    *)
(* three handlers that will try again (waitjoin, waitrejoin,               *)
(* joinOnConnect), and a joined one by none, however kicks, timeouts, late *)
(* answers and disconnects are ordered.  Every variable has its type.      *)
OnePursuit ==
    /\ TypeOK
    /\ live = "yes" =>
          Registered(ticks, "waitjoin") + Registered(ticks, "waitrejoin") + onConnect
              = (IF wantJoined /\ ~isJoined THEN 1 ELSE 0)

(* Bot and network agree, once nothing is on its way: the bot knows that   *)
(* it is on the channel.                                                   *)
Quiet == live = "yes" /\ toServer = <<>> /\ toBot = <<>>
MembershipKnown == Quiet /\ member => isJoined

(* No user of a joined channel is missing in nicks, except those that      *)
(* NAMES listed with a prefix handleMsg does not skip: they are there      *)
(* under a name with the prefix, which nothing removes or renames, and     *)
(* missing under their own, also after a change of it, until they come     *)
(* back.                                                                   *)
NicksComplete == Quiet /\ member => others \ voiced \subseteq nicks

(* A wanted channel is asked for again, as long as the server stays        *)
(* connected.                                                              *)
TriesAgain ==
    (online /\ live = "yes" /\ wantJoined /\ ~isJoined)
        ~> (isJoined \/ ~online \/ live = "twice"
              \/ \E i \in DOMAIN toServer : toServer[i] = "JOIN")

(* IrcChannel_isJoined says whether the bot is on the channel, once        *)
(* nothing is on its way.                                                  *)
JoinedMeansMember == Quiet /\ isJoined => member
=============================================================================
