---------------------------- MODULE OwnPresence ----------------------------
(***************************************************************************)
(* What the gateway tells XFire of its own user: the Jabber resources with *)
(* their games, the two games remembered as sent, and the table of games   *)
(* that the whole gateway looks its game descriptions up in.               *)
(*                                                                         *)
(* A stanza is handled in one step: what the read thread does in between   *)
(* is GatewayUser's subject.  The priorities are left out: getPresence     *)
(* compares them, and returns the last resource whatever it found.  So are *)
(* the addresses of game servers: one goes with each game status.          *)
(***************************************************************************)
EXTENDS Naturals, SequencesExt

CONSTANTS
  Resource,   \* Jabber resources, numbered in the order of their names
  Plugin,     \* the game elements of plugin.xml; xfireid 0 is none at all
  OwnGames,   \* goim ids that the user's Jabber client may announce
  Foreign,    \* XFire's ids of games that plugin.xml does not have; 0 is no game
  NoInfo,     \* a null GOIMGameInfo pointer
  MaxEvents   \* bound: stanzas, packets and connections lost

ASSUME OwnPresenceAssumption ==
  /\ Resource \subseteq Nat
  /\ \A i \in 1..Len(Plugin) : Plugin[i] \in [goimid : STRING, xfireid : Nat,
                                              changestatus : {"true", "false", ""}]
  /\ \A i \in 1..Len(Plugin) : Plugin[i].xfireid = 0 \/ Plugin[i].xfireid \notin Foreign
  /\ OwnGames \subseteq STRING
  /\ Foreign \subseteq Nat
  /\ NoInfo \notin Nat
  /\ MaxEvents \in Nat

VARIABLES
  presences,  \* User::presences: resource to status and games
  client,     \* "none"; "open"; "dead" when nothing sent arrives any more
  lastsent,   \* lastsentgame and lastsentgame2; 0 is none
  told,       \* the game statuses sent last on this connection
  toldAway,   \* the status sent last on this connection
  holes,      \* ids that the gateway's game table maps to null
  fault,      \* a null game description was followed
  events

vars == <<presences, client, lastsent, told, toldAway, holes, fault, events>>

\* XFire takes one game that changes the status, and one other, a voice chat.
Slot == {"game", "voip"}
NothingTold == [slot \in Slot |-> 0]
-----------------------------------------------------------------------------
(* Game descriptions: ParseGameXML *)

WithId == {i \in 1..Len(Plugin) : Plugin[i].xfireid # 0}

\* A later element with the same id takes the place of an earlier one.
games == [id \in {Plugin[i].xfireid : i \in WithId} |->
            Plugin[Max({i \in WithId : Plugin[i].xfireid = id})]]
SlotOf(id) == IF games[id].changestatus = "false" THEN "voip" ELSE "game"

\* getGameInfoByGOIMId goes through the table in the order of the ids, and
\* looks into each description until one fits.
Fitting(goimid) == {id \in DOMAIN games : games[id].goimid = goimid}
GameInfo(goimid) == IF Fitting(goimid) = {} THEN NoInfo ELSE Min(Fitting(goimid))
LookupFaults(goimid) ==
  \E h \in holes : Fitting(goimid) = {} \/ h < Min(Fitting(goimid))

\* resolveGame asks with games[gameid], which enters null for what it lacks.
Resolved(id) == IF id \in DOMAIN games THEN holes ELSE holes \union {id}
-----------------------------------------------------------------------------
(* What presenceChanged tells XFire *)

\* getPresence: the last resource in the order of the map.
Effective(P) == P[Max(DOMAIN P)]

InSlot(list, slot) == {k \in 1..Len(list) : list[k] # NoInfo /\ SlotOf(list[k]) = slot}
First(list, slot) == IF InSlot(list, slot) = {} THEN 0 ELSE list[Min(InSlot(list, slot))]

\* The first game is looked at, whether or not there is one.
LoopFaultsUntested(list) == list = <<>> \/ list[1] = NoInfo

\* The loop looks at one game after the other until it has one for each slot.
LoopFaults(list) ==
  \E k \in 1..Len(list) :
    list[k] = NoInfo /\ \E slot \in Slot : \A j \in InSlot(list, slot) : j > k

\* Without the ends.
SendsNoEnd(list, slot) ==
  First(list, slot) # 0 /\ First(list, slot) # lastsent[slot]

\* A status for a game other than the one remembered; an end whenever there is
\* no game now and there has been one once.
Sends(list, slot) ==
  IF First(list, slot) # 0 THEN First(list, slot) # lastsent[slot]
                           ELSE lastsent[slot] > 0

\* Every game of the slot is remembered, the last one in the end.
RemembersLast(list, slot) ==
  IF InSlot(list, slot) # {} THEN list[Max(InSlot(list, slot))] ELSE lastsent[slot]

\* The end of a game leaves what is remembered.
Remembers(list, slot) ==
  IF First(list, slot) # 0 THEN First(list, slot) ELSE lastsent[slot]

\* What is sent to a connection that is dead is lost, and remembered.
TellXFire(own, before, reached) ==
  /\ lastsent' = [slot \in Slot |-> Remembers(own.games, slot)]
  /\ told' = [slot \in Slot |->
               IF reached /\ Sends(own.games, slot) THEN First(own.games, slot) ELSE before[slot]]
  /\ toldAway' = (reached /\ own.away)
  /\ fault' = LoopFaults(own.games)

\* Present: a client if there is none, whose connection may be refused.
Present(P) ==
  IF client = "none"
    THEN \E open \in BOOLEAN :
           /\ client' = IF open THEN "open" ELSE "dead"
           /\ TellXFire(Effective(P), NothingTold, open)
    ELSE /\ TellXFire(Effective(P), told, client = "open")
         /\ UNCHANGED client

\* No resource is left: the client is disconnected and deleted.
Absent ==
  /\ client' = "none" /\ told' = NothingTold /\ toldAway' = FALSE
  /\ UNCHANGED <<lastsent, fault>>

presenceChanged(P) == IF DOMAIN P # {} THEN Present(P) ELSE Absent
-----------------------------------------------------------------------------
(* The handlers *)

Init ==
  /\ presences = [r \in {} |-> 0]
  /\ client = "none" /\ lastsent = NothingTold /\ told = NothingTold /\ toldAway = FALSE
  /\ holes = {} /\ fault = FALSE /\ events = 0

Event == ~fault /\ events < MaxEvents /\ events' = events + 1

\* The games a resource announced before, if it is there already.
GamesOf(r) == IF r \in DOMAIN presences THEN presences[r].games ELSE <<>>

With(r, away, list) ==
  [s \in DOMAIN presences \union {r} |->
    IF s = r THEN [away |-> away, games |-> GamesOf(r) \o list] ELSE presences[s]]

Without(r) == [s \in DOMAIN presences \ {r} |-> presences[s]]

\* An available presence with at most one game: it joins those of before.
PresenceAvailable(r, away, announced) ==
  /\ Event
  /\ IF \E g \in announced : LookupFaults(g)
       THEN fault' = TRUE /\ UNCHANGED <<presences, client, lastsent, told, toldAway>>
       ELSE LET list == SetToSeq({GameInfo(g) : g \in announced})
                P    == With(r, away, list)
            IN  presences' = P /\ presenceChanged(P)
  /\ UNCHANGED holes

PresenceUnavailable(r) ==
  /\ Event
  /\ presences' = Without(r)
  /\ presenceChanged(Without(r))
  /\ UNCHANGED holes

\* A stanza of another kind to the gateway itself, such as a subscription.
OtherStanza ==
  /\ Event
  /\ presenceChanged(presences)
  /\ UNCHANGED <<presences, holes>>

\* A buddy's game, in a packet to this user or another one of the gateway.
BuddyGame(id) ==
  /\ Event
  /\ holes' = Resolved(id)
  /\ UNCHANGED <<presences, client, lastsent, told, toldAway, fault>>

\* The server closes the connection; nobody looks whether a packet was sent.
ConnectionLost ==
  /\ Event
  /\ client = "open"
  /\ client' = "dead" /\ told' = NothingTold /\ toldAway' = FALSE
  /\ UNCHANGED <<presences, lastsent, holes, fault>>

\* Another log-in: the client is deleted, unless the thread ends in the middle.
OtherLogin ==
  /\ Event
  /\ client = "open"
  /\ client' \in {"none", "dead"} /\ told' = NothingTold /\ toldAway' = FALSE
  /\ UNCHANGED <<presences, lastsent, holes, fault>>

Next ==
  \/ \E r \in Resource, away \in BOOLEAN :
       \E announced \in {{}} \union {{g} : g \in OwnGames} :
         PresenceAvailable(r, away, announced)
  \/ \E r \in Resource : PresenceUnavailable(r)
  \/ OtherStanza
  \/ \E id \in Foreign \union DOMAIN games : BuddyGame(id)
  \/ ConnectionLost
  \/ OtherLogin

Spec == Init /\ [][Next]_vars
-----------------------------------------------------------------------------
(* Properties *)

TypeOK ==
  /\ DOMAIN presences \subseteq Resource
  /\ \A r \in DOMAIN presences :
       presences[r] \in [away : BOOLEAN, games : Seq(DOMAIN games \union {NoInfo})]
  /\ client \in {"none", "open", "dead"}
  /\ lastsent \in [Slot -> DOMAIN games \union {0}]
  /\ told \in [Slot -> DOMAIN games \union {0}]
  /\ toldAway \in BOOLEAN
  /\ holes \subseteq Foreign
  /\ fault \in BOOLEAN
  /\ events \in 0..MaxEvents

Connected == client = "open" /\ ~fault /\ DOMAIN presences # {}
LastResource == presences[CHOOSE r \in DOMAIN presences : \A s \in DOMAIN presences : s <= r]

(* XFire never believes what is not so: the status told is that of the last  *)
(* resource, and a game told and not ended is the first of its slot there,   *)
(* through every change of resource, log-out and new connection.             *)
NeverToldWrong ==
  Connected =>
    /\ toldAway = LastResource.away
    /\ \A slot \in Slot :
         told[slot] \in {0, First(LastResource.games, slot)}

(* A game XFire is not told of is the one remembered as sent, and only after *)
(* another connection or an end: then the memory of presenceChanged, which   *)
(* forgets nothing, keeps it from being sent.                                *)
UntoldOnlyIfRemembered ==
  Connected =>
    \A slot \in Slot :
      LET now == First(LastResource.games, slot)
      IN  now # told[slot] => lastsent[slot] = now

(* Following a null game description takes a game that the gateway has no    *)
(* description of: one the user announced, or one that a buddy of anybody    *)
(* played or stopped playing, since id 0 is looked up as a game too.         *)
FaultsNeedAnUnknownGame ==
  fault => \/ holes # {}
           \/ \E r \in DOMAIN presences : \E k \in 1..Len(presences[r].games) :
                presences[r].games[k] = NoInfo
=============================================================================
