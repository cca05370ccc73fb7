---------------------------- MODULE GatewayUser ----------------------------
(***************************************************************************)
(* One registered user of the gateway: the Jabber thread that follows his  *)
(* presences and subscriptions, the XFire client it creates and deletes,   *)
(* the client's read thread, which calls the same User without a lock, and *)
(* its keep-alive thread.                                                  *)
(*                                                                         *)
(* Cancelling a thread is deferred: a read thread blocked in recv ends at  *)
(* once, one in the middle of a packet goes on to its next cancellation    *)
(* point.  Such a thread is a stray.  A buddy's session id is his user id  *)
(* while he is online.  What a stanza or a packet says beyond the names it *)
(* is about (status texts, games, the body of a message) is left out.      *)
(***************************************************************************)
EXTENDS BuddyList, FiniteSets

CONSTANTS
  Buddy, UserId,
  Resource,    \* the user's Jabber resources
  MaxWire,     \* bound: packets on the wire
  MaxEvents    \* bound: stanzas from Jabber and packets from XFire

ASSUME GatewayUserAssumption ==
  /\ IsFiniteSet(Buddy) /\ "" \notin Buddy
  /\ UserId \in [Buddy -> Nat \ {0}]
  /\ \A b, c \in Buddy : UserId[b] = UserId[c] => b = c
  /\ MaxWire \in Nat /\ MaxEvents \in Nat

VARIABLES
  present,   \* the resources in User::presences
  client,    \* User::client; a zombie is one whose destructor never returned
  socket,    \* the client's socket: wild is the garbage of an unset pointer
  entries,   \* the client's buddy list
  listening, \* the User is among the packet reader's listeners
  reader,    \* the client's read thread
  pinger,    \* its keep-alive thread: asleep, or writing through the socket
  strays,    \* cancelled read threads that still hold a packet
  main,      \* the Jabber thread
  tag,       \* the buddy whose subscription it answers, and the presence to send
  inroster,  \* User::inroster
  asked,     \* buddies the Jabber user was asked to subscribe to
  shown,     \* what Jabber was last told of each buddy
  mirror,    \* what Jabber was last told of the gateway itself
  fault,     \* a wild, null or freed pointer was followed, or a vector torn
  friends, online, wire, events,      \* the XFire server (external)
  race,      \* ghost: which of the unguarded windows were entered
  raced      \* ghost: buddies of the packets handled inside one

jabber == <<inroster, asked, shown, mirror>>
server == <<friends, online, wire>>
vars == <<present, client, socket, entries, listening, reader, pinger, strays, main,
          tag, jabber, fault, server, events, race, raced>>

Races == {"refused", "attach", "cancel", "otherlogin", "walk", "struck"}
NoPacket == [kind |-> "none"]
NoTag == [to |-> "none", on |-> FALSE]
Packets ==
  {NoPacket, [kind |-> "otherlogin"]}
    \union {[kind |-> "removed", id |-> UserId[b], name |-> n] : b \in Buddy, n \in Buddy \union {""}}
    \union {[kind |-> "online", items |-> <<[id |-> UserId[b], sid |-> s]>>] :
              b \in Buddy, s \in {NoSid} \union {UserId[c] : c \in Buddy}}
    \union {[kind |-> "message", sid |-> UserId[b]] : b \in Buddy}
    \union {[kind |-> "games", items |-> <<[sid |-> UserId[b], game |-> 0]>>] : b \in Buddy}
    \union {[kind |-> "names", items |-> [k \in 1..Len(s) |->
               [name |-> s[k], id |-> UserId[s[k]], nick |-> s[k]]]] :
              s \in UNION {SetToSeqs(S) : S \in SUBSET Buddy}}

TypeOK ==
  /\ present \subseteq Resource
  /\ client \in {"null", "live", "zombie"}
  /\ socket \in {"none", "null", "wild", "open", "closed"}
  /\ \A i \in 1..Len(entries) : entries[i].username \in Buddy
  /\ ~fault /\ client = "null" => entries = <<>> /\ socket = "none" /\ reader.at = "none"
  /\ listening \in BOOLEAN
  /\ reader \in [at : {"none", "recv", "list", "user"}, packet : Packets]
  /\ pinger \in {"none", "asleep", "sending"}
  /\ strays \subseteq [at : {"list", "user"}, packet : Packets]
  /\ main \in {"idle", "attach", "status", "goodbye", "delete", "mirror", "insert",
              "accept", "tag"}
  /\ tag \in [to : Buddy \union {"none"}, on : BOOLEAN]
  /\ ToSet(inroster) \subseteq Buddy
  /\ asked \subseteq Buddy
  /\ shown \in [Buddy -> {"none", "on", "off"}]
  /\ mirror \in {"none", "on", "off"}
  /\ fault \in BOOLEAN
  /\ friends \subseteq Buddy /\ online \subseteq friends
  /\ Len(wire) <= MaxWire /\ ToSet(wire) \subseteq Packets
  /\ events \in 0..MaxEvents
  /\ race \subseteq Races
  /\ raced \subseteq Buddy

Idle == [at |-> "none", packet |-> NoPacket]

Init ==
  /\ present = {} /\ client = "null" /\ socket = "none" /\ entries = <<>>
  /\ listening = FALSE /\ reader = Idle /\ pinger = "none" /\ strays = {} /\ main = "idle" /\ tag = NoTag
  /\ inroster = <<>> /\ asked = {} /\ mirror = "none"
  /\ shown = [b \in Buddy |-> "none"]
  /\ fault = FALSE /\ friends \in SUBSET Buddy /\ online = {} /\ wire = <<>>
  /\ events = 0 /\ race = {} /\ raced = {}
-----------------------------------------------------------------------------
(* Helpers *)

\* The scan ends at the first entry, whoever it is.
InRosterAnybody(b) == inroster # <<>>

InRoster(b) == Contains(inroster, b)
Entry(b) == entries[IndexByName(entries, b)]
HasEntry(b) == IndexByName(entries, b) # 0
\* Without the type attribute.
OnOffUntyped(on) == "on"

OnOff(on) == IF on THEN "on" ELSE "off"

\* Following User::client: what a null or half destroyed client can do.
Following ==
  CASE client = "null" -> {TRUE} [] client = "zombie" -> BOOLEAN [] OTHER -> {FALSE}

\* Client::send through an unset socket pointer; a null one is tested for.
Sending == IF socket = "wild" THEN BOOLEAN ELSE Following

\* Short of the last entry.
ReachedShort ==
  {b \in Buddy : HasEntry(b) /\ InRoster(b) /\ IndexByName(entries, b) # Len(entries)}

\* sendUnavailableForAllBuddies goes through the entries, not the roster.
Reached == {b \in Buddy : HasEntry(b) /\ InRoster(b)}
Unavailable(S) == [b \in Buddy |-> IF b \in S THEN "off" ELSE shown[b]]

About(p) ==
  {b \in Buddy : \/ p.kind \in {"removed"} /\ p.id = UserId[b]
                 \/ p.kind \in {"message"} /\ p.sid = UserId[b]
                 \/ p.kind \in {"online"} /\ p.items[1].id = UserId[b]
                 \/ p.kind \in {"games"} /\ p.items[1].sid = UserId[b]
                 \/ p.kind \in {"names"} /\ \E k \in 1..Len(p.items) : p.items[k].name = b}

\* The buddy whose subscription is being answered.
Answered == IF main \in {"insert", "accept", "tag"} THEN {tag.to} ELSE {}

\* The read threads that hold a packet; a cancelled one becomes a stray.
HeldByReader == IF reader.at \in {"list", "user"} THEN {reader} ELSE {}

\* A read thread is about to change, or changing, what the Jabber thread walks:
\* the buddy list's vector, or the roster.
ListMoves == reader.at = "list" /\ reader.packet.kind \in {"names", "removed"}
RosterMoves ==
  \E t \in strays \union HeldByReader : t.at = "user" /\ t.packet.kind = "removed"

\* push_back moves the roster, and a read thread goes through it; or the presence
\* is composed from a game that a read thread is deleting.
RosterRead ==
  \E t \in strays \union HeldByReader :
     t.at = "user" /\ t.packet.kind \in {"names", "removed", "otherlogin"}
GameMoves == main = "insert" /\ reader.at = "list" /\ reader.packet.kind = "games"

\* Two threads meet on unlocked memory: it may go well.
Meeting(both) == IF both THEN BOOLEAN ELSE {}
Met(both) == race' = race \union IF both THEN {"walk"} ELSE {}

\* Each games packet runs on into the removal; one that takes a buddy away
\* writes his name through its own pointers as well.
Strikes(p) == p.kind = "games" /\ Len(entries') # Len(entries)
ListTurn(p) ==
  /\ entries' \in Results(entries, p)
  /\ fault' = Strikes(p)
  /\ race' = race \union IF Strikes(p) THEN {"struck"} ELSE {}

\* The server ends a friendship, its own doing or asked to.
EndFriendship(b) ==
  /\ friends' = friends \ {b}
  /\ online' = online \ {b}
  /\ wire' = Append(wire, [kind |-> "removed", id |-> UserId[b], name |-> ""])

Event == ~fault /\ events < MaxEvents /\ events' = events + 1
-----------------------------------------------------------------------------
(* The Jabber thread: User::receivedPresence and presenceChanged.  P is the   *)
(* set of resources after the stanza.                                        *)

\* Present without a client: new Client, mirrorPresence, connect.  A refused
\* connection leaves the socket as the constructor left it.
NewClient(P) ==
  /\ Event /\ main = "idle" /\ P # {} /\ client = "null"
  /\ present' = P
  /\ client' = "live"
  /\ mirror' = "on"
  /\ listening' = FALSE
  /\ main' = "attach"
  /\ online' = {}
  /\ \/ /\ socket' = "open"
        /\ reader' = [at |-> "recv", packet |-> NoPacket]
        /\ pinger' = "asleep"
        /\ wire' = <<[kind |-> "names", items |->
             LET order == SetToSeq(friends)
             IN  [k \in 1..Len(order) |->
                   [name |-> order[k], id |-> UserId[order[k]], nick |-> order[k]]]]>>
        /\ race' = race \ {"attach"}
     \/ /\ socket' \in {"null", "wild"}
        /\ race' = (race \ {"attach"}) \union {"refused"}
        /\ UNCHANGED <<reader, pinger, wire>>
  /\ UNCHANGED <<entries, strays, tag, inroster, asked, shown, fault, friends, raced>>

\* addPacketListener may move the vector the read thread is walking.
Attach ==
  /\ ~fault /\ main = "attach"
  /\ listening' = TRUE
  /\ main' = "status"
  /\ fault' \in Following \union Meeting(HeldByReader # {})
  /\ race' = race \union IF HeldByReader # {} THEN {"attach"} ELSE {}
  /\ UNCHANGED <<pinger, present, client, socket, entries, reader, strays, tag, jabber, server,
                 events, raced>>

\* Present, and served already.
Served(P) ==
  /\ Event /\ main = "idle" /\ P # {} /\ client # "null"
  /\ present' = P
  /\ main' = "status"
  /\ UNCHANGED <<pinger, client, socket, entries, listening, reader, strays, tag, jabber, fault,
                 server, race, raced>>

\* The status and the game go to XFire, and the gateway's presence to Jabber.
SendStatus ==
  /\ ~fault /\ main = "status"
  /\ fault' \in Sending
  /\ main' = "mirror"
  /\ UNCHANGED <<pinger, present, client, socket, entries, listening, reader, strays, tag, jabber,
                 server, events, race, raced>>

\* Without the test of client.
MirrorAvailable ==
  /\ ~fault /\ main = "mirror"
  /\ mirror' = "on"
  /\ main' = "idle"
  /\ UNCHANGED <<pinger, present, client, socket, entries, listening, reader, strays, tag, inroster,
                 asked, shown, fault, server, events, race, raced>>

MirrorPresence ==
  /\ ~fault /\ main = "mirror"
  /\ mirror' = IF client = "null" THEN "off" ELSE "on"
  /\ main' = "idle"
  /\ UNCHANGED <<pinger, present, client, socket, entries, listening, reader, strays, tag, inroster,
                 asked, shown, fault, server, events, race, raced>>

\* Absent, and no client to give up.
Unserved(P) ==
  /\ Event /\ main = "idle" /\ P = {} /\ client = "null"
  /\ present' = P
  /\ main' = "mirror"
  /\ UNCHANGED <<pinger, client, socket, entries, listening, reader, strays, tag, jabber, fault,
                 server, race, raced>>

\* Absent: sendUnavailableForAllBuddies ...  A walk that meets a change of the
\* vectors may miss anybody.
Goodbye(P) ==
  /\ Event /\ main = "idle" /\ P = {} /\ client # "null"
  /\ present' = P
  /\ LET meets == ListMoves \/ RosterMoves
     IN  /\ fault' \in Following \union Meeting(meets)
         /\ Met(meets)
         /\ \E told \in IF meets THEN SUBSET Reached ELSE {Reached} :
              /\ shown' = Unavailable(told)
              /\ raced' = (raced \ told) \union (Reached \ told) \union About(reader.packet)
  /\ main' = "goodbye"
  /\ UNCHANGED <<pinger, client, socket, entries, listening, reader, strays, tag, inroster, asked,
                 mirror, server>>

\* ... disconnect, which cancels both threads and deletes the socket, through
\* which the keep-alive thread may be writing ...
Disconnect ==
  /\ ~fault /\ main = "goodbye"
  /\ fault' \in Sending \union IF pinger = "sending" THEN BOOLEAN ELSE {}
  /\ reader' = Idle /\ pinger' = "none"
  /\ strays' = strays \union HeldByReader
  /\ race' = race \union IF HeldByReader # {} \/ pinger = "sending" THEN {"cancel"} ELSE {}
  /\ socket' = "null"
  /\ wire' = <<>>
  /\ main' = "delete"
  /\ UNCHANGED <<present, client, entries, listening, tag, jabber, friends, online, events,
                 raced>>

\* ... and delete, which does nothing to a null pointer.
DeleteClient ==
  /\ ~fault /\ main = "delete"
  /\ client' = "null" /\ socket' = "none" /\ entries' = <<>>
  /\ fault' \in IF client = "null" THEN {FALSE} ELSE Following
  /\ main' = "mirror"
  /\ UNCHANGED <<pinger, present, listening, reader, strays, tag, jabber, server, events,
                 race, raced>>

\* Without the test of client.
SubscribedUnserved(b) ==
  /\ Event /\ main = "idle"
  /\ LET meets == ListMoves \/ RosterMoves
     IN  /\ InRoster(b) => RosterMoves
         /\ fault' \in Following \union Meeting(meets)
         /\ Met(meets)
         /\ main' \in (IF HasEntry(b) THEN {"insert"} ELSE {"accept"})
                        \union IF ListMoves THEN {"accept"} ELSE {}
         /\ raced' = raced \union IF meets THEN {b} ELSE {b} \intersect About(reader.packet)
  /\ tag' = [to |-> b, on |-> FALSE]
  /\ UNCHANGED <<pinger, present, client, socket, entries, listening, reader, strays, jabber, server>>

\* "subscribed": the roster and the buddy list are looked up ...
Subscribed(b) ==
  /\ Event /\ main = "idle" /\ client # "null"
  /\ LET meets == ListMoves \/ RosterMoves
     IN  /\ InRoster(b) => RosterMoves
         /\ fault' \in Following \union Meeting(meets)
         /\ Met(meets)
         /\ main' \in (IF HasEntry(b) THEN {"insert"} ELSE {"accept"})
                        \union IF ListMoves THEN {"accept"} ELSE {}
         /\ raced' = raced \union IF meets THEN {b} ELSE {b} \intersect About(reader.packet)
  /\ tag' = [to |-> b, on |-> FALSE]
  /\ UNCHANGED <<pinger, present, client, socket, entries, listening, reader, strays, jabber, server>>

\* ... and the buddy joins the roster.  The presence he is answered with is
\* composed here, of the entry found above, and sent in SendTag; a missing
\* buddy's invitation is accepted instead.  An entry taken off the list in
\* between is there still; a deleted one is not.
Insert ==
  /\ ~fault /\ main \in {"insert", "accept"}
  /\ inroster' = Append(inroster, tag.to)
  /\ asked' = asked \ {tag.to}
  /\ \/ /\ main = "insert"
        /\ \E on \in IF HasEntry(tag.to) THEN {IsOnline(Entry(tag.to))} ELSE BOOLEAN :
             tag' = [to |-> tag.to, on |-> on]
        /\ main' = "tag"
        /\ fault' \in {FALSE} \union Meeting(client # "live" \/ RosterRead \/ GameMoves)
     \/ /\ main = "accept"
        /\ tag' = NoTag
        /\ main' = "idle"
        /\ fault' \in Sending \union Meeting(RosterRead)
  /\ Met(RosterRead \/ GameMoves)
  /\ UNCHANGED <<pinger, present, client, socket, entries, listening, reader, strays, shown, mirror,
                 server, events, raced>>

SendTag ==
  /\ ~fault /\ main = "tag"
  /\ shown' = [shown EXCEPT ![tag.to] = OnOff(tag.on)]
  /\ tag' = NoTag
  /\ main' = "idle"
  /\ UNCHANGED <<pinger, present, client, socket, entries, listening, reader, strays, inroster, asked,
                 mirror, fault, server, events, race, raced>>

\* "unsubscribe(d)": XFire is asked to remove a buddy, or to forget one that is
\* none; the roster waits for its answer, which goes behind what is on the wire.
Unsubscribe(b) ==
  /\ Event /\ main = "idle" /\ client # "null"
  /\ fault' \in Sending \union Meeting(ListMoves)
  /\ Met(ListMoves)
  /\ shown' = [shown EXCEPT ![b] = "none"]
  /\ asked' = asked \ {b}
  /\ IF HasEntry(b) /\ b \in friends /\ socket = "open"
       THEN Len(wire) < MaxWire /\ EndFriendship(b)
       ELSE UNCHANGED server
  /\ UNCHANGED <<pinger, present, client, socket, entries, listening, reader, strays, main, tag,
                 inroster, mirror, raced>>
-----------------------------------------------------------------------------
(* The read thread *)

Take ==
  /\ ~fault /\ reader.at = "recv" /\ wire # <<>>
  /\ reader' = [at |-> "list", packet |-> Head(wire)]
  /\ wire' = Tail(wire)
  /\ raced' = raced \union
       (About(Head(wire)) \intersect IF main = "goodbye" THEN Buddy ELSE Answered)
  /\ UNCHANGED <<pinger, present, client, socket, entries, listening, strays, main, tag, jabber,
                 fault, friends, online, events, race>>

\* Without the name.
NamedNever(p) == p

\* BuddyList::receivedPacket writes the name of a removed buddy into the packet.
Named(p) ==
  IF p.kind = "removed" /\ IndexById(entries, p.id) # 0
    THEN [p EXCEPT !.name = entries[IndexById(entries, p.id)].username] ELSE p

ListListener ==
  /\ ~fault /\ reader.at = "list"
  /\ ListTurn(reader.packet)
  /\ reader' = [at |-> "user", packet |-> Named(reader.packet)]
  /\ UNCHANGED <<pinger, present, client, socket, listening, strays, main, tag, jabber, server,
                 events, raced>>

\* User::receivedPacket, all but the other log-in.
Handle(p) ==
  CASE p.kind = "names" ->
         /\ fault' \in Following
         /\ asked' = asked \union {entries[i].username :
                        i \in {k \in 1..Len(entries) : ~InRoster(entries[k].username)}}
         /\ UNCHANGED <<inroster, shown>>
    [] p.kind \in {"online", "games"} ->
         LET i == IF p.kind = "online" THEN IndexById(entries, p.items[1].id)
                  ELSE IndexBySid(entries, p.items[1].sid)
         IN  /\ fault' \in Following
             /\ shown' = IF i = 0 \/ ~InRoster(entries[i].username) THEN shown
                         ELSE [shown EXCEPT ![entries[i].username] = OnOff(IsOnline(entries[i]))]
             /\ UNCHANGED <<inroster, asked>>
    [] p.kind = "message" ->
         /\ fault' \in IF IndexBySid(entries, p.sid) = 0 THEN {TRUE} ELSE Following
         /\ UNCHANGED <<inroster, asked, shown>>
    [] p.kind = "removed" ->
         LET k == SelectInSeq(inroster, LAMBDA b : b = p.name)
         IN  /\ shown' = [b \in Buddy |-> IF b = p.name THEN "none" ELSE shown[b]]
             /\ asked' = asked \ {p.name}
             /\ inroster' = IF k = 0 THEN inroster ELSE RemoveAt(inroster, k)
             /\ UNCHANGED fault

UserListener ==
  /\ ~fault /\ reader.at = "user" /\ reader.packet.kind # "otherlogin"
  /\ IF listening
       THEN Handle(reader.packet) /\ UNCHANGED <<race, raced>>
       ELSE /\ race' = race \union {"attach"}
            /\ raced' = raced \union About(reader.packet)
            /\ UNCHANGED <<inroster, asked, shown, fault>>
  /\ reader' = [at |-> "recv", packet |-> NoPacket]
  /\ UNCHANGED <<pinger, present, client, socket, entries, listening, strays, main, tag, mirror,
                 server, events>>

\* The other log-in: goodbyes, and delete client, which cancels the read thread.
\* Run by it, the thread ends at the next cancellation point, inside the
\* destructor: the client stays as it is.  Where there is none it lives on, sets
\* the client to null and tells the user; the reader that called it is gone.
DeletedByReader ==
  /\ shown' = Unavailable(Reached)
  /\ raced' = raced \union Answered \union About(reader.packet)
  /\ race' = race \union {"otherlogin"}
  /\ fault' \in BOOLEAN
  /\ reader' = Idle
  /\ \/ /\ client' = "zombie" /\ socket' = "closed"
        /\ pinger' \in {pinger, "none"}
        /\ UNCHANGED <<entries, mirror>>
     \/ /\ client' = "null" /\ socket' = "none" /\ entries' = <<>>
        /\ pinger' = "none"
        /\ mirror' = "off"

OtherLogin ==
  /\ ~fault /\ reader.at = "user" /\ reader.packet.kind = "otherlogin"
  /\ IF listening THEN DeletedByReader
     ELSE /\ reader' = [at |-> "recv", packet |-> NoPacket]
          /\ UNCHANGED <<client, socket, entries, pinger, shown, mirror, fault, race, raced>>
  /\ UNCHANGED <<present, listening, strays, main, tag, inroster, asked, server, events>>

\* The connection ends between two packets: the thread returns, nobody is told.
ReaderEnds ==
  /\ ~fault /\ reader.at = "recv" /\ wire = <<>> /\ socket = "open"
  /\ reader' = Idle
  /\ socket' = "closed"
  /\ UNCHANGED <<pinger, present, client, entries, listening, strays, main, tag, jabber, fault,
                 server, events, race, raced>>

StrayEnds(s) ==
  /\ ~fault
  /\ strays' = strays \ {s}
  /\ UNCHANGED <<pinger, present, client, socket, entries, listening, reader, main, tag, jabber,
                 fault, server, events, race, raced>>

\* A stray's own buddy list is there until its client is deleted.
StrayListListener(s) ==
  /\ ~fault /\ s.at = "list"
  /\ IF main = "delete" /\ client = "live"
       THEN /\ ListTurn(s.packet)
            /\ strays' = (strays \ {s}) \union {[at |-> "user", packet |-> Named(s.packet)]}
       ELSE /\ fault' \in BOOLEAN
            /\ strays' = (strays \ {s}) \union {[s EXCEPT !.at = "user"]}
            /\ UNCHANGED <<entries, race>>
  /\ UNCHANGED <<pinger, present, client, socket, listening, reader, main, tag, jabber, server,
                 events, raced>>

\* The User it calls may have another client by now, or none.
StrayUserListener(s) ==
  /\ ~fault /\ s.at = "user" /\ s.packet.kind # "otherlogin"
  /\ strays' = strays \ {s}
  /\ Handle(s.packet)
  /\ raced' = raced \union About(s.packet)
  /\ UNCHANGED <<pinger, present, client, socket, entries, listening, reader, main, tag, mirror,
                 server, events, race>>

\* It deletes the client of now, whose own read thread becomes a stray.
StrayOtherLogin(s) ==
  /\ ~fault /\ s.at = "user" /\ s.packet.kind = "otherlogin"
  /\ IF client = "null"
       THEN /\ fault' = TRUE
            /\ UNCHANGED <<client, socket, entries, reader, pinger, strays, shown, mirror, race, raced>>
       ELSE DeletedByReader /\ strays' = (strays \ {s}) \union HeldByReader
  /\ UNCHANGED <<present, listening, main, tag, inroster, asked, server, events>>
-----------------------------------------------------------------------------
(* The keep-alive thread: three minutes of sleep, one packet.  A connection   *)
(* that has ended does not end it, since send's result is never looked at.    *)

Ping ==
  /\ ~fault /\ pinger = "asleep"
  /\ pinger' = "sending"
  /\ UNCHANGED <<present, client, socket, entries, listening, reader, strays, main, tag,
                 jabber, fault, server, events, race, raced>>

Pinged ==
  /\ ~fault /\ pinger = "sending"
  /\ pinger' = "asleep"
  /\ fault' \in {FALSE} \union Meeting(client # "live")
  /\ UNCHANGED <<present, client, socket, entries, listening, reader, strays, main, tag,
                 jabber, server, events, race, raced>>
-----------------------------------------------------------------------------
(* The XFire server, while the connection is up *)

Deliver(p) ==
  /\ Event /\ socket = "open" /\ Len(wire) < MaxWire
  /\ wire' = Append(wire, p)
  /\ UNCHANGED <<pinger, present, client, socket, entries, listening, reader, strays, main, tag,
                 jabber, fault, race, raced>>

SendOnline(b) ==
  /\ b \in friends
  /\ online' = IF b \in online THEN online \ {b} ELSE online \union {b}
  /\ Deliver([kind |-> "online",
              items |-> <<[id |-> UserId[b], sid |-> IF b \in online THEN NoSid ELSE UserId[b]]>>])
  /\ UNCHANGED friends

SendMessage(b) ==
  /\ b \in online
  /\ Deliver([kind |-> "message", sid |-> UserId[b]])
  /\ UNCHANGED <<friends, online>>

SendGame(b) ==
  /\ b \in online
  /\ Deliver([kind |-> "games", items |-> <<[sid |-> UserId[b], game |-> 0]>>])
  /\ UNCHANGED <<friends, online>>

SendRemoved(b) ==
  /\ Event /\ socket = "open" /\ Len(wire) < MaxWire
  /\ b \in friends
  /\ EndFriendship(b)
  /\ UNCHANGED <<pinger, present, client, socket, entries, listening, reader, strays, main, tag,
                 jabber, fault, race, raced>>

SendNames(b) ==
  /\ b \notin friends
  /\ friends' = friends \union {b}
  /\ Deliver([kind |-> "names", items |-> <<[name |-> b, id |-> UserId[b], nick |-> b]>>])
  /\ UNCHANGED online

SendOtherLogin ==
  /\ Deliver([kind |-> "otherlogin"])
  /\ UNCHANGED <<friends, online>>

Next ==
  \/ \E r \in Resource : \E P \in {present \union {r}, present \ {r}} :
       NewClient(P) \/ Served(P) \/ Goodbye(P) \/ Unserved(P)
  \/ Attach \/ SendStatus \/ MirrorPresence \/ Disconnect \/ DeleteClient
  \/ Insert \/ SendTag
  \/ \E b \in Buddy : Subscribed(b) \/ Unsubscribe(b)
  \/ Ping \/ Pinged
  \/ Take \/ ListListener \/ UserListener \/ OtherLogin \/ ReaderEnds
  \/ \E s \in strays :
       StrayEnds(s) \/ StrayListListener(s) \/ StrayUserListener(s) \/ StrayOtherLogin(s)
  \/ \E b \in Buddy : SendOnline(b) \/ SendMessage(b) \/ SendGame(b) \/ SendRemoved(b)
                      \/ SendNames(b)
  \/ SendOtherLogin

Spec == Init /\ [][Next]_vars
-----------------------------------------------------------------------------
(* Properties *)

(* Nothing of any thread follows a null, freed or unset pointer, or walks a  *)
(* vector that another one moves, except through one of six windows: a       *)
(* refused connection; a listener attached while the read thread holds a     *)
(* packet; a client deleted while that thread holds one or the keep-alive    *)
(* thread sends one; another log-in; a goodbye, a subscription or its end    *)
(* said while a read thread is changing the buddy list or the roster, or     *)
(* deleting the game it composes a presence from; and a games packet that    *)
(* runs on into the removal with a buddy's user id.  A user and a server     *)
(* that avoid these never crash the gateway.                                 *)
FaultsNeedARace == fault => race # {}

(* A user who is offline sees nobody of his roster online, except through a  *)
(* packet the read thread held, or took, while the goodbyes were being said, *)
(* a walk over a vector that moved, or an answer sent across another log-in  *)
(* (presenceChanged, sendUnavailableForAllBuddies).                          *)
OfflineHidesBuddies ==
  ~fault /\ client = "null" =>
    {b \in ToSet(inroster) : shown[b] = "on"} \subseteq raced

\* Both threads rest and every packet has been handled.
Quiet ==
  /\ ~fault /\ main = "idle" /\ reader.at = "recv" /\ wire = <<>> /\ strays = {}

(* While connected and at rest, Jabber was last told of every roster buddy   *)
(* what the buddy list holds, except of one whose presence both threads were *)
(* about to send, or who came online before the User was listening.          *)
ShownAsListed ==
  Quiet =>
    \A b \in ToSet(inroster) \ raced :
      HasEntry(b) => (shown[b] = "on" <=> IsOnline(Entry(b)))

(* Nobody is lost between the two lists: at rest every buddy of the buddy    *)
(* list is in the roster or the user has been asked to subscribe to him,     *)
(* unless the list arrived before the User was listening.                    *)
EveryBuddyOffered ==
  Quiet /\ "attach" \notin race =>
    \A i \in 1..Len(entries) :
      entries[i].username \in ToSet(inroster) \union asked \union raced

(* Between two stanzas a user without a present resource has no client, and  *)
(* is not shown the gateway as available; one with a present resource has a  *)
(* client and is shown the gateway, unless another log-in took them away     *)
(* (presenceChanged against receivedPacket's XFIRE_OTHER_LOGIN).             *)
ServedWhilePresent ==
  ~fault /\ main = "idle" =>
    /\ present = {} => client = "null" /\ mirror # "on"
    /\ present # {} /\ "otherlogin" \notin race => client # "null" /\ mirror = "on"

(* A friendship that ended leaves no trace: while connected and at rest      *)
(* Jabber was last told of no roster buddy that he is online who is not in   *)
(* the buddy list, whenever he was removed, be it between the look-up and    *)
(* the insertion of a confirmed subscription; except of one whose packet the *)
(* read thread held, or took, while the subscription was being answered.     *)
GoneAreHidden ==
  Quiet => \A b \in ToSet(inroster) \ raced : HasEntry(b) \/ shown[b] # "on"
=============================================================================
