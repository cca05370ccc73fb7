----------------------------- MODULE BuddySync -----------------------------
(***************************************************************************)
(* The buddy list of one connection against the server that feeds it: the  *)
(* server (outside the repository, modelled from the packets its clients   *)
(* parse and from protocol.md) changes its mind about one user's friends   *)
(* while packets of earlier changes are still on the wire, and the read    *)
(* thread applies them to the entries one at a time.  The Java library's   *)
(* list hears the same packets; its reader runs before the list is told    *)
(* that the connection stands.  Neither client sees the other.             *)
(***************************************************************************)
EXTENDS BuddyList, JavaBuddyList, FiniteSets

CONSTANTS
  Buddy,      \* everybody who can be a friend, by user name
  UserId,     \* their user ids
  Nicks, Statuses, Games,
  MaxSid,     \* bound: log-ins
  MaxWire,    \* bound: packets on the wire
  MaxEvents   \* bound: changes after the greeting

ASSUME SyncAssumption ==
  /\ IsFiniteSet(Buddy)
  /\ UserId \in [Buddy -> Nat]
  /\ \A b, c \in Buddy : UserId[b] = UserId[c] => b = c
  /\ HeapWords \subseteq Nat /\ HeapWords # {}
  /\ Games \subseteq Nat
  /\ MaxSid \in Nat /\ MaxWire \in Nat \ {0} /\ MaxEvents \in Nat

VARIABLES
  entries,   \* xfirelib's BuddyList::entries
  struck,    \* a games packet's stray word has taken an entry away
  friends,   \* the Java library's BuddyList.friends
  connected, \* gotConnected has been called
  early,     \* friends whose names came before that
  wire,      \* packets sent and not yet received, in order
  truth,     \* what the server knows of each buddy
  unheard,   \* buddies whose last status stood behind a stranger's
  lastSid,   \* the last session id the server gave out
  events     \* changes so far

vars == <<entries, struck, friends, connected, early, wire, truth, unheard, lastSid, events>>

\* sid 0 is offline; said, game and game2 are what was announced in this session
Unknown == [friend |-> FALSE, sid |-> NoSid, nick |-> NoText, said |-> NoText,
            game |-> 0, game2 |-> 0]

Friends == {b \in Buddy : truth[b].friend}
Orders(S) == {s \in [1..Cardinality(S) -> S] : \A b \in S : \E k \in 1..Cardinality(S) : s[k] = b}
Items(order, Item(_)) == [k \in 1..Len(order) |-> Item(order[k])]

TypeOK ==
  /\ \A i \in 1..Len(entries) :
       entries[i] \in [username : Buddy, userid : Nat, nick : Nicks, sid : 0..MaxSid,
                       statusmsg : Statuses \union {NoText}, game : Games \union {0},
                       game2 : Games \union {0}]
  /\ \A i \in 1..Len(friends) :
       friends[i] \in [userid : Nat, name : Buddy, nick : Nicks, sid : NullSid..MaxSid,
                       statusMessage : {NullMessage} \union Statuses]
  /\ struck \in BOOLEAN
  /\ connected \in BOOLEAN
  /\ early \subseteq Buddy
  /\ Len(wire) <= MaxWire
  /\ truth \in [Buddy -> [friend : BOOLEAN, sid : 0..MaxSid, nick : Nicks \union {NoText},
                          said : Statuses \union {NoText}, game : Games \union {0},
                          game2 : Games \union {0}]]
  /\ unheard \subseteq Buddy
  /\ lastSid \in 0..MaxSid
  /\ events \in 0..MaxEvents

\* The connection begins with the list of friends, none of them online yet.
Init ==
  /\ entries = <<>> /\ struck = FALSE
  /\ friends = <<>> /\ connected = FALSE /\ early = {}
  /\ unheard = {}
  /\ lastSid = 0
  /\ events = 0
  /\ \E known \in SUBSET Buddy, nick \in Nicks :
       /\ truth = [b \in Buddy |-> IF b \in known
                     THEN [Unknown EXCEPT !.friend = TRUE, !.nick = nick] ELSE Unknown]
       /\ \E order \in Orders(known) :
            wire = <<[kind  |-> "names",
                      items |-> Items(order, LAMBDA b :
                                  [name |-> b, id |-> UserId[b], nick |-> nick])]>>
-----------------------------------------------------------------------------
(* The server *)

Send(packet) ==
  /\ Len(wire) < MaxWire
  /\ events < MaxEvents
  /\ wire' = Append(wire, packet)
  /\ events' = events + 1
  /\ UNCHANGED <<entries, struck, friends, connected, early>>

\* Friends log in and out: one packet for all of them, in any order.
Move(order) ==
  LET S == {order[k] : k \in 1..Len(order)}
      sidOf(b) == IF truth[b].sid # NoSid THEN NoSid
                  ELSE lastSid + (CHOOSE k \in 1..Len(order) : order[k] = b)
  IN  /\ lastSid + Len(order) <= MaxSid
      /\ lastSid' = lastSid + Len(order)
      /\ truth' = [b \in Buddy |-> IF b \in S
                     THEN [truth[b] EXCEPT !.sid = sidOf(b), !.said = NoText,
                                           !.game = 0, !.game2 = 0]
                     ELSE truth[b]]
      /\ unheard' = unheard \ S
      /\ Send([kind  |-> "online",
               items |-> Items(order, LAMBDA b : [id |-> UserId[b], sid |-> sidOf(b)])])

\* Online friends, and others whose status the server passes on, say something.
Say(order, msg) ==
  LET strangers == {k \in 1..Len(order) : ~truth[order[k]].friend}
      behind == {order[k] : k \in {n \in 1..Len(order) : \E m \in strangers : m <= n}}
      S == {b \in Friends : \E k \in 1..Len(order) : order[k] = b}
  IN  /\ truth' = [b \in Buddy |-> IF b \in S
                     THEN [truth[b] EXCEPT !.said = msg] ELSE truth[b]]
      /\ unheard' = (unheard \ S) \union (behind \intersect S)
      /\ Send([kind  |-> "status",
               items |-> Items(order, LAMBDA b :
                           [sid |-> IF b \in Friends THEN truth[b].sid ELSE MaxSid + 1,
                            msg |-> msg])])
      /\ UNCHANGED lastSid

\* Online friends start and stop a game, or a voice program.
Play(order, g) ==
  /\ truth' = [b \in Buddy |-> IF \E k \in 1..Len(order) : order[k] = b
                 THEN [truth[b] EXCEPT !.game = g] ELSE truth[b]]
  /\ Send([kind  |-> "games",
           items |-> Items(order, LAMBDA b : [sid |-> truth[b].sid, game |-> g])])
  /\ UNCHANGED <<unheard, lastSid>>

Talk(b, g) ==
  /\ truth' = [truth EXCEPT ![b].game2 = g]
  /\ Send([kind |-> "games2", items |-> <<[sid |-> truth[b].sid, game |-> g]>>])
  /\ UNCHANGED <<unheard, lastSid>>

Rename(b, nick) ==
  /\ truth' = [truth EXCEPT ![b].nick = nick]
  /\ Send([kind |-> "nick", id |-> UserId[b], nick |-> nick])
  /\ UNCHANGED <<unheard, lastSid>>

Unfriend(b) ==
  /\ truth' = [truth EXCEPT ![b] = Unknown]
  /\ unheard' = unheard \ {b}
  /\ Send([kind |-> "removed", id |-> UserId[b]])
  /\ UNCHANGED lastSid

Befriend(b, nick) ==
  /\ truth' = [truth EXCEPT ![b] = [Unknown EXCEPT !.friend = TRUE, !.nick = nick]]
  /\ Send([kind |-> "names", items |-> <<[name |-> b, id |-> UserId[b], nick |-> nick]>>])
  /\ UNCHANGED <<unheard, lastSid>>
-----------------------------------------------------------------------------
\* The read thread of either library.
Receive ==
  /\ wire # <<>>
  /\ entries' \in Results(entries, Head(wire))
  /\ struck' = (struck \/ (Head(wire).kind \in {"games", "games2"}
                            /\ Len(entries') < Len(entries)))
  /\ friends' = ReceivedByFriends(friends, Head(wire))
  /\ early' = IF connected THEN early \ {friends'[i].name : i \in 1..Len(friends')} ELSE early
  /\ wire' = Tail(wire)
  /\ UNCHANGED <<connected, truth, unheard, lastSid, events>>

\* The thread that connects, after it has started the reader: gotConnected
\* replaces the list.
GotConnected ==
  /\ ~connected
  /\ connected' = TRUE
  /\ early' = {friends[i].name : i \in 1..Len(friends)}
  /\ friends' = <<>>
  /\ UNCHANGED <<entries, struck, wire, truth, unheard, lastSid, events>>

\* The same while the reader is adding the names of a packet: the first k of
\* them go, and the rest is added to the new list.
GotConnectedWithin(k) ==
  /\ ~connected
  /\ wire # <<>> /\ Head(wire).kind = "names"
  /\ k <= Len(Head(wire).items)
  /\ LET listed == ReceivedByFriends(friends, Head(wire))
     IN  /\ friends' = SubSeq(listed, Len(friends) + k + 1, Len(listed))
         /\ early' = {listed[i].name : i \in 1..(Len(friends) + k)}
                       \ {friends'[i].name : i \in 1..Len(friends')}
  /\ connected' = TRUE
  /\ entries' \in Results(entries, Head(wire))
  /\ wire' = Tail(wire)
  /\ UNCHANGED <<struck, truth, unheard, lastSid, events>>

OnlineFriends == {b \in Friends : truth[b].sid # NoSid}

Next ==
  \/ \E S \in SUBSET Friends : \E order \in Orders(S) : S # {} /\ Move(order)
  \/ \E S \in SUBSET (OnlineFriends \union (Buddy \ Friends)) :
       \E order \in Orders(S), msg \in Statuses : S # {} /\ Say(order, msg)
  \/ \E S \in SUBSET OnlineFriends :
       \E order \in Orders(S), g \in Games \union {0} : S # {} /\ Play(order, g)
  \/ \E b \in OnlineFriends, g \in Games \union {0} : Talk(b, g)
  \/ \E b \in Friends, nick \in Nicks : Rename(b, nick)
  \/ \E b \in Friends : Unfriend(b)
  \/ \E b \in Buddy \ Friends, nick \in Nicks : Befriend(b, nick)
  \/ Receive
  \/ GotConnected
  \/ \E k \in 1..(Cardinality(Buddy) - 1) : GotConnectedWithin(k)

Spec == Init /\ [][Next]_vars
-----------------------------------------------------------------------------
(* Properties *)

EntryNames == {entries[i].username : i \in 1..Len(entries)}

(* Once every packet has been applied, the entries are the server's friends, *)
(* once each, with their user id, nickname and session id; and what an       *)
(* online friend said or plays in this session is what the entry shows,      *)
(* unless a stranger's status stood before it in its packet; all that for as *)
(* long as no games packet has run on into the removal with a friend's user  *)
(* id (BuddyList::receivedPacket and its look-ups).                          *)
Mirrors ==
  wire = <<>> /\ ~struck =>
    /\ EntryNames = Friends
    /\ Len(entries) = Cardinality(Friends)
    /\ \A i \in 1..Len(entries) :
         LET e == entries[i]
             t == truth[e.username]
         IN  /\ e.userid = UserId[e.username] /\ e.nick = t.nick /\ e.sid = t.sid
             /\ t.said # NoText /\ e.username \notin unheard => e.statusmsg = t.said
             /\ t.game # 0 => e.game = t.game
             /\ t.game2 # 0 => e.game2 = t.game2

(* However far the client lags behind, a session id never names two buddies: *)
(* a message is never shown as coming from somebody else (getBuddyBySid).    *)
SidsIdentify ==
  \A i, k \in 1..Len(entries) :
    i # k /\ IsOnline(entries[i]) => entries[i].sid # entries[k].sid

(* The Java library's list, once every packet has been applied: a friend who *)
(* is online is found by its session id, under its own name, with what it    *)
(* said in this session, whatever the list still holds of friends that left  *)
(* and came back, and of strangers' statuses around it; all but the friends  *)
(* whose names came before gotConnected cleared the list                     *)
(* (BuddyList.receivedPacket and getFriendBySid).                            *)
FriendsFollow ==
  wire = <<>> /\ connected =>
    \A b \in Friends \ early :
      /\ FriendByUserId(friends, UserId[b]) # 0
      /\ truth[b].sid # NoSid =>
           LET i == FriendBySid(friends, truth[b].sid)
           IN  /\ i # 0 /\ friends[i].name = b /\ IsOnlineFriend(friends[i])
               /\ truth[b].said # NoText => friends[i].statusMessage = truth[b].said

(* An entry is taken away by the server's word that this friendship ended,   *)
(* or by a games packet, whose cases run on into the removal, when the       *)
(* packet's stray word is this buddy's user id; never more than that one,    *)
(* and never because the id to remove is unknown.                            *)
OnlyRemovalForgets ==
  [][\A b \in EntryNames \ EntryNames' :
       /\ wire # <<>>
       /\ \/ Head(wire).kind = "removed" /\ Head(wire).id = UserId[b]
          \/ Head(wire).kind \in {"games", "games2"} /\ UserId[b] \in HeapWords
       /\ EntryNames' = EntryNames \ {b}]_vars
=============================================================================
