---------------------------- MODULE GfireBuddies ----------------------------
(***************************************************************************)
(* gfire's buddies: the nodes of gaim's buddy list, which outlive our      *)
(* log-ins, against the server that feeds them.  A node keeps what the     *)
(* packets said in its settings (sid, amessage, game, imindex); packets    *)
(* that name a session id are matched against the nodes shown online.      *)
(***************************************************************************)
EXTENDS Naturals, Sequences, FiniteSets, SequencesExt

CONSTANTS
  Buddy,
  Statuses,    \* what a buddy may say
  BackWords,   \* of these, the prefixes of "Online"
  Games,
  MaxSid,      \* bound: the buddies' log-ins
  MaxWire,     \* bound: packets on the wire after the greeting
  MaxEvents,   \* bound: changes
  MaxLogins,   \* bound: our log-ins
  MaxParts     \* bound: parts of one message of ours, 255 characters each

ASSUME BuddiesAssumption ==
  /\ IsFiniteSet(Buddy)
  /\ "Online" \in BackWords /\ BackWords \subseteq Statuses
  /\ Games \subseteq Nat \ {0}
  /\ {MaxSid, MaxWire, MaxEvents, MaxLogins, MaxParts} \subseteq Nat

VARIABLES
  nodes,      \* the buddy list
  connected,
  logins,
  wire,       \* packets sent and not yet received, in order
  truth,      \* what the server knows of each buddy
  lastSid, events

\* Ghosts: buddies whose friendship was ended or begun anew and of whom we have
\* not heard since; session ids announced anew, or whose status stood behind
\* another's; the message just shown; parts sent to each session id since we
\* logged in.
VARIABLES changed, unheard, shown, parts

server == <<truth, lastSid, events>>
ghosts == <<changed, unheard, shown, parts>>
vars == <<nodes, connected, logins, wire, server, ghosts>>

NoSid == 0              \* of somebody offline: sixteen zeros
NullSid == MaxSid + 1   \* a node's setting before it is first set
NoMessage == "none"     \* amessage is NULL

NewNode == [listed |-> TRUE, present |-> FALSE, sid |-> NullSid,
            amessage |-> NoMessage, game |-> 0, imindex |-> 0]
NoNode == [NewNode EXCEPT !.listed = FALSE]
Nobody == [from |-> "", to |-> {}]
Unknown == [friend |-> FALSE, sid |-> NoSid, said |-> "Online", game |-> 0]

Listed == {b \in Buddy : nodes[b].listed}
Friends == {b \in Buddy : truth[b].friend}
OnlineFriends == {b \in Friends : truth[b].sid # NoSid}
Orders(S) ==
  {s \in [1..Cardinality(S) -> S] :
     /\ \A b \in S : \E k \in 1..Cardinality(S) : s[k] = b
     /\ \A k, m \in 1..Cardinality(S) : s[k] = s[m] => k = m}
AnyOrder(S) == CHOOSE s \in Orders(S) : TRUE

TypeOK ==
  /\ nodes \in [Buddy -> [listed : BOOLEAN, present : BOOLEAN, sid : 0..NullSid,
                          amessage : Statuses \union {NoMessage},
                          game : {0} \union Games, imindex : Nat]]
  /\ \A b \in Buddy : nodes[b].present => nodes[b].listed /\ nodes[b].sid \in 1..MaxSid /\ connected
  /\ truth \in [Buddy -> [friend : BOOLEAN, sid : 0..MaxSid, said : Statuses, game : {0} \union Games]]
  /\ connected \in BOOLEAN /\ logins \in 0..MaxLogins
  /\ lastSid \in 0..MaxSid /\ events \in 0..MaxEvents
  /\ changed \subseteq Buddy /\ unheard \subseteq 0..MaxSid
  /\ shown.to \subseteq Buddy
  /\ parts \in [1..MaxSid -> Nat]

Init ==
  /\ nodes = [b \in Buddy |-> NoNode]
  /\ connected = FALSE /\ logins = 0
  /\ wire = <<>>
  /\ \E friends \in SUBSET Buddy :
       truth = [b \in Buddy |-> [Unknown EXCEPT !.friend = b \in friends]]
  /\ lastSid = 0 /\ events = 0
  /\ changed = {} /\ unheard = {}
  /\ shown = Nobody
  /\ parts = [s \in 1..MaxSid |-> 0]
-----------------------------------------------------------------------------
(* What the handlers do to the nodes *)

AddBuddy(node) ==
  IF node.listed THEN [node EXCEPT !.amessage = NoMessage, !.game = 0] ELSE NewNode

\* Only into a node that has no session id.
ReadOnlineOnce(node, sid) ==
  IF ~node.listed THEN node
  ELSE [node EXCEPT !.present = sid # NoSid, !.sid = IF @ = NullSid THEN sid ELSE @, !.imindex = 0]

\* With the highest session id of all.
ReadOnlineSameSid(node, sid) ==
  IF ~node.listed THEN node
  ELSE [node EXCEPT !.present = sid # NoSid, !.sid = IF sid = NoSid THEN NoSid ELSE lastSid,
                    !.imindex = 0]

\* Without the reset of the counter.
ReadOnlineCounting(node, sid) ==
  IF ~node.listed THEN node
  ELSE [node EXCEPT !.present = sid # NoSid, !.sid = sid]

\* What he said and plays is left as it was.
ReadOnline(node, sid) ==
  IF ~node.listed THEN node
  ELSE [node EXCEPT !.present = sid # NoSid, !.sid = sid, !.imindex = 0]

\* The nodes the handlers look through for a session id.
Matching(ns, sid) == {b \in Buddy : ns[b].present /\ ns[b].sid = sid}

Away(msg) == IF msg \in BackWords THEN NoMessage ELSE msg

CheckStatus(ns, item) ==
  [b \in Buddy |-> IF b \in Matching(ns, item.sid) THEN [ns[b] EXCEPT !.amessage = Away(item.msg)]
                   ELSE ns[b]]

\* The items of a packet that concern a buddy, or his node: the loops overwrite
\* what an earlier one set.
Named(items, b) == {k \in 1..Len(items) : items[k] = b}
Told(items, b) == {k \in 1..Len(items) : items[k].id = b}
Played(items, node) == {k \in 1..Len(items) : node.present /\ items[k].sid = node.sid}

CheckGame(node, items) ==
  IF Played(items, node) = {} THEN node
  ELSE [node EXCEPT !.game = items[Max(Played(items, node))].game]

\* The first session id and the first message of a status packet are read, and
\* the acknowledgement of a removal is not looked at.
Handled(ns, p) ==
  CASE p.kind = "names"  ->
         [b \in Buddy |-> IF Named(p.items, b) = {} THEN ns[b] ELSE AddBuddy(ns[b])]
    [] p.kind = "online" ->
         [b \in Buddy |-> IF Told(p.items, b) = {} THEN ns[b]
                          ELSE ReadOnline(ns[b], p.items[Max(Told(p.items, b))].sid)]
    [] p.kind = "games"  -> [b \in Buddy |-> CheckGame(ns[b], p.items)]
    [] p.kind = "status" -> CheckStatus(ns, p.items[1])
    [] OTHER             -> ns
-----------------------------------------------------------------------------
(* The server *)

NamesOf(order) == [kind |-> "names", items |-> order]
OnlineOf(order, t) ==
  [kind |-> "online", items |-> [k \in 1..Len(order) |-> [id |-> order[k], sid |-> t[order[k]].sid]]]
GamesOf(order, t) ==
  [kind |-> "games",
   items |-> [k \in 1..Len(order) |-> [sid |-> t[order[k]].sid, game |-> t[order[k]].game]]]
StatusOf(order, t) ==
  [kind |-> "status",
   items |-> [k \in 1..Len(order) |-> [sid |-> t[order[k]].sid, msg |-> t[order[k]].said]]]

Send(packets) ==
  /\ Len(wire) < MaxWire
  /\ events < MaxEvents /\ events' = events + 1
  /\ wire' = IF connected THEN wire \o packets ELSE wire
  /\ UNCHANGED <<nodes, connected, logins, shown, parts>>

\* Buddies log in and out; the server tells us of the friends among them.
Move(order) ==
  LET sidOf(b) == IF truth[b].sid # NoSid THEN NoSid
                  ELSE lastSid + (CHOOSE k \in 1..Len(order) : order[k] = b)
      t == [b \in Buddy |-> IF \E k \in 1..Len(order) : order[k] = b
              THEN [truth[b] EXCEPT !.sid = sidOf(b), !.said = "Online", !.game = 0] ELSE truth[b]]
  IN  /\ lastSid + Len(order) <= MaxSid
      /\ lastSid' = lastSid + Len(order)
      /\ truth' = t
      /\ \E told \in Orders({b \in Friends : \E k \in 1..Len(order) : order[k] = b}) :
           Send(IF told = <<>> THEN <<>> ELSE <<OnlineOf(told, t)>>)
      /\ UNCHANGED <<changed, unheard>>

Say(order, msg) ==
  LET t == [b \in Buddy |-> IF \E k \in 1..Len(order) : order[k] = b
              THEN [truth[b] EXCEPT !.said = msg] ELSE truth[b]]
  IN  /\ truth' = t
      /\ unheard' = unheard \union {truth[order[k]].sid : k \in 2..Len(order)}
      /\ Send(<<StatusOf(order, t)>>)
      /\ UNCHANGED <<lastSid, changed>>

Play(order, g) ==
  LET t == [b \in Buddy |-> IF \E k \in 1..Len(order) : order[k] = b
              THEN [truth[b] EXCEPT !.game = g] ELSE truth[b]]
  IN  /\ truth' = t
      /\ Send(<<GamesOf(order, t)>>)
      /\ UNCHANGED <<lastSid, changed, unheard>>

\* An invitation was accepted, by us or by him.
Befriend(b) ==
  /\ truth' = [truth EXCEPT ![b].friend = TRUE]
  /\ changed' = changed \union {b}
  /\ unheard' = unheard \union {truth[b].sid}
  /\ Send(<<NamesOf(<<b>>)>> \o IF truth[b].sid = NoSid THEN <<>> ELSE <<OnlineOf(<<b>>, truth)>>)
  /\ UNCHANGED lastSid

Unfriend(b) ==
  /\ truth' = [truth EXCEPT ![b].friend = FALSE]
  /\ changed' = changed \union {b}
  /\ Send(<<[kind |-> "removed", id |-> b]>>)
  /\ UNCHANGED <<lastSid, unheard>>

Write(b) ==
  /\ Send(<<[kind |-> "im", from |-> b, sid |-> truth[b].sid]>>)
  /\ UNCHANGED <<truth, lastSid, changed, unheard>>
-----------------------------------------------------------------------------
(* Our side *)

\* After the log-in the server sends everything it knows.
Login ==
  /\ ~connected /\ logins < MaxLogins
  /\ connected' = TRUE /\ logins' = logins + 1
  /\ LET friends == AnyOrder(Friends)
         online == AnyOrder(OnlineFriends)
         playing == AnyOrder({b \in OnlineFriends : truth[b].game # 0})
         away == AnyOrder({b \in OnlineFriends : truth[b].said # "Online"})
     IN  /\ wire' = <<NamesOf(friends), OnlineOf(online, truth), GamesOf(playing, truth)>>
                      \o IF away = <<>> THEN <<>> ELSE <<StatusOf(away, truth)>>
         /\ unheard' = {truth[away[k]].sid : k \in 2..Len(away)}
  /\ changed' = {}
  /\ parts' = [s \in 1..MaxSid |-> 0]
  /\ UNCHANGED <<nodes, server, shown>>

\* gaim shows everybody offline; the nodes keep their settings.
Logout ==
  /\ connected
  /\ connected' = FALSE
  /\ wire' = <<>>
  /\ nodes' = [b \in Buddy |-> [nodes[b] EXCEPT !.present = FALSE]]
  /\ shown' = Nobody
  /\ UNCHANGED <<logins, server, changed, unheard, parts>>

\* Packets that begin or end a friendship with b.
Renews(p, b) ==
  \/ p.kind = "names" /\ Named(p.items, b) # {}
  \/ p.kind = "removed" /\ p.id = b

\* The buddies an online packet speaks of as friends that they are still.
SpokenOf(p, rest) ==
  IF p.kind # "online" THEN {}
  ELSE {b \in Listed : /\ Told(p.items, b) # {}
                       /\ \A q \in 1..Len(rest) : ~Renews(rest[q], b)}

\* xfire_packet_handler with a packet of the buddy list, or a message.
Receive ==
  /\ wire # <<>>
  /\ wire' = Tail(wire)
  /\ nodes' = Handled(nodes, Head(wire))
  /\ shown' = IF Head(wire).kind = "im"
                THEN [from |-> Head(wire).from, to |-> Matching(nodes, Head(wire).sid)]
                ELSE Nobody
  /\ changed' = changed \ SpokenOf(Head(wire), Tail(wire))
  /\ UNCHANGED <<connected, logins, server, unheard, parts>>

\* A message of ours, cut in parts that are counted one by one.
SendIm(b, n) ==
  /\ connected /\ nodes[b].present
  /\ nodes[b].imindex + n <= MaxParts
  /\ nodes' = [nodes EXCEPT ![b].imindex = @ + n]
  /\ parts' = [parts EXCEPT ![nodes[b].sid] = @ + n]
  /\ UNCHANGED <<connected, logins, wire, server, changed, unheard, shown>>

\* gaim drops the node when we remove a buddy, and the server's word that the
\* friendship has ended comes later.
RemBuddy(b) ==
  /\ connected /\ nodes[b].listed
  /\ nodes' = [nodes EXCEPT ![b] = NoNode]
  /\ changed' = changed \union {b}
  /\ UNCHANGED <<connected, logins, wire, server, unheard, shown, parts>>

Next ==
  \/ \E S \in SUBSET Buddy : \E order \in Orders(S) : S # {} /\ Move(order)
  \/ \E S \in SUBSET OnlineFriends :
       \E order \in Orders(S), msg \in Statuses : S # {} /\ Say(order, msg)
  \/ \E S \in SUBSET OnlineFriends :
       \E order \in Orders(S), g \in {0} \union Games : S # {} /\ Play(order, g)
  \/ \E b \in Buddy \ Friends : Befriend(b)
  \/ \E b \in Friends : Unfriend(b)
  \/ \E b \in OnlineFriends : Write(b)
  \/ Login \/ Logout \/ Receive
  \/ \E b \in Buddy, n \in 1..MaxParts : SendIm(b, n)
  \/ \E b \in Buddy : RemBuddy(b)

Spec == Init /\ [][Next]_vars
-----------------------------------------------------------------------------
(* Properties *)

(* Once every packet has been handled, each friend has a node that is shown  *)
(* online as the server says, with his session id; what he has said or plays *)
(* since he logged in is what the node keeps, unless his status stood behind *)
(* another's in its packet or he became a friend in between.  Whom we     *)
(* have removed or who became a friend again is left out until the server    *)
(* speaks of him.                                                            *)
Mirrors ==
  connected /\ wire = <<>> =>
    \A b \in Friends \ changed :
      LET n == nodes[b]
          t == truth[b]
      IN  /\ n.listed
          /\ n.present <=> t.sid # NoSid
          /\ n.present => n.sid = t.sid
          /\ t.sid \notin unheard =>
               /\ t.game # 0 => n.game = t.game
               /\ t.said # "Online" => n.amessage = Away(t.said)

(* A message is shown as coming from whom it came from or not at all: never  *)
(* from two buddies, nor from one that had his session id before.            *)
ShownAsSent == shown.to \subseteq {shown.from}

(* The counter sent with a part is the number of parts sent to that session  *)
(* id in this log-in ("Count the messages we sent, XFire wants this",        *)
(* xfire.c:156), unless that session id was announced to us anew.            *)
CountsParts ==
  \A b \in Listed :
    nodes[b].present /\ nodes[b].sid \notin unheard => nodes[b].imindex = parts[nodes[b].sid]
=============================================================================
