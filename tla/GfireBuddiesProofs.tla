-------------------------- MODULE GfireBuddiesProofs --------------------------
(***************************************************************************)
(* What gaim's nodes keep of the server's word, for any buddies, statuses  *)
(* and games and any bounds on log-ins, packets and changes: once the wire *)
(* is empty they mirror it, a message is shown from its sender only, and   *)
(* the parts of a message are counted by session.                          *)
(***************************************************************************)
EXTENDS GfireBuddies, SequenceFacts, FiniteSetTheorems, TLAPS

-----------------------------------------------------------------------------
(* Packets, and what they say *)

Node == [listed : BOOLEAN, present : BOOLEAN, sid : 0..NullSid,
         amessage : Statuses \union {NoMessage}, game : {0} \union Games, imindex : Nat]
Person == [friend : BOOLEAN, sid : 0..MaxSid, said : Statuses, game : {0} \union Games]

OnlineItem == [id : Buddy, sid : 0..MaxSid]
GameItem == [sid : 1..MaxSid, game : {0} \union Games]
WordItem == [sid : 1..MaxSid, msg : Statuses]

Names == [kind : {"names"}, items : Seq(Buddy)]
Onlines == {p \in [kind : {"online"}, items : Seq(OnlineItem)] :
              \A k, m \in 1..Len(p.items) : p.items[k].id = p.items[m].id => k = m}
Plays == {p \in [kind : {"games"}, items : Seq(GameItem)] :
              \A k, m \in 1..Len(p.items) : p.items[k].sid = p.items[m].sid => k = m}
Words == {p \in [kind : {"status"}, items : Seq(WordItem)] : Len(p.items) > 0}
Messages == [kind : {"im"}, from : Buddy, sid : 1..MaxSid]
Removals == [kind : {"removed"}, id : Buddy]
Packet == Names \union Onlines \union Plays \union Words \union Messages \union Removals

\* b has the session id s; whoever has it plays g, or says m; b writes under it.
Speaks(p, b, s) ==
  p.kind = "online" /\ \E k \in 1..Len(p.items) : p.items[k].id = b /\ p.items[k].sid = s
IsPlaying(p, s, g) ==
  p.kind = "games" /\ \E k \in 1..Len(p.items) : p.items[k].sid = s /\ p.items[k].game = g
IsSaying(p, s, m) == p.kind = "status" /\ p.items[1].sid = s /\ p.items[1].msg = m
Writes(p, b, s) == p.kind = "im" /\ p.from = b /\ p.sid = s

OnlineAbout(p, b) == \E s \in 0..MaxSid : Speaks(p, b, s)
GameAbout(p, s) == \E g \in {0} \union Games : IsPlaying(p, s, g)
WordAbout(p, s) == \E m \in Statuses : IsSaying(p, s, m)
-----------------------------------------------------------------------------
(* The invariant *)

\* The last packet on the wire that speaks of a friend is right.
LastWord(w, b, x) ==
  \A q \in 1..Len(w), s \in 0..MaxSid :
    /\ Speaks(w[q], b, s)
    /\ \A r \in 1..Len(w) : r > q => ~Renews(w[r], b) /\ ~OnlineAbout(w[r], b)
    => x.sid = s

\* Games and statuses of a session stand behind the packet that announces it.
InOrder(w, b, x) ==
  \A q, r \in 1..Len(w) :
    (GameAbout(w[q], x.sid) \/ WordAbout(w[q], x.sid)) /\ Speaks(w[r], b, x.sid) => r < q

LastGame(w, x) ==
  \A q \in 1..Len(w), g \in {0} \union Games :
    /\ IsPlaying(w[q], x.sid, g)
    /\ \A r \in 1..Len(w) : r > q => ~GameAbout(w[r], x.sid)
    => x.game = g

LastSaid(w, x) ==
  \A q \in 1..Len(w), m \in Statuses :
    /\ IsSaying(w[q], x.sid, m)
    /\ \A r \in 1..Len(w) : r > q => ~WordAbout(w[r], x.sid)
    => x.said = m

Coming(w, b, x) == \E q \in 1..Len(w) : Speaks(w[q], b, x.sid)
NoGame(w, x) == \A q \in 1..Len(w) : ~GameAbout(w[q], x.sid)
NoWord(w, x) == \A q \in 1..Len(w) : ~WordAbout(w[q], x.sid)

\* Of a session not yet announced, all that was said stands on the wire.
NotYet(w, b, x) ==
  Coming(w, b, x) => (NoGame(w, x) => x.game = 0) /\ (NoWord(w, x) => x.said = "Online")

\* Unless a packet is to come, the node shows a friend as he is.
Settled(w, b, x, n) ==
  /\ \A q \in 1..Len(w) : Renews(w[q], b) => q = 1 /\ w[q].kind = "names"
  /\ n.listed \/ (w # <<>> /\ Renews(w[1], b))
  /\ (\A q \in 1..Len(w) : ~OnlineAbout(w[q], b)) =>
       (n.present <=> x.sid # NoSid) /\ (n.present => n.sid = x.sid)

\* And keeps what he said and plays.
Kept(w, b, x, n) ==
  ~Coming(w, b, x) =>
    /\ \A q \in 1..Len(w) : ~OnlineAbout(w[q], b) /\ ~Renews(w[q], b)
    /\ NoGame(w, x) /\ x.game # 0 => n.game = x.game
    /\ NoWord(w, x) /\ x.said # "Online" => n.amessage = Away(x.said)

\* All of it, of one friend: heard if his session is none of unheard, steady if
\* we are connected and he is none of changed.
Right(w, b, x, n, heard, steady) ==
  /\ LastWord(w, b, x)
  /\ heard => InOrder(w, b, x) /\ LastGame(w, x) /\ LastSaid(w, x) /\ NotYet(w, b, x)
  /\ steady => Settled(w, b, x, n) /\ (heard => Kept(w, b, x, n))

Heard(x, u) == x.sid # NoSid /\ x.sid \notin u
Steady(b) == connected /\ b \notin changed

FriendsRight ==
  \A b \in Friends : Right(wire, b, truth[b], nodes[b], Heard(truth[b], unheard), Steady(b))

\* Session ids are given to one buddy.
Claims(w, t, ns, b, s) ==
  \/ t[b].sid = s
  \/ ns[b].present /\ ns[b].sid = s
  \/ \E q \in 1..Len(w) : Speaks(w[q], b, s) \/ Writes(w[q], b, s)

Owned(w, t, ns, last) ==
  \A b \in Buddy, s \in 1..MaxSid : Claims(w, t, ns, b, s) =>
    s <= last /\ \A c \in Buddy : Claims(w, t, ns, c, s) => b = c

\* Nothing is said of a session id before it is given.
Given(w, last) ==
  \A q \in 1..Len(w), s \in 1..MaxSid : GameAbout(w[q], s) \/ WordAbout(w[q], s) => s <= last

\* A session id is announced once, before anything is sent to it.
Announced(w, ns, u, ps) ==
  \A b \in Buddy, s \in 1..MaxSid, q \in 1..Len(w) :
    s \notin u /\ Speaks(w[q], b, s) =>
      /\ ps[s] = 0
      /\ ~(ns[b].present /\ ns[b].sid = s)
      /\ \A r \in 1..Len(w) : Speaks(w[r], b, s) => r = q

WireSound(w, t, ns, u, ps, last) ==
  Owned(w, t, ns, last) /\ Given(w, last) /\ Announced(w, ns, u, ps)

Unused == \A s \in 1..MaxSid : s > lastSid => parts[s] = 0

\* Whoever is offline plays nothing and says nothing.
Typed ==
  /\ TypeOK
  /\ wire \in Seq(Packet)
  /\ ~connected => wire = <<>>
  /\ \A b \in Buddy : truth[b].sid = NoSid => truth[b].game = 0 /\ truth[b].said = "Online"

IInv ==
  /\ Typed /\ FriendsRight /\ Unused
  /\ WireSound(wire, truth, nodes, unheard, parts, lastSid)
  /\ ShownAsSent /\ CountsParts
-----------------------------------------------------------------------------
(* Orders of a set of buddies *)

LEMMA OrderFacts ==
  ASSUME NEW S \in SUBSET Buddy, NEW s \in Orders(S)
  PROVE  /\ s \in Seq(Buddy) /\ Len(s) \in Nat
         /\ \A k \in 1..Len(s) : s[k] \in S
         /\ \A b \in S : \E k \in 1..Len(s) : s[k] = b
         /\ \A k, m \in 1..Len(s) : s[k] = s[m] => k = m
         /\ s = <<>> <=> S = {}
<1>1. Cardinality(S) \in Nat
  BY BuddiesAssumption, FS_Subset, FS_CardinalityType
<1>2. s \in [1..Cardinality(S) -> S]
  BY DEF Orders
<1>3. s \in Seq(S) /\ Len(s) = Cardinality(S)
  BY <1>1, <1>2, FunctionIsSeq
<1>4. s \in Seq(Buddy)
  BY <1>3, SeqMonotonic
<1>5. /\ \A k \in 1..Len(s) : s[k] \in S
      /\ \A b \in S : \E k \in 1..Len(s) : s[k] = b
      /\ \A k, m \in 1..Len(s) : s[k] = s[m] => k = m
  BY <1>2, <1>3 DEF Orders
<1>6. s = <<>> <=> S = {}
  <2>1. ASSUME s = <<>>
        PROVE  S = {}
    BY <1>5, <2>1, EmptySeq
  <2>2. ASSUME S = {}
        PROVE  s = <<>>
    BY <1>3, <2>2, FS_EmptySet, EmptySeq
  <2>. QED BY <2>1, <2>2
<1>. QED BY <1>1, <1>3, <1>4, <1>5, <1>6

LEMMA AnyOrderIsOne ==
  ASSUME NEW S \in SUBSET Buddy
  PROVE  AnyOrder(S) \in Orders(S)
<1>1. IsFiniteSet(S)
  BY BuddiesAssumption, FS_Subset
<1>2. ExistsBijection(1..Cardinality(S), S)
  BY <1>1, FS_CardinalityType
<1>3. PICK f : f \in Bijection(1..Cardinality(S), S)
  BY <1>2 DEF ExistsBijection
<1>4. f \in Orders(S)
  BY <1>3 DEF Bijection, Injection, Surjection, IsInjective, Orders
<1>. QED BY <1>4 DEF AnyOrder
-----------------------------------------------------------------------------
(* Packets *)

LEMMA KindsDiffer ==
  ASSUME NEW p \in Packet
  PROVE  /\ p.kind = "names" => p \in Names
         /\ p.kind = "online" => p \in Onlines
         /\ p.kind = "games" => p \in Plays
         /\ p.kind = "status" => p \in Words
         /\ p.kind = "im" => p \in Messages
         /\ p.kind = "removed" => p \in Removals
         /\ p.kind \in {"names", "online", "games", "status", "im", "removed"}
<1>1. p \in Names => p.kind = "names"
  BY DEF Names
<1>2. p \in Onlines => p.kind = "online"
  BY DEF Onlines
<1>3. p \in Plays => p.kind = "games"
  BY DEF Plays
<1>4. p \in Words => p.kind = "status"
  BY DEF Words
<1>5. p \in Messages => p.kind = "im"
  BY DEF Messages
<1>6. p \in Removals => p.kind = "removed"
  BY DEF Removals
<1>. QED BY <1>1, <1>2, <1>3, <1>4, <1>5, <1>6 DEF Packet

LEMMA OnlineFacts ==
  ASSUME NEW p \in Onlines
  PROVE  /\ p.kind = "online" /\ p.items \in Seq(OnlineItem) /\ Len(p.items) \in Nat
         /\ \A k \in 1..Len(p.items) : p.items[k].id \in Buddy /\ p.items[k].sid \in 0..MaxSid
         /\ \A k, m \in 1..Len(p.items) : p.items[k].id = p.items[m].id => k = m
<1>1. /\ p.kind = "online" /\ p.items \in Seq(OnlineItem)
      /\ \A k, m \in 1..Len(p.items) : p.items[k].id = p.items[m].id => k = m
  BY DEF Onlines
<1>2. Len(p.items) \in Nat /\ \A k \in 1..Len(p.items) : p.items[k] \in OnlineItem
  BY <1>1, LenProperties, ElementOfSeq
<1>3. \A i \in OnlineItem : i.id \in Buddy /\ i.sid \in 0..MaxSid
  BY DEF OnlineItem
<1>. QED BY <1>1, <1>2, <1>3

LEMMA GameFacts ==
  ASSUME NEW p \in Plays
  PROVE  /\ p.kind = "games" /\ p.items \in Seq(GameItem) /\ Len(p.items) \in Nat
         /\ \A k \in 1..Len(p.items) : p.items[k].sid \in 1..MaxSid /\ p.items[k].game \in {0} \union Games
         /\ \A k, m \in 1..Len(p.items) : p.items[k].sid = p.items[m].sid => k = m
<1>1. /\ p.kind = "games" /\ p.items \in Seq(GameItem)
      /\ \A k, m \in 1..Len(p.items) : p.items[k].sid = p.items[m].sid => k = m
  BY DEF Plays
<1>2. Len(p.items) \in Nat /\ \A k \in 1..Len(p.items) : p.items[k] \in GameItem
  BY <1>1, LenProperties, ElementOfSeq
<1>3. \A i \in GameItem : i.sid \in 1..MaxSid /\ i.game \in {0} \union Games
  BY DEF GameItem
<1>. QED BY <1>1, <1>2, <1>3

LEMMA WordFacts ==
  ASSUME NEW p \in Words
  PROVE  p.kind = "status" /\ p.items[1].sid \in 1..MaxSid /\ p.items[1].msg \in Statuses
<1>1. p.kind = "status" /\ p.items \in Seq(WordItem) /\ Len(p.items) > 0
  BY DEF Words
<1>2. p.items[1] \in WordItem
  BY <1>1, LenProperties, ElementOfSeq
<1>. QED BY <1>1, <1>2 DEF WordItem

\* A packet of one kind says nothing of the others'.
LEMMA KindsSay ==
  ASSUME NEW p
  PROVE  /\ p.kind # "online" => \A b : ~OnlineAbout(p, b) /\ \A s : ~Speaks(p, b, s)
         /\ p.kind # "games" => \A s : ~GameAbout(p, s) /\ \A g : ~IsPlaying(p, s, g)
         /\ p.kind # "status" => \A s : ~WordAbout(p, s) /\ \A m : ~IsSaying(p, s, m)
         /\ p.kind # "im" => \A b, s : ~Writes(p, b, s)
         /\ p.kind \notin {"names", "removed"} => \A b : ~Renews(p, b)
BY DEF OnlineAbout, Speaks, GameAbout, IsPlaying, WordAbout, IsSaying, Writes, Renews

LEMMA SaysOne ==
  ASSUME NEW p \in Packet
  PROVE  /\ \A b, s, r : Speaks(p, b, s) /\ Speaks(p, b, r) => s = r
         /\ \A b, s : Speaks(p, b, s) => b \in Buddy /\ s \in 0..MaxSid /\ OnlineAbout(p, b)
         /\ \A s, g, h : IsPlaying(p, s, g) /\ IsPlaying(p, s, h) => g = h
         /\ \A s, g : IsPlaying(p, s, g) => s \in 1..MaxSid /\ g \in {0} \union Games /\ GameAbout(p, s)
         /\ \A s, m, n : IsSaying(p, s, m) /\ IsSaying(p, s, n) => m = n
         /\ \A s, m : IsSaying(p, s, m) => s \in 1..MaxSid /\ m \in Statuses /\ WordAbout(p, s)
         /\ \A b, s : Writes(p, b, s) => b \in Buddy /\ s \in 1..MaxSid
<1>1. ASSUME p.kind = "online"
      PROVE  /\ \A b, s, r : Speaks(p, b, s) /\ Speaks(p, b, r) => s = r
             /\ \A b, s : Speaks(p, b, s) => b \in Buddy /\ s \in 0..MaxSid /\ OnlineAbout(p, b)
  <2>1. p \in Onlines
    BY <1>1, KindsDiffer
  <2>. QED BY <2>1, OnlineFacts DEF Speaks, OnlineAbout
<1>2. ASSUME p.kind = "games"
      PROVE  /\ \A s, g, h : IsPlaying(p, s, g) /\ IsPlaying(p, s, h) => g = h
             /\ \A s, g : IsPlaying(p, s, g) => s \in 1..MaxSid /\ g \in {0} \union Games /\ GameAbout(p, s)
  <2>1. p \in Plays
    BY <1>2, KindsDiffer
  <2>2. /\ Len(p.items) \in Nat
        /\ \A k \in 1..Len(p.items) : p.items[k].sid \in 1..MaxSid /\ p.items[k].game \in {0} \union Games
        /\ \A k, m \in 1..Len(p.items) : p.items[k].sid = p.items[m].sid => k = m
    BY <2>1, GameFacts
  <2>3. \A s, g, h : IsPlaying(p, s, g) /\ IsPlaying(p, s, h) => g = h
    BY ONLY <2>2 DEF IsPlaying
  <2>4. \A s, g : IsPlaying(p, s, g) => s \in 1..MaxSid /\ g \in {0} \union Games
    BY ONLY <2>2 DEF IsPlaying
  <2>. QED BY ONLY <2>3, <2>4 DEF GameAbout
<1>3. ASSUME p.kind = "status"
      PROVE  /\ \A s, m, n : IsSaying(p, s, m) /\ IsSaying(p, s, n) => m = n
             /\ \A s, m : IsSaying(p, s, m) => s \in 1..MaxSid /\ m \in Statuses /\ WordAbout(p, s)
  <2>1. p \in Words
    BY <1>3, KindsDiffer
  <2>. QED BY <2>1, WordFacts DEF IsSaying, WordAbout
<1>4. ASSUME p.kind = "im"
      PROVE  \A b, s : Writes(p, b, s) => b \in Buddy /\ s \in 1..MaxSid
  <2>1. p \in Messages
    BY <1>4, KindsDiffer
  <2>. QED BY <2>1 DEF Messages, Writes
<1>. QED BY <1>1, <1>2, <1>3, <1>4, KindsSay

\* The packets the server makes.
LEMMA NamesMade ==
  ASSUME NEW S \in SUBSET Buddy, NEW s \in Orders(S)
  PROVE  /\ NamesOf(s) \in Packet /\ NamesOf(s).kind = "names"
         /\ \A b : Renews(NamesOf(s), b) <=> b \in S
<1>1. s \in Seq(Buddy) /\ Len(s) \in Nat
  BY OrderFacts
<1>2. NamesOf(s) \in Packet /\ NamesOf(s).kind = "names" /\ NamesOf(s).items = s
  BY <1>1 DEF NamesOf, Names, Packet
<1>3. ASSUME NEW b
      PROVE  Renews(NamesOf(s), b) <=> b \in S
  <2>1. Renews(NamesOf(s), b) <=> \E k \in 1..Len(s) : s[k] = b
    BY <1>2 DEF Renews, Named
  <2>. QED BY <2>1, OrderFacts
<1>. QED BY <1>2, <1>3

LEMMA OnlineMade ==
  ASSUME NEW S \in SUBSET Buddy, NEW s \in Orders(S), NEW t \in [Buddy -> Person]
  PROVE  /\ OnlineOf(s, t) \in Packet /\ OnlineOf(s, t).kind = "online"
         /\ \A b, x : Speaks(OnlineOf(s, t), b, x) <=> b \in S /\ x = t[b].sid
         /\ \A b : OnlineAbout(OnlineOf(s, t), b) <=> b \in S
<1> DEFINE items == [k \in 1..Len(s) |-> [id |-> s[k], sid |-> t[s[k]].sid]]
<1>1. s \in Seq(Buddy) /\ Len(s) \in Nat /\ \A k \in 1..Len(s) : s[k] \in Buddy
  BY OrderFacts
<1>2. \A b \in Buddy : t[b].sid \in 0..MaxSid
  BY DEF Person
<1>3. items \in [1..Len(s) -> OnlineItem]
  BY <1>1, <1>2 DEF OnlineItem
<1>5. \A k \in 1..Len(s) : items[k].id = s[k] /\ items[k].sid = t[s[k]].sid
  OBVIOUS
<1>. HIDE DEF items
<1>4. items \in Seq(OnlineItem) /\ Len(items) = Len(s)
  BY ONLY <1>1, <1>3, FunctionIsSeq
<1>6. OnlineOf(s, t) = [kind |-> "online", items |-> items]
  BY DEF OnlineOf, items
<1>7. OnlineOf(s, t).kind = "online" /\ OnlineOf(s, t).items = items
  BY <1>6
<1>8. \A k, m \in 1..Len(items) : items[k].id = items[m].id => k = m
  BY <1>4, <1>5, OrderFacts
<1>9. OnlineOf(s, t) \in Onlines
  BY <1>4, <1>6, <1>8 DEF Onlines
<1>10. ASSUME NEW b, NEW x
       PROVE  Speaks(OnlineOf(s, t), b, x) <=> b \in S /\ x = t[b].sid
  <2>1. Speaks(OnlineOf(s, t), b, x) <=> \E k \in 1..Len(s) : s[k] = b /\ t[s[k]].sid = x
    BY <1>4, <1>5, <1>7 DEF Speaks
  <2>. QED BY <2>1, OrderFacts
<1>11. ASSUME NEW b
       PROVE  OnlineAbout(OnlineOf(s, t), b) <=> b \in S
  BY <1>2, <1>10 DEF OnlineAbout
<1>. QED BY <1>7, <1>9, <1>10, <1>11 DEF Packet

LEMMA GamesMade ==
  ASSUME NEW S \in SUBSET Buddy, NEW s \in Orders(S), NEW t \in [Buddy -> Person],
         \A b \in S : t[b].sid # NoSid,
         \A b, c \in S : t[b].sid = t[c].sid => b = c
  PROVE  /\ GamesOf(s, t) \in Packet /\ GamesOf(s, t).kind = "games"
         /\ \A x, g : IsPlaying(GamesOf(s, t), x, g) <=> \E b \in S : x = t[b].sid /\ g = t[b].game
         /\ \A x : GameAbout(GamesOf(s, t), x) <=> \E b \in S : x = t[b].sid
<1> DEFINE items == [k \in 1..Len(s) |-> [sid |-> t[s[k]].sid, game |-> t[s[k]].game]]
<1>1. s \in Seq(Buddy) /\ Len(s) \in Nat /\ \A k \in 1..Len(s) : s[k] \in S /\ s[k] \in Buddy
  BY OrderFacts
<1>2. \A b \in S : t[b].sid \in 1..MaxSid /\ t[b].game \in {0} \union Games
  <2>1. MaxSid \in Nat
    BY BuddiesAssumption
  <2>. QED BY <2>1 DEF Person, NoSid
<1>3. items \in [1..Len(s) -> GameItem]
  BY <1>1, <1>2 DEF GameItem
<1>5. \A k \in 1..Len(s) : items[k].sid = t[s[k]].sid /\ items[k].game = t[s[k]].game
  OBVIOUS
<1>. HIDE DEF items
<1>4. items \in Seq(GameItem) /\ Len(items) = Len(s)
  BY ONLY <1>1, <1>3, FunctionIsSeq
<1>6. GamesOf(s, t) = [kind |-> "games", items |-> items]
  BY DEF GamesOf, items
<1>7. GamesOf(s, t).kind = "games" /\ GamesOf(s, t).items = items
  BY <1>6
<1>8. \A k, m \in 1..Len(items) : items[k].sid = items[m].sid => k = m
  BY <1>1, <1>4, <1>5, OrderFacts
<1>9. GamesOf(s, t) \in Plays
  BY <1>4, <1>6, <1>8 DEF Plays
<1>10. ASSUME NEW x, NEW g
       PROVE  IsPlaying(GamesOf(s, t), x, g) <=> \E b \in S : x = t[b].sid /\ g = t[b].game
  <2>1. IsPlaying(GamesOf(s, t), x, g)
          <=> \E k \in 1..Len(s) : t[s[k]].sid = x /\ t[s[k]].game = g
    BY <1>4, <1>5, <1>7 DEF IsPlaying
  <2>. QED BY <2>1, OrderFacts
<1>11. ASSUME NEW x
       PROVE  GameAbout(GamesOf(s, t), x) <=> \E b \in S : x = t[b].sid
  BY <1>2, <1>10 DEF GameAbout
<1>. QED BY <1>7, <1>9, <1>10, <1>11 DEF Packet

\* Only the first of a status packet is heard.
LEMMA StatusMade ==
  ASSUME NEW S \in SUBSET Buddy, NEW s \in Orders(S), NEW t \in [Buddy -> Person], s # <<>>,
         \A b \in S : t[b].sid # NoSid
  PROVE  /\ StatusOf(s, t) \in Packet /\ StatusOf(s, t).kind = "status" /\ s[1] \in S
         /\ \A x, m : IsSaying(StatusOf(s, t), x, m) <=> x = t[s[1]].sid /\ m = t[s[1]].said
         /\ \A x : WordAbout(StatusOf(s, t), x) <=> x = t[s[1]].sid
<1> DEFINE items == [k \in 1..Len(s) |-> [sid |-> t[s[k]].sid, msg |-> t[s[k]].said]]
<1>1. s \in Seq(Buddy) /\ Len(s) \in Nat /\ \A k \in 1..Len(s) : s[k] \in S /\ s[k] \in Buddy
  BY OrderFacts
<1>2. \A b \in S : t[b].sid \in 1..MaxSid /\ t[b].said \in Statuses
  <2>1. MaxSid \in Nat
    BY BuddiesAssumption
  <2>. QED BY <2>1 DEF Person, NoSid
<1>3. items \in [1..Len(s) -> WordItem]
  BY <1>1, <1>2 DEF WordItem
<1>4. Len(s) > 0
  BY <1>1, EmptySeq
<1>5. items[1].sid = t[s[1]].sid /\ items[1].msg = t[s[1]].said /\ s[1] \in S
  BY <1>1, <1>4
<1>. HIDE DEF items
<1>11. items \in Seq(WordItem) /\ Len(items) = Len(s)
  BY ONLY <1>1, <1>3, FunctionIsSeq
<1>6. StatusOf(s, t) = [kind |-> "status", items |-> items]
  BY DEF StatusOf, items
<1>7. StatusOf(s, t).kind = "status" /\ StatusOf(s, t).items = items
  BY <1>6
<1>8. StatusOf(s, t) \in Words
  BY <1>4, <1>6, <1>11 DEF Words
<1>9. \A x, m : IsSaying(StatusOf(s, t), x, m) <=> x = t[s[1]].sid /\ m = t[s[1]].said
  BY <1>5, <1>7 DEF IsSaying
<1>10. \A x : WordAbout(StatusOf(s, t), x) <=> x = t[s[1]].sid
  BY <1>2, <1>5, <1>9 DEF WordAbout
<1>. QED BY <1>5, <1>7, <1>8, <1>9, <1>10 DEF Packet
-----------------------------------------------------------------------------
(* The wire grows by a packet, and loses its first *)

LEMMA Appended ==
  ASSUME NEW w \in Seq(Packet), NEW p \in Packet
  PROVE  /\ Append(w, p) \in Seq(Packet) /\ Len(w) \in Nat
         /\ Len(Append(w, p)) = Len(w) + 1 /\ 1..Len(Append(w, p)) = 1..(Len(w) + 1)
         /\ \A q \in 1..Len(w) : Append(w, p)[q] = w[q]
         /\ Append(w, p)[Len(w) + 1] = p
         /\ Append(w, p) # <<>> /\ (w # <<>> => Append(w, p)[1] = w[1])
<1>1. /\ Append(w, p) \in Seq(Packet) /\ Len(w) \in Nat
      /\ Len(Append(w, p)) = Len(w) + 1
      /\ \A q \in 1..Len(w) : Append(w, p)[q] = w[q]
      /\ Append(w, p)[Len(w) + 1] = p
  BY AppendProperties, LenProperties
<1>2. Append(w, p) # <<>>
  BY <1>1, EmptySeq
<1>3. w # <<>> => 1 \in 1..Len(w)
  BY <1>1, EmptySeq
<1>. QED BY <1>1, <1>2, <1>3

LEMMA TailFacts ==
  ASSUME NEW w \in Seq(Packet), w # <<>>
  PROVE  /\ Tail(w) \in Seq(Packet) /\ Len(w) \in Nat /\ Len(w) > 0 /\ Len(Tail(w)) = Len(w) - 1
         /\ Head(w) = w[1] /\ w[1] \in Packet
         /\ \A q \in 1..Len(Tail(w)) : Tail(w)[q] = w[q + 1] /\ q + 1 \in 1..Len(w)
         /\ \A q \in 1..Len(w) : w[q] \in Packet /\ (q = 1 \/ (q - 1 \in 1..Len(Tail(w)) /\ Tail(w)[q - 1] = w[q]))
<1>1. /\ Tail(w) \in Seq(Packet) /\ Len(w) \in Nat /\ Len(Tail(w)) = Len(w) - 1
      /\ \A q \in 1..Len(Tail(w)) : Tail(w)[q] = w[q + 1]
  BY HeadTailProperties, LenProperties
<1>2. Len(w) > 0
  BY <1>1, EmptySeq
<1>3. \A q \in 1..Len(w) : w[q] \in Packet
  BY ElementOfSeq
<1>4. Head(w) = w[1]
  BY DEF Head
<1>. QED BY <1>1, <1>2, <1>3, <1>4

\* An empty wire says nothing wrong.
LEMMA NothingOnWire ==
  ASSUME NEW b, NEW x, NEW n, NEW heard
  PROVE  Right(<<>>, b, x, n, heard, FALSE)
<1>1. Len(<<>>) = 0 /\ 1..Len(<<>>) = {}
  BY EmptySeq
<1>. QED BY ONLY <1>1 DEF Right, LastWord, InOrder, LastGame, LastSaid, NotYet, Coming

\* A packet that speaks of no session id of b leaves him right, if what it says
\* of his session is so.
LEMMA Grows ==
  ASSUME NEW w \in Seq(Packet), NEW p \in Packet, NEW b, NEW x, NEW y, NEW n,
         NEW h \in BOOLEAN, NEW z \in BOOLEAN, NEW g \in BOOLEAN, NEW f \in BOOLEAN,
         Right(w, b, x, n, h, z), y.sid = x.sid, g => h, f => z,
         ~OnlineAbout(p, b), ~Renews(p, b),
         g => /\ IF GameAbout(p, x.sid) THEN IsPlaying(p, x.sid, y.game) ELSE y.game = x.game
              /\ IF WordAbout(p, x.sid) THEN IsSaying(p, x.sid, y.said) ELSE y.said = x.said
  PROVE  Right(Append(w, p), b, y, n, g, f)
<1> DEFINE v == Append(w, p)
           L == Len(w)
<1>1. /\ L \in Nat /\ 1..Len(v) = 1..(L + 1) /\ \A q \in 1..L : v[q] = w[q]
      /\ v[L + 1] = p /\ v # <<>> /\ (w # <<>> => v[1] = w[1])
  BY Appended
<1>2. \A q \in 1..(L + 1) : q \in 1..L \/ q = L + 1
  BY <1>1
<1>3. \A q \in 1..L : q \in 1..(L + 1) /\ L + 1 > q
  BY <1>1
<1>4. L + 1 \in 1..(L + 1) /\ \A r \in 1..L : ~(r > L + 1)
  BY <1>1
<1>5. /\ \A s : ~Speaks(p, b, s)
      /\ \A s, i, j : IsPlaying(p, s, i) /\ IsPlaying(p, s, j) => i = j
      /\ \A s, i : IsPlaying(p, s, i) => GameAbout(p, s)
      /\ \A s, i, j : IsSaying(p, s, i) /\ IsSaying(p, s, j) => i = j
      /\ \A s, i : IsSaying(p, s, i) => WordAbout(p, s)
  BY SaysOne
<1>. HIDE DEF v, L
<1>6. LastWord(v, b, y)
  <2>. SUFFICES ASSUME NEW q \in 1..(L + 1), NEW s \in 0..MaxSid, Speaks(v[q], b, s),
                       \A r \in 1..(L + 1) : r > q => ~Renews(v[r], b) /\ ~OnlineAbout(v[r], b)
                PROVE  x.sid = s
    BY <1>1 DEF LastWord
  <2>1. q \in 1..L
    BY <1>1, <1>2, <1>5
  <2>2. \A r \in 1..L : r > q => ~Renews(w[r], b) /\ ~OnlineAbout(w[r], b)
    BY <1>1, <1>3
  <2>. QED BY <1>1, <2>1, <2>2 DEF Right, LastWord, L
<1>7. ASSUME g
      PROVE  InOrder(v, b, y) /\ LastGame(v, y) /\ LastSaid(v, y) /\ NotYet(v, b, y)
  <2>1. InOrder(w, b, x) /\ LastGame(w, x) /\ LastSaid(w, x) /\ NotYet(w, b, x)
    BY <1>7 DEF Right
  <2>2. InOrder(v, b, y)
    <3>. SUFFICES ASSUME NEW q \in 1..(L + 1), NEW r \in 1..(L + 1), Speaks(v[r], b, x.sid),
                         GameAbout(v[q], x.sid) \/ WordAbout(v[q], x.sid)
                  PROVE  r < q
      BY <1>1 DEF InOrder
    <3>1. r \in 1..L /\ Speaks(w[r], b, x.sid)
      BY <1>1, <1>2, <1>5
    <3>2. CASE q \in 1..L
      BY <1>1, <2>1, <3>1, <3>2 DEF InOrder, L
    <3>3. CASE q = L + 1
      BY <1>1, <3>1, <3>3
    <3>. QED BY <1>2, <3>2, <3>3
  <2>3. LastGame(v, y)
    <3>. SUFFICES ASSUME NEW q \in 1..(L + 1), NEW i \in {0} \union Games, IsPlaying(v[q], x.sid, i),
                         \A r \in 1..(L + 1) : r > q => ~GameAbout(v[r], x.sid)
                  PROVE  y.game = i
      BY <1>1 DEF LastGame
    <3>1. CASE q \in 1..L
      <4>1. ~GameAbout(p, x.sid)
        BY <1>1, <1>3, <1>4, <3>1
      <4>2. \A r \in 1..L : r > q => ~GameAbout(w[r], x.sid)
        BY <1>1, <1>3
      <4>. QED BY <1>1, <1>7, <2>1, <3>1, <4>1, <4>2 DEF LastGame, L
    <3>2. CASE q = L + 1
      BY <1>1, <1>5, <1>7, <3>2
    <3>. QED BY <1>2, <3>1, <3>2
  <2>4. LastSaid(v, y)
    <3>. SUFFICES ASSUME NEW q \in 1..(L + 1), NEW i \in Statuses, IsSaying(v[q], x.sid, i),
                         \A r \in 1..(L + 1) : r > q => ~WordAbout(v[r], x.sid)
                  PROVE  y.said = i
      BY <1>1 DEF LastSaid
    <3>1. CASE q \in 1..L
      <4>1. ~WordAbout(p, x.sid)
        BY <1>1, <1>3, <1>4, <3>1
      <4>2. \A r \in 1..L : r > q => ~WordAbout(w[r], x.sid)
        BY <1>1, <1>3
      <4>. QED BY <1>1, <1>7, <2>1, <3>1, <4>1, <4>2 DEF LastSaid, L
    <3>2. CASE q = L + 1
      BY <1>1, <1>5, <1>7, <3>2
    <3>. QED BY <1>2, <3>1, <3>2
  <2>5. NotYet(v, b, y)
    <3>. SUFFICES ASSUME Coming(v, b, y)
                  PROVE  (NoGame(v, y) => y.game = 0) /\ (NoWord(v, y) => y.said = "Online")
      BY DEF NotYet
    <3>1. Coming(w, b, x)
      <4>1. PICK q \in 1..(L + 1) : Speaks(v[q], b, x.sid)
        BY <1>1 DEF Coming
      <4>. QED BY <1>1, <1>2, <1>5, <4>1 DEF Coming, L
    <3>2. NoGame(v, y) => NoGame(w, x) /\ ~GameAbout(p, x.sid)
      BY <1>1, <1>3, <1>4 DEF NoGame, L
    <3>3. NoWord(v, y) => NoWord(w, x) /\ ~WordAbout(p, x.sid)
      BY <1>1, <1>3, <1>4 DEF NoWord, L
    <3>. QED BY <1>7, <2>1, <3>1, <3>2, <3>3 DEF NotYet
  <2>. QED BY <2>2, <2>3, <2>4, <2>5
<1>8. ASSUME f
      PROVE  Settled(v, b, y, n)
  <2>1. Settled(w, b, x, n)
    BY <1>8 DEF Right
  <2>2. \A q \in 1..(L + 1) : Renews(v[q], b) => q \in 1..L /\ Renews(w[q], b) /\ v[q] = w[q]
    BY <1>1, <1>2
  <2>3. (\A q \in 1..(L + 1) : ~OnlineAbout(v[q], b)) => \A q \in 1..L : ~OnlineAbout(w[q], b)
    BY <1>1, <1>3
  <2>. QED BY <1>1, <2>1, <2>2, <2>3 DEF Settled, L
<1>9. ASSUME f, g
      PROVE  Kept(v, b, y, n)
  <2>1. Kept(w, b, x, n)
    BY <1>9 DEF Right
  <2>. SUFFICES ASSUME ~Coming(v, b, y)
                PROVE  /\ \A q \in 1..(L + 1) : ~OnlineAbout(v[q], b) /\ ~Renews(v[q], b)
                       /\ NoGame(v, y) /\ y.game # 0 => n.game = y.game
                       /\ NoWord(v, y) /\ y.said # "Online" => n.amessage = Away(y.said)
    BY <1>1 DEF Kept
  <2>2. ~Coming(w, b, x)
    BY <1>1, <1>3 DEF Coming, L
  <2>3. \A q \in 1..(L + 1) : ~OnlineAbout(v[q], b) /\ ~Renews(v[q], b)
    BY <1>1, <1>2, <2>1, <2>2 DEF Kept, L
  <2>4. NoGame(v, y) => NoGame(w, x) /\ ~GameAbout(p, x.sid)
    BY <1>1, <1>3, <1>4 DEF NoGame, L
  <2>5. NoWord(v, y) => NoWord(w, x) /\ ~WordAbout(p, x.sid)
    BY <1>1, <1>3, <1>4 DEF NoWord, L
  <2>. QED BY <1>9, <2>1, <2>2, <2>3, <2>4, <2>5 DEF Kept
<1>. QED BY <1>6, <1>7, <1>8, <1>9 DEF Right, v
\* A packet that gives b the session id y.sid leaves him right, if nothing on
\* the wire was said of it.
LEMMA Moves ==
  ASSUME NEW w \in Seq(Packet), NEW p \in Packet, NEW b, NEW x, NEW y, NEW n,
         NEW h \in BOOLEAN, NEW z \in BOOLEAN, NEW g \in BOOLEAN,
         Right(w, b, x, n, h, z), p.kind = "online", y.sid \in 0..MaxSid,
         \A s : Speaks(p, b, s) <=> s = y.sid,
         g => /\ y.game = 0 /\ y.said = "Online"
              /\ \A q \in 1..Len(w) : ~GameAbout(w[q], y.sid) /\ ~WordAbout(w[q], y.sid)
  PROVE  Right(Append(w, p), b, y, n, g, z)
<1> DEFINE v == Append(w, p)
           L == Len(w)
<1>1. /\ L \in Nat /\ 1..Len(v) = 1..(L + 1) /\ \A q \in 1..L : v[q] = w[q]
      /\ v[L + 1] = p /\ v # <<>> /\ (w # <<>> => v[1] = w[1])
  BY Appended
<1>2. \A q \in 1..(L + 1) : q \in 1..L \/ q = L + 1
  BY <1>1
<1>3. \A q \in 1..L : q \in 1..(L + 1) /\ L + 1 > q
  BY <1>1
<1>4. L + 1 \in 1..(L + 1) /\ \A r \in 1..L : ~(r > L + 1)
  BY <1>1
<1>5. /\ OnlineAbout(p, b) /\ ~Renews(p, b)
      /\ \A s : ~GameAbout(p, s) /\ ~WordAbout(p, s)
      /\ \A s, i : IsPlaying(p, s, i) => GameAbout(p, s)
      /\ \A s, i : IsSaying(p, s, i) => WordAbout(p, s)
  BY SaysOne, KindsSay
<1>. HIDE DEF v
<1>6. LastWord(v, b, y)
  <2>. SUFFICES ASSUME NEW q \in 1..(L + 1), NEW s \in 0..MaxSid, Speaks(v[q], b, s),
                       \A r \in 1..(L + 1) : r > q => ~Renews(v[r], b) /\ ~OnlineAbout(v[r], b)
                PROVE  y.sid = s
    BY <1>1 DEF LastWord
  <2>1. q = L + 1
    BY <1>1, <1>2, <1>3, <1>4, <1>5
  <2>. QED BY <1>1, <2>1
<1>7. ASSUME g
      PROVE  InOrder(v, b, y) /\ LastGame(v, y) /\ LastSaid(v, y) /\ NotYet(v, b, y)
  <2>1. \A q \in 1..(L + 1) : ~GameAbout(v[q], y.sid) /\ ~WordAbout(v[q], y.sid)
    BY <1>1, <1>2, <1>5, <1>7
  <2>2. InOrder(v, b, y)
    BY <1>1, <2>1 DEF InOrder
  <2>3. LastGame(v, y)
    <3>1. \A q \in 1..(L + 1), i \in {0} \union Games : ~IsPlaying(v[q], y.sid, i)
      BY <2>1 DEF GameAbout
    <3>. QED BY <1>1, <3>1 DEF LastGame
  <2>4. LastSaid(v, y)
    <3>1. \A q \in 1..(L + 1), i \in Statuses : ~IsSaying(v[q], y.sid, i)
      BY <2>1 DEF WordAbout
    <3>. QED BY <1>1, <3>1 DEF LastSaid
  <2>5. NotYet(v, b, y)
    BY <1>7 DEF NotYet
  <2>. QED BY <2>2, <2>3, <2>4, <2>5
<1>8. ASSUME z
      PROVE  Settled(v, b, y, n)
  <2>1. Settled(w, b, x, n)
    BY <1>8 DEF Right
  <2>2. \A q \in 1..(L + 1) : Renews(v[q], b) => q \in 1..L /\ Renews(w[q], b) /\ v[q] = w[q]
    BY <1>1, <1>2, <1>5
  <2>3. ~(\A q \in 1..(L + 1) : ~OnlineAbout(v[q], b))
    BY <1>1, <1>4, <1>5
  <2>. QED BY <1>1, <2>1, <2>2, <2>3 DEF Settled
<1>9. Coming(v, b, y)
  BY <1>1, <1>4 DEF Coming
<1>10. Kept(v, b, y, n)
  BY <1>9 DEF Kept
<1>. QED BY <1>6, <1>7, <1>8, <1>10 DEF Right, v

\* The names of a new friendship.
LEMMA Begins ==
  ASSUME NEW w \in Seq(Packet), NEW p \in Packet, NEW b, NEW x, NEW n,
         p.kind = "names", Renews(p, b)
  PROVE  Right(Append(w, p), b, x, n, FALSE, FALSE)
<1> DEFINE v == Append(w, p)
           L == Len(w)
<1>1. /\ L \in Nat /\ 1..Len(v) = 1..(L + 1) /\ \A q \in 1..L : v[q] = w[q]
      /\ v[L + 1] = p
  BY Appended
<1>2. \A s : ~Speaks(p, b, s)
  BY KindsSay
<1>. HIDE DEF v
<1>3. LastWord(v, b, x)
  <2>. SUFFICES ASSUME NEW q \in 1..(L + 1), NEW s \in 0..MaxSid, Speaks(v[q], b, s),
                       \A r \in 1..(L + 1) : r > q => ~Renews(v[r], b) /\ ~OnlineAbout(v[r], b)
                PROVE  FALSE
    BY <1>1 DEF LastWord
  <2>1. q \in 1..L
    BY <1>1, <1>2
  <2>2. L + 1 \in 1..(L + 1) /\ L + 1 > q
    BY <1>1, <2>1
  <2>. QED BY <1>1, <2>2
<1>. QED BY <1>3 DEF Right, v

\* What a friend is told of at our log-in begins with his name and session id.
LEMMA Greeted ==
  ASSUME NEW p \in Packet, NEW o \in Packet, NEW b, NEW x, NEW n, NEW g \in BOOLEAN,
         p.kind = "names", Renews(p, b), o.kind = "online", x.sid \in 0..MaxSid,
         \A s : Speaks(o, b, s) <=> x.sid # NoSid /\ s = x.sid,
         g => x.sid # NoSid /\ x.game = 0 /\ x.said = "Online",
         ~n.present
  PROVE  Right(<<p, o>>, b, x, n, g, TRUE)
<1> DEFINE v == <<p, o>>
<1>1. /\ 1..Len(v) = 1..2 /\ v[1] = p /\ v[2] = o /\ v # <<>>
      /\ \A q \in 1..2 : q = 1 \/ q = 2
  OBVIOUS
<1>2. /\ \A s : ~Speaks(p, b, s) /\ ~GameAbout(p, s) /\ ~WordAbout(p, s)
      /\ \A s : ~GameAbout(o, s) /\ ~WordAbout(o, s)
      /\ ~Renews(o, b) /\ ~OnlineAbout(p, b)
      /\ OnlineAbout(o, b) <=> x.sid # NoSid
  <2>1. /\ \A s : ~Speaks(p, b, s) /\ ~GameAbout(p, s) /\ ~WordAbout(p, s)
        /\ \A s : ~GameAbout(o, s) /\ ~WordAbout(o, s)
        /\ ~Renews(o, b) /\ ~OnlineAbout(p, b)
    BY KindsSay
  <2>2. OnlineAbout(o, b) <=> x.sid # NoSid
    BY DEF OnlineAbout
  <2>. QED BY <2>1, <2>2
<1>. HIDE DEF v
<1>3. LastWord(v, b, x)
  BY <1>1, <1>2 DEF LastWord
<1>4. ASSUME g
      PROVE  InOrder(v, b, x) /\ LastGame(v, x) /\ LastSaid(v, x) /\ NotYet(v, b, x)
  <2>1. \A q \in 1..2 : ~GameAbout(v[q], x.sid) /\ ~WordAbout(v[q], x.sid)
    BY <1>1, <1>2
  <2>2. InOrder(v, b, x)
    BY <1>1, <2>1 DEF InOrder
  <2>3. LastGame(v, x)
    <3>1. \A q \in 1..2, i \in {0} \union Games : ~IsPlaying(v[q], x.sid, i)
      BY <2>1 DEF GameAbout
    <3>. QED BY <1>1, <3>1 DEF LastGame
  <2>4. LastSaid(v, x)
    <3>1. \A q \in 1..2, i \in Statuses : ~IsSaying(v[q], x.sid, i)
      BY <2>1 DEF WordAbout
    <3>. QED BY <1>1, <3>1 DEF LastSaid
  <2>5. NotYet(v, b, x)
    BY <1>4 DEF NotYet
  <2>. QED BY <2>2, <2>3, <2>4, <2>5
<1>5. Settled(v, b, x, n)
  BY <1>1, <1>2 DEF Settled
<1>6. ASSUME g
      PROVE  Kept(v, b, x, n)
  <2>1. Coming(v, b, x)
    BY <1>1, <1>6 DEF Coming
  <2>. QED BY <2>1 DEF Kept
<1>. QED BY <1>3, <1>4, <1>5, <1>6 DEF Right, v
-----------------------------------------------------------------------------
(* A packet is handled *)

\* What becomes of b's node n when p is handled: m.
Obeys(n, m, p, b) ==
  /\ n.listed => m.listed
  /\ m.present => n.listed
  /\ p.kind = "names" /\ Renews(p, b) => m.listed
  /\ \A s : n.listed /\ Speaks(p, b, s) => m.sid = s /\ m.imindex = 0 /\ (m.present <=> s # NoSid)
  /\ ~OnlineAbout(p, b) =>
       (m.present <=> n.present) /\ (n.present => m.sid = n.sid /\ m.imindex = n.imindex)
  /\ ~OnlineAbout(p, b) /\ ~Renews(p, b) =>
       /\ IF n.present /\ GameAbout(p, n.sid) THEN IsPlaying(p, n.sid, m.game) ELSE m.game = n.game
       /\ IF n.present /\ WordAbout(p, n.sid)
            THEN \E word : IsSaying(p, n.sid, word) /\ m.amessage = Away(word)
            ELSE m.amessage = n.amessage

LEMMA MaxOfOne ==
  ASSUME NEW k \in Nat, NEW S, \A m : m \in S <=> m = k
  PROVE  Max(S) = k
<1>1. S = {k}
  OBVIOUS
<1>2. Max(S) \in S
  BY <1>1 DEF Max
<1>. QED BY <1>2

LEMMA NodeFacts ==
  ASSUME NEW n \in Node
  PROVE  /\ n.listed \in BOOLEAN /\ n.present \in BOOLEAN /\ n.sid \in 0..NullSid
         /\ n.amessage \in Statuses \union {NoMessage} /\ n.game \in {0} \union Games
         /\ n.imindex \in Nat
BY DEF Node

LEMMA NamesHandled ==
  ASSUME NEW ns \in [Buddy -> Node], NEW p \in Names, NEW b \in Buddy,
         ns[b].present => ns[b].listed
  PROVE  Handled(ns, p)[b] \in Node /\ Obeys(ns[b], Handled(ns, p)[b], p, b)
<1> DEFINE n == ns[b]
           m == Handled(ns, p)[b]
<1>1. p.kind = "names"
  BY DEF Names
<1>2. m = IF Named(p.items, b) = {} THEN n ELSE AddBuddy(n)
  BY <1>1 DEF Handled
<1>3. n \in Node
  OBVIOUS
<1>. HIDE DEF n, m
<1>4. Renews(p, b) <=> Named(p.items, b) # {}
  BY <1>1 DEF Renews
<1>5. /\ ~OnlineAbout(p, b) /\ \A s : ~Speaks(p, b, s) /\ ~GameAbout(p, s) /\ ~WordAbout(p, s)
  BY <1>1, KindsSay
<1>6. CASE Named(p.items, b) = {}
  BY <1>2, <1>3, <1>4, <1>5, <1>6, NodeFacts DEF Obeys, n, m
<1>7. CASE Named(p.items, b) # {} /\ n.listed
  <2>1. m = [n EXCEPT !.amessage = NoMessage, !.game = 0]
    BY <1>2, <1>7 DEF AddBuddy
  <2>2. /\ m \in Node /\ m.listed = n.listed /\ m.present = n.present /\ m.sid = n.sid
        /\ m.imindex = n.imindex
    BY <1>3, <2>1 DEF Node
  <2>. QED BY <1>4, <1>5, <1>7, <2>2 DEF Obeys, n, m
<1>8. CASE Named(p.items, b) # {} /\ ~n.listed
  <2>1. m = NewNode
    BY <1>2, <1>8 DEF AddBuddy
  <2>2. m.listed = TRUE /\ m.present = FALSE
    BY <2>1 DEF NewNode
  <2>3. ~n.present
    BY <1>8 DEF n
  <2>4. m \in Node
    <3>1. NullSid \in 0..NullSid
      BY BuddiesAssumption DEF NullSid
    <3>. QED BY <2>1, <3>1 DEF NewNode, Node
  <2>. QED BY <1>4, <1>5, <1>8, <2>2, <2>3, <2>4 DEF Obeys, n, m
<1>. QED BY <1>6, <1>7, <1>8

LEMMA OnlineHandled ==
  ASSUME NEW ns \in [Buddy -> Node], NEW p \in Onlines, NEW b \in Buddy,
         ns[b].present => ns[b].listed
  PROVE  Handled(ns, p)[b] \in Node /\ Obeys(ns[b], Handled(ns, p)[b], p, b)
<1> DEFINE n == ns[b]
           m == Handled(ns, p)[b]
           T == Told(p.items, b)
<1>1. /\ p.kind = "online" /\ Len(p.items) \in Nat
      /\ \A k \in 1..Len(p.items) : p.items[k].id \in Buddy /\ p.items[k].sid \in 0..MaxSid
      /\ \A k, j \in 1..Len(p.items) : p.items[k].id = p.items[j].id => k = j
  BY OnlineFacts
<1>2. m = IF T = {} THEN n ELSE ReadOnline(n, p.items[Max(T)].sid)
  BY <1>1 DEF Handled
<1>3. n \in Node /\ MaxSid \in Nat
  BY BuddiesAssumption
<1>. HIDE DEF n, m
<1>4. /\ ~Renews(p, b) /\ \A s : ~GameAbout(p, s) /\ ~WordAbout(p, s)
  BY <1>1, KindsSay
<1>5. CASE T = {}
  <2>1. \A s : ~Speaks(p, b, s)
    BY <1>1, <1>5 DEF Speaks, Told
  <2>2. ~OnlineAbout(p, b)
    BY <2>1 DEF OnlineAbout
  <2>. QED BY <1>2, <1>3, <1>4, <1>5, <2>1, <2>2, NodeFacts DEF Obeys, n, m
<1>6. CASE T # {}
  <2>1. PICK k \in 1..Len(p.items) : p.items[k].id = b
    BY <1>6 DEF Told
  <2>2. \A j : j \in T <=> j = k
    BY <1>1, <2>1 DEF Told
  <2>3. Max(T) = k
    <3>1. k \in Nat
      BY <1>1, <2>1
    <3>. QED BY <2>2, <3>1, MaxOfOne
  <2>4. \A s : Speaks(p, b, s) <=> s = p.items[k].sid
    BY <1>1, <2>1 DEF Speaks
  <2>5. OnlineAbout(p, b)
    BY <1>1, <2>1, <2>4 DEF OnlineAbout
  <2>6. p.items[k].sid \in 0..MaxSid
    BY <1>1, <2>1
  <2>7. CASE ~n.listed
    BY <1>2, <1>3, <1>4, <1>6, <2>5, <2>7 DEF ReadOnline, Obeys, n, m
  <2>8. CASE n.listed
    <3>1. m = [n EXCEPT !.present = p.items[k].sid # NoSid, !.sid = p.items[k].sid, !.imindex = 0]
      BY <1>2, <1>6, <2>3, <2>8 DEF ReadOnline
    <3>2. p.items[k].sid \in 0..NullSid
      BY <1>3, <2>6 DEF NullSid
    <3>3. (p.items[k].sid # NoSid) \in BOOLEAN
      OBVIOUS
    <3>4. /\ m \in Node /\ m.listed = n.listed /\ m.present = (p.items[k].sid # NoSid)
          /\ m.sid = p.items[k].sid /\ m.imindex = 0
      BY <1>3, <3>1, <3>2, <3>3 DEF Node
    <3>. QED BY <1>4, <2>4, <2>5, <2>8, <3>4 DEF Obeys, n, m
  <2>. QED BY <2>7, <2>8
<1>. QED BY <1>5, <1>6

LEMMA GamesHandled ==
  ASSUME NEW ns \in [Buddy -> Node], NEW p \in Plays, NEW b \in Buddy,
         ns[b].present => ns[b].listed
  PROVE  Handled(ns, p)[b] \in Node /\ Obeys(ns[b], Handled(ns, p)[b], p, b)
<1> DEFINE n == ns[b]
           m == Handled(ns, p)[b]
           T == Played(p.items, n)
<1>1. /\ p.kind = "games" /\ Len(p.items) \in Nat
      /\ \A k \in 1..Len(p.items) : p.items[k].sid \in 1..MaxSid /\ p.items[k].game \in {0} \union Games
      /\ \A k, j \in 1..Len(p.items) : p.items[k].sid = p.items[j].sid => k = j
  BY GameFacts
<1>2. m = IF T = {} THEN n ELSE [n EXCEPT !.game = p.items[Max(T)].game]
  BY <1>1 DEF Handled, CheckGame
<1>3. n \in Node
  OBVIOUS
<1>. HIDE DEF n, m
<1>4. /\ ~Renews(p, b) /\ ~OnlineAbout(p, b) /\ \A s : ~Speaks(p, b, s) /\ ~WordAbout(p, s)
  BY <1>1, KindsSay
<1>5. CASE T = {}
  <2>1. n.present => \A g : ~IsPlaying(p, n.sid, g)
    BY <1>1, <1>5 DEF IsPlaying, Played
  <2>2. ~(n.present /\ GameAbout(p, n.sid))
    BY <2>1 DEF GameAbout
  <2>. QED BY <1>2, <1>3, <1>4, <1>5, <2>2, NodeFacts DEF Obeys, n, m
<1>6. CASE T # {}
  <2>1. PICK k \in 1..Len(p.items) : n.present /\ p.items[k].sid = n.sid
    BY <1>6 DEF Played
  <2>2. \A j : j \in T <=> j = k
    BY <1>1, <2>1 DEF Played
  <2>3. Max(T) = k
    <3>1. k \in Nat
      BY <1>1, <2>1
    <3>. QED BY <2>2, <3>1, MaxOfOne
  <2>4. IsPlaying(p, n.sid, p.items[k].game)
    BY <1>1, <2>1 DEF IsPlaying
  <2>5. m = [n EXCEPT !.game = p.items[k].game] /\ p.items[k].game \in {0} \union Games
    BY <1>1, <1>2, <1>6, <2>1, <2>3
  <2>6. /\ m \in Node /\ m.listed = n.listed /\ m.present = n.present /\ m.sid = n.sid
        /\ m.imindex = n.imindex /\ m.amessage = n.amessage /\ m.game = p.items[k].game
    BY <1>3, <2>5 DEF Node
  <2>7. GameAbout(p, n.sid)
    BY <2>4, <2>5 DEF GameAbout
  <2>. QED BY <1>4, <2>1, <2>4, <2>6, <2>7 DEF Obeys, n, m
<1>. QED BY <1>5, <1>6

LEMMA AwayIsMessage ==
  ASSUME NEW msg \in Statuses
  PROVE  Away(msg) \in Statuses \union {NoMessage}
BY DEF Away

LEMMA WordsHandled ==
  ASSUME NEW ns \in [Buddy -> Node], NEW p \in Words, NEW b \in Buddy,
         ns[b].present => ns[b].listed
  PROVE  Handled(ns, p)[b] \in Node /\ Obeys(ns[b], Handled(ns, p)[b], p, b)
<1> DEFINE n == ns[b]
           m == Handled(ns, p)[b]
           item == p.items[1]
<1>1. p.kind = "status" /\ item.sid \in 1..MaxSid /\ item.msg \in Statuses
  BY WordFacts
<1>2. m = IF n.present /\ n.sid = item.sid THEN [n EXCEPT !.amessage = Away(item.msg)] ELSE n
  BY <1>1 DEF Handled, CheckStatus, Matching
<1>3. n \in Node
  OBVIOUS
<1>4. \A s, msg : IsSaying(p, s, msg) <=> s = item.sid /\ msg = item.msg
  BY <1>1 DEF IsSaying
<1>. HIDE DEF n, m, item
<1>5. /\ ~Renews(p, b) /\ ~OnlineAbout(p, b) /\ \A s : ~Speaks(p, b, s) /\ ~GameAbout(p, s)
  BY <1>1, KindsSay
<1>6. \A s : WordAbout(p, s) <=> s = item.sid
  BY <1>1, <1>4 DEF WordAbout
<1>7. CASE ~(n.present /\ n.sid = item.sid)
  BY <1>2, <1>3, <1>5, <1>6, <1>7, NodeFacts DEF Obeys, n, m
<1>8. CASE n.present /\ n.sid = item.sid
  <2>1. m = [n EXCEPT !.amessage = Away(item.msg)] /\ Away(item.msg) \in Statuses \union {NoMessage}
    BY <1>1, <1>2, <1>8, AwayIsMessage
  <2>2. /\ m \in Node /\ m.listed = n.listed /\ m.present = n.present /\ m.sid = n.sid
        /\ m.imindex = n.imindex /\ m.amessage = Away(item.msg) /\ m.game = n.game
    BY <1>3, <2>1 DEF Node
  <2>. QED BY <1>4, <1>5, <1>6, <1>8, <2>2 DEF Obeys, n, m
<1>. QED BY <1>7, <1>8

LEMMA PacketHandled ==
  ASSUME NEW ns \in [Buddy -> Node], NEW p \in Packet, NEW b \in Buddy,
         ns[b].present => ns[b].listed
  PROVE  Handled(ns, p)[b] \in Node /\ Obeys(ns[b], Handled(ns, p)[b], p, b)
<1>1. CASE p.kind \in {"im", "removed"}
  <2>1. Handled(ns, p) = ns
    BY <1>1 DEF Handled
  <2>2. ~OnlineAbout(p, b) /\ \A s : ~Speaks(p, b, s) /\ ~GameAbout(p, s) /\ ~WordAbout(p, s)
    BY <1>1, KindsSay
  <2>. QED BY <1>1, <2>1, <2>2 DEF Obeys
<1>2. CASE p.kind \in {"names", "online", "games", "status"}
  BY <1>2, KindsDiffer, NamesHandled, OnlineHandled, GamesHandled, WordsHandled
<1>. QED BY <1>1, <1>2, KindsDiffer

LEMMA HandledIsFunction ==
  ASSUME NEW ns \in [Buddy -> Node], NEW p \in Packet
  PROVE  Handled(ns, p) = [b \in Buddy |-> Handled(ns, p)[b]]
<1>1. p.kind = "names" => Handled(ns, p) = [b \in Buddy |-> IF Named(p.items, b) = {} THEN ns[b] ELSE AddBuddy(ns[b])]
  BY DEF Handled
<1>2. p.kind = "online" => Handled(ns, p) = [b \in Buddy |-> IF Told(p.items, b) = {} THEN ns[b]
                          ELSE ReadOnline(ns[b], p.items[Max(Told(p.items, b))].sid)]
  BY DEF Handled
<1>3. p.kind = "games" => Handled(ns, p) = [b \in Buddy |-> CheckGame(ns[b], p.items)]
  BY DEF Handled
<1>4. p.kind = "status" => Handled(ns, p) = [b \in Buddy |-> IF b \in Matching(ns, p.items[1].sid)
                             THEN [ns[b] EXCEPT !.amessage = Away(p.items[1].msg)] ELSE ns[b]]
  BY DEF Handled, CheckStatus
<1>5. p.kind \in {"im", "removed"} => Handled(ns, p) = ns
  BY DEF Handled
<1>6. ns = [b \in Buddy |-> ns[b]]
  OBVIOUS
<1>. QED BY <1>1, <1>2, <1>3, <1>4, <1>5, <1>6, KindsDiffer
\* The last packet on the wire that speaks of b.
LEMMA LastAbout ==
  ASSUME NEW w \in Seq(Packet), NEW b, NEW l \in Nat,
         \E q \in 1..Len(w) : q > l /\ OnlineAbout(w[q], b)
  PROVE  \E q \in 1..Len(w) : /\ q > l /\ OnlineAbout(w[q], b)
                              /\ \A r \in 1..Len(w) : r > q => ~OnlineAbout(w[r], b)
<1> DEFINE S == {q \in 1..Len(w) : q > l /\ OnlineAbout(w[q], b)}
<1>1. Len(w) \in Nat
  BY LenProperties
<1>2. S \in SUBSET Nat /\ S # {} /\ \A s \in S : s <= Len(w)
  BY <1>1
<1>3. Max(S) \in S /\ \A s \in S : s <= Max(S)
  <2>. HIDE DEF S
  <2>. QED BY ONLY <1>1, <1>2, GreatestOfNat
<1>4. \A r \in 1..Len(w) : r > Max(S) => ~OnlineAbout(w[r], b)
  <2>. SUFFICES ASSUME NEW r \in 1..Len(w), r > Max(S), OnlineAbout(w[r], b)
                PROVE  FALSE
    OBVIOUS
  <2>1. Max(S) \in Nat /\ Max(S) > l
    BY <1>2, <1>3
  <2>2. r \in S
    BY <1>1, <2>1
  <2>3. r <= Max(S)
    BY <1>3, <2>2
  <2>. QED BY <1>1, <2>1, <2>3
<1>. QED BY <1>3, <1>4

\* The first packet is handled.  Whoever becomes steady is spoken of by it, and
\* none of the others begins his friendship anew.
LEMMA Reads ==
  ASSUME NEW w \in Seq(Packet), w # <<>>, NEW b, NEW x, NEW n, NEW m,
         NEW h \in BOOLEAN, NEW z \in BOOLEAN, NEW f \in BOOLEAN,
         Right(w, b, x, n, h, z), x.sid \in 0..MaxSid, h => x.sid # NoSid,
         Obeys(n, m, w[1], b),
         f => z \/ (/\ n.listed /\ OnlineAbout(w[1], b)
                    /\ \A q \in 1..Len(Tail(w)) : ~Renews(Tail(w)[q], b))
  PROVE  Right(Tail(w), b, x, m, h, f)
<1> DEFINE v == Tail(w)
           L == Len(w)
           M == Len(v)
           p == w[1]
<1>1. /\ L \in Nat /\ M \in Nat /\ L > 0 /\ M = L - 1 /\ p \in Packet /\ v \in Seq(Packet)
      /\ \A q \in 1..M : v[q] = w[q + 1] /\ q + 1 \in 1..L /\ v[q] \in Packet
      /\ \A q \in 1..L : q = 1 \/ (q - 1 \in 1..M /\ v[q - 1] = w[q])
  <2>1. v \in Seq(Packet)
    BY TailFacts
  <2>. QED BY <2>1, TailFacts, LenProperties, ElementOfSeq
<1>. HIDE DEF v
<1>2. 1 \in 1..L
  BY <1>1
<1>3. /\ \A q \in 1..L : \A s : Speaks(w[q], b, s) => s \in 0..MaxSid /\ OnlineAbout(w[q], b)
      /\ \A q \in 1..M : \A s : Speaks(v[q], b, s) => s \in 0..MaxSid /\ OnlineAbout(v[q], b)
      /\ \A s, i, j : IsPlaying(p, s, i) /\ IsPlaying(p, s, j) => i = j
      /\ \A s, i : IsPlaying(p, s, i) => GameAbout(p, s) /\ i \in {0} \union Games
      /\ \A s, i, j : IsSaying(p, s, i) /\ IsSaying(p, s, j) => i = j
      /\ \A s, i : IsSaying(p, s, i) => WordAbout(p, s) /\ i \in Statuses
      /\ \A s, i : Speaks(p, b, s) /\ Speaks(p, b, i) => s = i
  <2>1. \A q \in 1..L : w[q] \in Packet
    BY ElementOfSeq
  <2>. QED BY <1>1, <2>1, SaysOne
<1>4. LastWord(w, b, x)
  BY DEF Right
<1>5. LastWord(v, b, x)
  <2>. SUFFICES ASSUME NEW q \in 1..M, NEW s \in 0..MaxSid, Speaks(v[q], b, s),
                       \A r \in 1..M : r > q => ~Renews(v[r], b) /\ ~OnlineAbout(v[r], b)
                PROVE  x.sid = s
    BY DEF LastWord
  <2>1. q + 1 \in 1..L /\ Speaks(w[q + 1], b, s)
    BY <1>1
  <2>2. \A r \in 1..L : r > q + 1 => ~Renews(w[r], b) /\ ~OnlineAbout(w[r], b)
    <3>. SUFFICES ASSUME NEW r \in 1..L, r > q + 1
                  PROVE  ~Renews(w[r], b) /\ ~OnlineAbout(w[r], b)
      OBVIOUS
    <3>1. r - 1 \in 1..M /\ v[r - 1] = w[r] /\ r - 1 > q
      BY <1>1
    <3>. QED BY <3>1
  <2>. QED BY <1>4, <2>1, <2>2 DEF LastWord
\* Who is spoken of on the wire and is begun no more has his session id coming.
<1>6. ASSUME NEW l \in Nat, \E q \in 1..L : q > l /\ OnlineAbout(w[q], b),
             \A q \in 1..L : q > 1 => ~Renews(w[q], b)
      PROVE  \E q \in 1..L : q > l /\ Speaks(w[q], b, x.sid)
  <2>1. PICK q \in 1..L : /\ q > l /\ OnlineAbout(w[q], b)
                          /\ \A r \in 1..L : r > q => ~OnlineAbout(w[r], b)
    BY <1>6, LastAbout
  <2>2. PICK s \in 0..MaxSid : Speaks(w[q], b, s)
    BY <2>1 DEF OnlineAbout
  <2>3. \A r \in 1..L : r > q => ~Renews(w[r], b)
    BY <1>1, <1>6
  <2>4. x.sid = s
    BY <1>4, <2>1, <2>2, <2>3 DEF LastWord
  <2>. QED BY <2>1, <2>2, <2>4
<1>7. Coming(v, b, x) => Coming(w, b, x)
  BY <1>1 DEF Coming
<1>8. NoGame(v, x) /\ ~GameAbout(p, x.sid) => NoGame(w, x)
  BY <1>1 DEF NoGame
<1>9. NoWord(v, x) /\ ~WordAbout(p, x.sid) => NoWord(w, x)
  BY <1>1 DEF NoWord
<1>10. ASSUME h
       PROVE  InOrder(v, b, x) /\ LastGame(v, x) /\ LastSaid(v, x) /\ NotYet(v, b, x)
  <2>1. InOrder(w, b, x) /\ LastGame(w, x) /\ LastSaid(w, x) /\ NotYet(w, b, x)
    BY <1>10 DEF Right
  <2>2. InOrder(v, b, x)
    <3>. SUFFICES ASSUME NEW q \in 1..M, NEW r \in 1..M, Speaks(v[r], b, x.sid),
                         GameAbout(v[q], x.sid) \/ WordAbout(v[q], x.sid)
                  PROVE  r < q
      BY DEF InOrder
    <3>1. r + 1 < q + 1
      BY <1>1, <2>1 DEF InOrder
    <3>. QED BY <1>1, <3>1
  <2>3. LastGame(v, x)
    <3>. SUFFICES ASSUME NEW q \in 1..M, NEW i \in {0} \union Games, IsPlaying(v[q], x.sid, i),
                         \A r \in 1..M : r > q => ~GameAbout(v[r], x.sid)
                  PROVE  x.game = i
      BY DEF LastGame
    <3>1. q + 1 \in 1..L /\ IsPlaying(w[q + 1], x.sid, i)
      BY <1>1
    <3>2. ASSUME NEW r \in 1..L, r > q + 1
          PROVE  ~GameAbout(w[r], x.sid)
      <4>1. r - 1 \in 1..M /\ v[r - 1] = w[r] /\ r - 1 > q
        BY <1>1, <3>2
      <4>. QED BY <4>1
    <3>. QED BY <2>1, <3>1, <3>2 DEF LastGame
  <2>4. LastSaid(v, x)
    <3>. SUFFICES ASSUME NEW q \in 1..M, NEW i \in Statuses, IsSaying(v[q], x.sid, i),
                         \A r \in 1..M : r > q => ~WordAbout(v[r], x.sid)
                  PROVE  x.said = i
      BY DEF LastSaid
    <3>1. q + 1 \in 1..L /\ IsSaying(w[q + 1], x.sid, i)
      BY <1>1
    <3>2. ASSUME NEW r \in 1..L, r > q + 1
          PROVE  ~WordAbout(w[r], x.sid)
      <4>1. r - 1 \in 1..M /\ v[r - 1] = w[r] /\ r - 1 > q
        BY <1>1, <3>2
      <4>. QED BY <4>1
    <3>. QED BY <2>1, <3>1, <3>2 DEF LastSaid
  <2>5. NotYet(v, b, x)
    <3>. SUFFICES ASSUME Coming(v, b, x)
                  PROVE  (NoGame(v, x) => x.game = 0) /\ (NoWord(v, x) => x.said = "Online")
      BY DEF NotYet
    <3>1. PICK r \in 1..L : Speaks(w[r], b, x.sid)
      BY <1>7 DEF Coming
    <3>2. ~GameAbout(p, x.sid) /\ ~WordAbout(p, x.sid)
      <4>1. ~(r < 1)
        BY <1>1
      <4>. QED BY <1>2, <2>1, <3>1, <4>1 DEF InOrder
    <3>. QED BY <1>7, <1>8, <1>9, <2>1, <3>2 DEF NotYet
  <2>. QED BY <2>2, <2>3, <2>4, <2>5
\* From here on b is steady afterwards.
<1>11. ASSUME f
       PROVE  /\ \A q \in 1..M : ~Renews(v[q], b)
              /\ \A q \in 1..L : q > 1 => ~Renews(w[q], b)
              /\ m.listed /\ (OnlineAbout(p, b) => n.listed)
  <2>1. CASE ~z
    <3>1. n.listed /\ \A q \in 1..M : ~Renews(v[q], b)
      BY <1>11, <2>1 DEF v
    <3>2. \A q \in 1..L : q > 1 => q - 1 \in 1..M /\ v[q - 1] = w[q]
      BY <1>1
    <3>3. m.listed
      BY <3>1 DEF Obeys
    <3>. QED BY <3>1, <3>2, <3>3
  <2>2. CASE z
    <3>1. Settled(w, b, x, n)
      BY <2>2 DEF Right
    <3>2. \A q \in 1..L : q > 1 => ~Renews(w[q], b)
      BY <1>1, <3>1 DEF Settled
    <3>3. \A q \in 1..M : q + 1 > 1
      BY <1>1
    <3>4. \A q \in 1..M : ~Renews(v[q], b)
      BY <1>1, <3>2, <3>3
    <3>5. ~n.listed => Renews(p, b) /\ p.kind = "names"
      BY <1>2, <3>1 DEF Settled
    <3>6. OnlineAbout(p, b) => p.kind = "online"
      BY KindsSay
    <3>7. m.listed
      BY <3>5 DEF Obeys
    <3>. QED BY <3>2, <3>4, <3>5, <3>6, <3>7
  <2>. QED BY <2>1, <2>2
<1>12. ASSUME f, OnlineAbout(p, b), \A q \in 1..M : ~OnlineAbout(v[q], b)
       PROVE  Speaks(p, b, x.sid)
  <2>1. \A q \in 1..L : q > 1 => ~OnlineAbout(w[q], b)
    <3>. SUFFICES ASSUME NEW q \in 1..L, q > 1
                  PROVE  ~OnlineAbout(w[q], b)
      OBVIOUS
    <3>1. q - 1 \in 1..M /\ v[q - 1] = w[q]
      BY <1>1
    <3>. QED BY <1>12, <3>1
  <2>2. \E q \in 1..L : q > 0 /\ Speaks(w[q], b, x.sid)
    <3>1. \E q \in 1..L : q > 0 /\ OnlineAbout(w[q], b)
      BY <1>2, <1>12
    <3>. QED BY <1>6, <1>11, <1>12, <3>1
  <2>. QED BY <1>1, <1>3, <2>1, <2>2
<1>13. ASSUME f
       PROVE  Settled(v, b, x, m)
  <2>. SUFFICES ASSUME \A q \in 1..M : ~OnlineAbout(v[q], b)
                PROVE  (m.present <=> x.sid # NoSid) /\ (m.present => m.sid = x.sid)
    BY <1>11, <1>13 DEF Settled
  <2>1. CASE OnlineAbout(p, b)
    <3>1. Speaks(p, b, x.sid) /\ n.listed
      BY <1>11, <1>12, <1>13, <2>1
    <3>. QED BY <3>1 DEF Obeys
  <2>2. CASE ~OnlineAbout(p, b)
    <3>1. z
      BY <1>13, <2>2
    <3>2. Settled(w, b, x, n)
      BY <3>1 DEF Right
    <3>3. \A q \in 1..L : ~OnlineAbout(w[q], b)
      BY <1>1, <2>2
    <3>. QED BY <2>2, <3>2, <3>3 DEF Settled, Obeys
  <2>. QED BY <2>1, <2>2
<1>14. ASSUME f, h
       PROVE  Kept(v, b, x, m)
  <2>. SUFFICES ASSUME ~Coming(v, b, x)
                PROVE  /\ \A q \in 1..M : ~OnlineAbout(v[q], b) /\ ~Renews(v[q], b)
                       /\ NoGame(v, x) /\ x.game # 0 => m.game = x.game
                       /\ NoWord(v, x) /\ x.said # "Online" => m.amessage = Away(x.said)
    BY DEF Kept
  <2>1. \A q \in 1..M : ~OnlineAbout(v[q], b)
    <3>. SUFFICES ASSUME NEW q \in 1..M, OnlineAbout(v[q], b)
                  PROVE  FALSE
      OBVIOUS
    <3>1. q + 1 \in 1..L /\ q + 1 > 1 /\ OnlineAbout(w[q + 1], b)
      BY <1>1
    <3>2. PICK r \in 1..L : r > 1 /\ Speaks(w[r], b, x.sid)
      BY <1>6, <1>11, <1>14, <3>1
    <3>3. r - 1 \in 1..M /\ v[r - 1] = w[r]
      BY <1>1, <3>2
    <3>. QED BY <3>2, <3>3 DEF Coming
  <2>2. CASE Coming(w, b, x)
    <3>1. Speaks(p, b, x.sid)
      <4>1. PICK r \in 1..L : Speaks(w[r], b, x.sid)
        BY <2>2 DEF Coming
      <4>2. r = 1
        BY <1>1, <4>1 DEF Coming
      <4>. QED BY <4>1, <4>2
    <3>2. NotYet(w, b, x)
      BY <1>14 DEF Right
    <3>3. p.kind = "online"
      BY <3>1, KindsSay
    <3>4. ~GameAbout(p, x.sid) /\ ~WordAbout(p, x.sid)
      BY <3>3, KindsSay
    <3>. QED BY <1>8, <1>9, <1>11, <1>14, <2>1, <2>2, <3>2, <3>4 DEF NotYet
  <2>3. CASE ~Coming(w, b, x)
    <3>1. z
      <4>1. ASSUME ~z
            PROVE  FALSE
        <5>1. OnlineAbout(p, b)
          BY <1>14, <4>1
        <5>2. Speaks(p, b, x.sid)
          BY <1>12, <1>14, <2>1, <5>1
        <5>. QED BY <1>2, <2>3, <5>2 DEF Coming
      <4>. QED BY <4>1
    <3>2. Kept(w, b, x, n) /\ Settled(w, b, x, n) /\ LastGame(w, x) /\ LastSaid(w, x)
      BY <1>14, <3>1 DEF Right
    <3>3. /\ \A q \in 1..L : ~OnlineAbout(w[q], b) /\ ~Renews(w[q], b)
          /\ NoGame(w, x) /\ x.game # 0 => n.game = x.game
          /\ NoWord(w, x) /\ x.said # "Online" => n.amessage = Away(x.said)
      BY <2>3, <3>2 DEF Kept
    <3>4. n.present /\ n.sid = x.sid
      BY <1>14, <3>2, <3>3 DEF Settled
    <3>5. ~OnlineAbout(p, b) /\ ~Renews(p, b)
      BY <1>2, <3>3
    <3>6. /\ IF GameAbout(p, x.sid) THEN IsPlaying(p, x.sid, m.game) ELSE m.game = n.game
          /\ IF WordAbout(p, x.sid) THEN \E word : IsSaying(p, x.sid, word) /\ m.amessage = Away(word)
                                    ELSE m.amessage = n.amessage
      BY <3>4, <3>5 DEF Obeys
    <3>7. ASSUME NoGame(v, x), x.game # 0
          PROVE  m.game = x.game
      <4>1. CASE GameAbout(p, x.sid)
        <5>1. IsPlaying(p, x.sid, m.game) /\ m.game \in {0} \union Games
          BY <1>3, <3>6, <4>1
        <5>2. ASSUME NEW r \in 1..L, r > 1
              PROVE  ~GameAbout(w[r], x.sid)
          <6>1. r - 1 \in 1..M /\ v[r - 1] = w[r]
            BY <1>1, <5>2
          <6>. QED BY <3>7, <6>1 DEF NoGame
        <5>. QED BY <1>2, <3>2, <5>1, <5>2 DEF LastGame
      <4>2. CASE ~GameAbout(p, x.sid)
        BY <1>8, <3>3, <3>6, <3>7, <4>2
      <4>. QED BY <4>1, <4>2
    <3>8. ASSUME NoWord(v, x), x.said # "Online"
          PROVE  m.amessage = Away(x.said)
      <4>1. CASE WordAbout(p, x.sid)
        <5>1. PICK word : IsSaying(p, x.sid, word) /\ m.amessage = Away(word)
          BY <3>6, <4>1
        <5>2. word \in Statuses
          BY <1>3, <5>1
        <5>3. ASSUME NEW r \in 1..L, r > 1
              PROVE  ~WordAbout(w[r], x.sid)
          <6>1. r - 1 \in 1..M /\ v[r - 1] = w[r]
            BY <1>1, <5>3
          <6>. QED BY <3>8, <6>1 DEF NoWord
        <5>4. x.said = word
          BY <1>2, <3>2, <5>1, <5>2, <5>3 DEF LastSaid
        <5>. QED BY <5>1, <5>4
      <4>2. CASE ~WordAbout(p, x.sid)
        BY <1>9, <3>3, <3>6, <3>8, <4>2
      <4>. QED BY <4>1, <4>2
    <3>. QED BY <1>11, <1>14, <2>1, <3>7, <3>8
  <2>. QED BY <2>2, <2>3
<1>. QED BY <1>5, <1>10, <1>13, <1>14 DEF Right, v
-----------------------------------------------------------------------------
(* The pieces of the invariant, when the wire grows *)

\* What Right asks of a friend and of his node does not change.
LEMMA Stays ==
  ASSUME NEW w, NEW b, NEW x, NEW y, NEW n, NEW m,
         NEW h \in BOOLEAN, NEW z \in BOOLEAN, NEW g \in BOOLEAN, NEW f \in BOOLEAN,
         Right(w, b, x, n, h, z), y.sid = x.sid, g => h, f => z,
         g => y.game = x.game /\ y.said = x.said,
         f => /\ m.listed = n.listed /\ m.present = n.present /\ m.sid = n.sid
              /\ m.game = n.game /\ m.amessage = n.amessage
  PROVE  Right(w, b, y, m, g, f)
<1>1. LastWord(w, b, y)
  BY DEF Right, LastWord
<1>2. ASSUME g
      PROVE  InOrder(w, b, y) /\ LastGame(w, y) /\ LastSaid(w, y) /\ NotYet(w, b, y)
  BY <1>2 DEF Right, InOrder, LastGame, LastSaid, NotYet, Coming, NoGame, NoWord
<1>3. ASSUME f
      PROVE  Settled(w, b, y, m)
  BY <1>3 DEF Right, Settled
<1>4. ASSUME f, g
      PROVE  Kept(w, b, y, m)
  BY <1>4 DEF Right, Kept, Coming, NoGame, NoWord
<1>. QED BY <1>1, <1>2, <1>3, <1>4 DEF Right

\* A packet that speaks of somebody else.
LEMMA Passes ==
  ASSUME NEW w \in Seq(Packet), NEW p \in Packet, NEW b, NEW x, NEW n,
         NEW h \in BOOLEAN, NEW z \in BOOLEAN,
         Right(w, b, x, n, h, z), ~OnlineAbout(p, b), ~Renews(p, b),
         ~GameAbout(p, x.sid), ~WordAbout(p, x.sid)
  PROVE  Right(Append(w, p), b, x, n, h, z)
<1>1. /\ IF GameAbout(p, x.sid) THEN IsPlaying(p, x.sid, x.game) ELSE x.game = x.game
      /\ IF WordAbout(p, x.sid) THEN IsSaying(p, x.sid, x.said) ELSE x.said = x.said
      /\ x.sid = x.sid /\ (h => h) /\ (z => z)
  OBVIOUS
<1>. QED BY <1>1, Grows

LEMMA WireShapes ==
  ASSUME NEW w \in Seq(Packet), NEW p \in Packet, NEW o \in Packet, NEW r \in Packet, NEW s \in Packet
  PROVE  /\ w \o <<>> = w /\ w \o <<p>> = Append(w, p)
         /\ w \o (<<p>> \o <<>>) = Append(w, p)
         /\ w \o (<<p>> \o <<o>>) = Append(Append(w, p), o)
         /\ <<p, o, r>> \o <<>> = Append(<<p, o>>, r)
         /\ <<p, o, r>> \o <<s>> = Append(Append(<<p, o>>, r), s)
OBVIOUS

\* New claims are made on new session ids only.
LEMMA OwnedStep ==
  ASSUME NEW w, NEW v, NEW t, NEW t2, NEW ns, NEW ns2, NEW last \in Nat, NEW last2 \in Nat,
         Owned(w, t, ns, last), last <= last2,
         \A b \in Buddy, s \in 1..MaxSid : Claims(v, t2, ns2, b, s) =>
           Claims(w, t, ns, b, s) \/ (t2[b].sid = s /\ s > last /\ s <= last2),
         \A b, c \in Buddy : t2[b].sid > last /\ t2[b].sid = t2[c].sid => b = c
  PROVE  Owned(v, t2, ns2, last2)
<1>. SUFFICES ASSUME NEW b \in Buddy, NEW s \in 1..MaxSid, Claims(v, t2, ns2, b, s)
              PROVE  s <= last2 /\ \A c \in Buddy : Claims(v, t2, ns2, c, s) => b = c
  BY DEF Owned
<1>1. \A c \in Buddy : Claims(v, t2, ns2, c, s) =>
        Claims(w, t, ns, c, s) \/ (t2[c].sid = s /\ s > last /\ s <= last2)
  OBVIOUS
<1>2. \A c \in Buddy : Claims(w, t, ns, c, s) =>
        s <= last /\ \A d \in Buddy : Claims(w, t, ns, d, s) => c = d
  BY DEF Owned
<1>3. MaxSid \in Nat /\ s \in Nat
  BY BuddiesAssumption
<1>. HIDE DEF Claims
<1>4. s <= last2
  BY <1>1, <1>2, <1>3
<1>5. ASSUME NEW c \in Buddy, Claims(v, t2, ns2, c, s)
      PROVE  b = c
  <2>1. CASE s <= last
    BY <1>1, <1>2, <1>3, <1>5, <2>1
  <2>2. CASE s > last
    BY <1>1, <1>2, <1>3, <1>5, <2>2
  <2>. QED BY <1>3, <2>1, <2>2
<1>. QED BY <1>4, <1>5

\* The claims on a longer wire.
LEMMA ClaimsGrow ==
  ASSUME NEW w \in Seq(Packet), NEW p \in Packet, NEW t, NEW t2, NEW ns,
         NEW b, NEW s, Claims(Append(w, p), t2, ns, b, s)
  PROVE  Claims(w, t, ns, b, s) \/ t2[b].sid = s \/ Speaks(p, b, s) \/ Writes(p, b, s)
<1>1. /\ 1..Len(Append(w, p)) = 1..(Len(w) + 1) /\ Len(w) \in Nat
      /\ \A q \in 1..Len(w) : Append(w, p)[q] = w[q]
      /\ Append(w, p)[Len(w) + 1] = p
  BY Appended
<1>2. \A q \in 1..(Len(w) + 1) : q \in 1..Len(w) \/ q = Len(w) + 1
  BY <1>1
<1>. QED BY <1>1, <1>2 DEF Claims

LEMMA GivenGrows ==
  ASSUME NEW w \in Seq(Packet), NEW p \in Packet, NEW last \in Nat, NEW last2 \in Nat,
         Given(w, last), last <= last2,
         \A s \in 1..MaxSid : GameAbout(p, s) \/ WordAbout(p, s) => s <= last2
  PROVE  Given(Append(w, p), last2)
<1>1. /\ 1..Len(Append(w, p)) = 1..(Len(w) + 1) /\ Len(w) \in Nat
      /\ \A q \in 1..Len(w) : Append(w, p)[q] = w[q]
      /\ Append(w, p)[Len(w) + 1] = p
  BY Appended
<1>2. \A q \in 1..(Len(w) + 1) : q \in 1..Len(w) \/ q = Len(w) + 1
  BY <1>1
<1>3. \A s \in 1..MaxSid : s \in Nat
  BY BuddiesAssumption
<1>. QED BY <1>1, <1>2, <1>3 DEF Given

LEMMA AnnouncedGrows ==
  ASSUME NEW w \in Seq(Packet), NEW p \in Packet, NEW ns, NEW u, NEW u2, NEW ps,
         Announced(w, ns, u, ps), u \subseteq u2,
         \A b \in Buddy, s \in 1..MaxSid : s \notin u2 /\ Speaks(p, b, s) =>
           /\ ps[s] = 0
           /\ ~(ns[b].present /\ ns[b].sid = s)
           /\ \A r \in 1..Len(w) : ~Speaks(w[r], b, s)
  PROVE  Announced(Append(w, p), ns, u2, ps)
<1> DEFINE v == Append(w, p)
           L == Len(w)
<1>1. /\ 1..Len(v) = 1..(L + 1) /\ L \in Nat
      /\ \A q \in 1..L : v[q] = w[q]
      /\ v[L + 1] = p
  BY Appended
<1>2. \A q \in 1..(L + 1) : q \in 1..L \/ q = L + 1
  BY <1>1
<1>. HIDE DEF v, L
<1>. SUFFICES ASSUME NEW b \in Buddy, NEW s \in 1..MaxSid, NEW q \in 1..(L + 1),
                     s \notin u2, Speaks(v[q], b, s)
              PROVE  /\ ps[s] = 0
                     /\ ~(ns[b].present /\ ns[b].sid = s)
                     /\ \A r \in 1..(L + 1) : Speaks(v[r], b, s) => r = q
  BY <1>1 DEF Announced, v
<1>3. CASE q = L + 1
  <2>1. /\ ps[s] = 0
        /\ ~(ns[b].present /\ ns[b].sid = s)
        /\ \A r \in 1..L : ~Speaks(w[r], b, s)
    BY <1>1, <1>3 DEF L
  <2>. QED BY <1>1, <1>2, <1>3, <2>1
<1>4. CASE q \in 1..L
  <2>1. Speaks(w[q], b, s) /\ s \notin u
    BY <1>1, <1>4
  <2>2. /\ ps[s] = 0
        /\ ~(ns[b].present /\ ns[b].sid = s)
        /\ \A r \in 1..L : Speaks(w[r], b, s) => r = q
    BY <1>4, <2>1 DEF Announced, L
  <2>3. ~Speaks(p, b, s)
    BY <1>4, <2>1 DEF L
  <2>. QED BY <1>1, <1>2, <2>2, <2>3
<1>. QED BY <1>2, <1>3, <1>4

LEMMA EmptyWire ==
  ASSUME NEW ns, NEW u, NEW ps, NEW last
  PROVE  Announced(<<>>, ns, u, ps) /\ Given(<<>>, last)
<1>1. 1..Len(<<>>) = {}
  BY EmptySeq
<1>. QED BY ONLY <1>1 DEF Announced, Given
-----------------------------------------------------------------------------
(* What the invariant says of the state, and how it is kept *)

LEMMA WireGrows ==
  ASSUME NEW w \in Seq(Packet), NEW p \in Packet, NEW t, NEW t2, NEW ns, NEW u, NEW u2, NEW ps,
         NEW last \in Nat, NEW last2 \in Nat, last <= last2, u \subseteq u2,
         WireSound(w, t, ns, u, ps, last),
         \A b \in Buddy, s \in 1..MaxSid : Speaks(p, b, s) \/ Writes(p, b, s) => t2[b].sid = s,
         \A s \in 1..MaxSid : GameAbout(p, s) \/ WordAbout(p, s) => s <= last2,
         \A b \in Buddy, s \in 1..MaxSid : s \notin u2 /\ Speaks(p, b, s) => s > last /\ ps[s] = 0,
         \A b \in Buddy : \/ t2[b].sid = t[b].sid \/ t2[b].sid = NoSid
                          \/ t2[b].sid > last /\ t2[b].sid <= last2,
         \A b, c \in Buddy : t2[b].sid > last /\ t2[b].sid = t2[c].sid => b = c
  PROVE  WireSound(Append(w, p), t2, ns, u2, ps, last2)
<1>1. MaxSid \in Nat /\ \A s \in 1..MaxSid : s # NoSid /\ s \in Nat
  BY BuddiesAssumption DEF NoSid
<1>2. ASSUME NEW b \in Buddy, NEW s \in 1..MaxSid, Claims(Append(w, p), t2, ns, b, s)
      PROVE  Claims(w, t, ns, b, s) \/ (t2[b].sid = s /\ s > last /\ s <= last2)
  <2>1. Claims(w, t, ns, b, s) \/ t2[b].sid = s
    BY <1>2, ClaimsGrow
  <2>2. t2[b].sid = s => t[b].sid = s \/ (s > last /\ s <= last2)
    BY <1>1
  <2>3. t[b].sid = s => Claims(w, t, ns, b, s)
    BY DEF Claims
  <2>. QED BY <2>1, <2>2, <2>3
<1>3. Owned(Append(w, p), t2, ns, last2)
  BY <1>2, OwnedStep DEF WireSound
<1>4. Given(Append(w, p), last2)
  BY GivenGrows DEF WireSound
<1>5. ASSUME NEW b \in Buddy, NEW s \in 1..MaxSid, s \notin u2, Speaks(p, b, s)
      PROVE  /\ ps[s] = 0
             /\ ~(ns[b].present /\ ns[b].sid = s)
             /\ \A r \in 1..Len(w) : ~Speaks(w[r], b, s)
  <2>1. ~Claims(w, t, ns, b, s)
    BY <1>1, <1>5 DEF WireSound, Owned
  <2>. QED BY <1>5, <2>1 DEF Claims
<1>6. Announced(Append(w, p), ns, u2, ps)
  BY <1>5, AnnouncedGrows DEF WireSound
<1>. QED BY <1>3, <1>4, <1>6 DEF WireSound

LEMMA WireStays ==
  ASSUME NEW w, NEW t, NEW t2, NEW ns, NEW u, NEW u2, NEW ps,
         NEW last \in Nat, NEW last2 \in Nat, last <= last2, u \subseteq u2,
         WireSound(w, t, ns, u, ps, last),
         \A b \in Buddy : \/ t2[b].sid = t[b].sid \/ t2[b].sid = NoSid
                          \/ t2[b].sid > last /\ t2[b].sid <= last2,
         \A b, c \in Buddy : t2[b].sid > last /\ t2[b].sid = t2[c].sid => b = c
  PROVE  WireSound(w, t2, ns, u2, ps, last2)
<1>1. MaxSid \in Nat /\ \A s \in 1..MaxSid : s # NoSid /\ s \in Nat
  BY BuddiesAssumption DEF NoSid
<1>2. ASSUME NEW b \in Buddy, NEW s \in 1..MaxSid, Claims(w, t2, ns, b, s)
      PROVE  Claims(w, t, ns, b, s) \/ (t2[b].sid = s /\ s > last /\ s <= last2)
  <2>1. Claims(w, t, ns, b, s) \/ t2[b].sid = s
    BY <1>2 DEF Claims
  <2>2. t2[b].sid = s => t[b].sid = s \/ (s > last /\ s <= last2)
    BY <1>1
  <2>3. t[b].sid = s => Claims(w, t, ns, b, s)
    BY DEF Claims
  <2>. QED BY <2>1, <2>2, <2>3
<1>3. Owned(w, t2, ns, last2)
  BY <1>2, OwnedStep DEF WireSound
<1>4. Given(w, last2)
  BY <1>1 DEF WireSound, Given
<1>5. Announced(w, ns, u2, ps)
  BY DEF WireSound, Announced
<1>. QED BY <1>3, <1>4, <1>5 DEF WireSound

LEMMA PersonFacts ==
  ASSUME NEW x \in Person
  PROVE  /\ x.friend \in BOOLEAN /\ x.sid \in 0..MaxSid /\ x.said \in Statuses
         /\ x.game \in {0} \union Games
         /\ x.sid # NoSid => x.sid \in 1..MaxSid
<1>1. MaxSid \in Nat
  BY BuddiesAssumption
<1>. QED BY <1>1 DEF Person, NoSid

LEMMA StateFacts ==
  ASSUME IInv
  PROVE  /\ nodes \in [Buddy -> Node] /\ truth \in [Buddy -> Person]
         /\ \A b \in Buddy : nodes[b] \in Node /\ truth[b] \in Person
         /\ \A b \in Buddy : nodes[b].present => nodes[b].listed /\ nodes[b].sid \in 1..MaxSid /\ connected
         /\ connected \in BOOLEAN /\ logins \in 0..MaxLogins /\ events \in 0..MaxEvents
         /\ lastSid \in 0..MaxSid /\ lastSid \in Nat /\ MaxSid \in Nat /\ MaxEvents \in Nat /\ MaxLogins \in Nat
         /\ changed \subseteq Buddy /\ unheard \subseteq 0..MaxSid /\ shown.to \subseteq Buddy
         /\ parts \in [1..MaxSid -> Nat]
         /\ wire \in Seq(Packet) /\ (~connected => wire = <<>>)
         /\ \A b \in Buddy : truth[b].sid = NoSid => truth[b].game = 0 /\ truth[b].said = "Online"
         /\ WireSound(wire, truth, nodes, unheard, parts, lastSid)
<1>1. MaxSid \in Nat /\ MaxEvents \in Nat /\ MaxLogins \in Nat
  BY BuddiesAssumption
<1>2. TypeOK /\ wire \in Seq(Packet) /\ (~connected => wire = <<>>)
  BY DEF IInv, Typed
<1>3. /\ nodes \in [Buddy -> Node] /\ truth \in [Buddy -> Person]
      /\ \A b \in Buddy : nodes[b].present => nodes[b].listed /\ nodes[b].sid \in 1..MaxSid /\ connected
      /\ connected \in BOOLEAN /\ logins \in 0..MaxLogins /\ events \in 0..MaxEvents
      /\ lastSid \in 0..MaxSid
      /\ changed \subseteq Buddy /\ unheard \subseteq 0..MaxSid /\ shown.to \subseteq Buddy
      /\ parts \in [1..MaxSid -> Nat]
  BY <1>2 DEF TypeOK, Node, Person
<1>4. lastSid \in Nat
  BY <1>1, <1>3
<1>5. \A b \in Buddy : nodes[b] \in Node /\ truth[b] \in Person
  BY <1>3
<1>6. \A b \in Buddy : truth[b].sid = NoSid => truth[b].game = 0 /\ truth[b].said = "Online"
  BY DEF IInv, Typed
<1>7. WireSound(wire, truth, nodes, unheard, parts, lastSid)
  BY DEF IInv
<1>. QED BY <1>1, <1>2, <1>3, <1>4, <1>5, <1>6, <1>7

\* A session id is given to one buddy, and not above the last.
LEMMA SidFacts ==
  ASSUME IInv
  PROVE  /\ \A b \in Buddy : truth[b].sid # NoSid => truth[b].sid \in 1..MaxSid
         /\ \A b \in Buddy : truth[b].sid <= lastSid
         /\ \A b, c \in Buddy : truth[b].sid # NoSid /\ truth[b].sid = truth[c].sid => b = c
         /\ \A b, c \in Buddy : truth[b].sid > lastSid /\ truth[b].sid = truth[c].sid => b = c
<1>1. \A b \in Buddy : truth[b].sid \in 0..MaxSid /\ (truth[b].sid # NoSid => truth[b].sid \in 1..MaxSid)
  BY StateFacts, PersonFacts
<1>2. \A b \in Buddy : Claims(wire, truth, nodes, b, truth[b].sid)
  BY DEF Claims
<1>3. \A b, c \in Buddy : truth[c].sid = truth[b].sid => Claims(wire, truth, nodes, c, truth[b].sid)
  BY DEF Claims
<1>4. \A b \in Buddy, s \in 1..MaxSid : Claims(wire, truth, nodes, b, s) =>
        s <= lastSid /\ \A c \in Buddy : Claims(wire, truth, nodes, c, s) => b = c
  BY StateFacts DEF WireSound, Owned
<1>5. lastSid \in Nat
  BY StateFacts
<1>6. \A b \in Buddy : truth[b].sid <= lastSid
  BY <1>1, <1>2, <1>4, <1>5 DEF NoSid
<1>7. \A b, c \in Buddy : truth[b].sid # NoSid /\ truth[b].sid = truth[c].sid => b = c
  BY <1>1, <1>2, <1>3, <1>4
<1>8. \A b \in Buddy : ~(truth[b].sid > lastSid)
  BY <1>1, <1>5, <1>6
<1>. QED BY <1>1, <1>6, <1>7, <1>8

LEMMA FriendFacts ==
  ASSUME IInv, NEW b \in Buddy, truth[b].friend
  PROVE  /\ Right(wire, b, truth[b], nodes[b], Heard(truth[b], unheard), Steady(b))
         /\ Heard(truth[b], unheard) \in BOOLEAN /\ Steady(b) \in BOOLEAN
BY StateFacts DEF IInv, FriendsRight, Friends, Heard, Steady

\* A change on the server.
LEMMA ServerStep ==
  ASSUME IInv, UNCHANGED <<nodes, connected, logins, shown, parts>>,
         truth' \in [Buddy -> Person], lastSid' \in 0..MaxSid, lastSid <= lastSid',
         events' \in 0..MaxEvents, changed' \subseteq Buddy,
         unheard \subseteq unheard', unheard' \subseteq 0..MaxSid,
         wire' \in Seq(Packet), ~connected => wire' = <<>>,
         \A b \in Buddy : truth'[b].sid = NoSid => truth'[b].game = 0 /\ truth'[b].said = "Online",
         WireSound(wire', truth', nodes, unheard', parts, lastSid'),
         \A b \in Buddy : connected /\ truth'[b].friend =>
           Right(wire', b, truth'[b], nodes[b], Heard(truth'[b], unheard'), b \notin changed')
  PROVE  IInv'
<1>1. Typed'
  BY StateFacts DEF Typed, TypeOK, Node, Person
<1>2. FriendsRight'
  <2>. SUFFICES ASSUME NEW b \in Buddy, truth'[b].friend
                PROVE  Right(wire', b, truth'[b], nodes[b], Heard(truth'[b], unheard'), connected /\ b \notin changed')
    BY DEF FriendsRight, Friends, Steady
  <2>1. CASE connected
    <3>1. (connected /\ b \notin changed') = (b \notin changed')
      BY <2>1
    <3>. QED BY <2>1, <3>1
  <2>2. CASE ~connected
    <3>1. (connected /\ b \notin changed') = FALSE /\ wire' = <<>>
      BY <2>2
    <3>. QED BY <3>1, NothingOnWire
  <2>. QED BY <2>1, <2>2
<1>3. Unused'
  <2>1. lastSid \in Nat /\ lastSid' \in Nat /\ \A s \in 1..MaxSid : s \in Nat
    BY StateFacts
  <2>. QED BY <2>1 DEF Unused, IInv
<1>4. WireSound(wire, truth, nodes, unheard, parts, lastSid)'
  OBVIOUS
<1>5. ShownAsSent'
  BY DEF IInv, ShownAsSent
<1>6. CountsParts'
  BY DEF IInv, CountsParts, Listed
<1>. QED BY <1>1, <1>2, <1>3, <1>4, <1>5, <1>6 DEF IInv
-----------------------------------------------------------------------------
(* The server's steps *)

LEMMA SendFacts ==
  ASSUME IInv, NEW packets, Send(packets)
  PROVE  /\ UNCHANGED <<nodes, connected, logins, shown, parts>>
         /\ events' \in 0..MaxEvents
         /\ wire' = IF connected THEN wire \o packets ELSE wire
         /\ ~connected => wire' = <<>>
<1>1. events \in 0..MaxEvents /\ MaxEvents \in Nat /\ (~connected => wire = <<>>)
  BY StateFacts
<1>. QED BY <1>1 DEF Send

\* Those in order get the session ids that follow the last, or none.
LEMMA MoveFacts ==
  ASSUME IInv, NEW S \in SUBSET Buddy, NEW order \in Orders(S), Move(order)
  PROVE  /\ truth' \in [Buddy -> Person] /\ lastSid' \in 0..MaxSid /\ lastSid <= lastSid'
         /\ \A b \in Buddy : truth'[b].friend = truth[b].friend
         /\ \A b \in Buddy \ S : truth'[b] = truth[b]
         /\ \A b \in S : /\ truth'[b].said = "Online" /\ truth'[b].game = 0
                         /\ \/ truth'[b].sid = NoSid
                            \/ truth'[b].sid > lastSid /\ truth'[b].sid <= lastSid'
         /\ \A b, c \in Buddy : truth'[b].sid > lastSid /\ truth'[b].sid = truth'[c].sid => b = c
         /\ \E told \in Orders({b \in Friends : b \in S}) :
              Send(IF told = <<>> THEN <<>> ELSE <<OnlineOf(told, truth')>>)
         /\ UNCHANGED <<changed, unheard>>
<1> DEFINE sidOf(b) == IF truth[b].sid # NoSid THEN NoSid
                       ELSE lastSid + (CHOOSE k \in 1..Len(order) : order[k] = b)
           t == [b \in Buddy |-> IF \E k \in 1..Len(order) : order[k] = b
                   THEN [truth[b] EXCEPT !.sid = sidOf(b), !.said = "Online", !.game = 0] ELSE truth[b]]
           at(b) == CHOOSE k \in 1..Len(order) : order[k] = b
<1>1. /\ lastSid + Len(order) <= MaxSid /\ lastSid' = lastSid + Len(order) /\ truth' = t
      /\ \E told \in Orders({b \in Friends : \E k \in 1..Len(order) : order[k] = b}) :
           Send(IF told = <<>> THEN <<>> ELSE <<OnlineOf(told, t)>>)
      /\ UNCHANGED <<changed, unheard>>
  BY DEF Move
<1>2. /\ Len(order) \in Nat
      /\ \A b \in Buddy : (\E k \in 1..Len(order) : order[k] = b) <=> b \in S
  BY OrderFacts
<1>3. {b \in Friends : \E k \in 1..Len(order) : order[k] = b} = {b \in Friends : b \in S}
  BY <1>2 DEF Friends
<1>4. lastSid \in Nat /\ MaxSid \in Nat /\ \A b \in Buddy : truth[b] \in Person
  BY StateFacts
<1>. HIDE DEF t
<1>15. lastSid \in Nat /\ MaxSid \in Nat /\ Len(order) \in Nat
       /\ lastSid + Len(order) <= MaxSid /\ lastSid' = lastSid + Len(order)
  BY <1>1, <1>2, <1>4
<1>5. lastSid' \in 0..MaxSid /\ lastSid <= lastSid'
  BY ONLY <1>15
<1>6. \A b \in S : at(b) \in 1..Len(order) /\ order[at(b)] = b
  BY <1>2
<1>7. \A b \in S : \/ sidOf(b) = NoSid
                   \/ sidOf(b) = lastSid + at(b) /\ sidOf(b) > lastSid /\ sidOf(b) <= lastSid'
  <2>1. \A b \in S : sidOf(b) = NoSid \/ sidOf(b) = lastSid + at(b)
    OBVIOUS
  <2>. HIDE DEF sidOf, at
  <2>2. ASSUME NEW i \in 1..Len(order)
        PROVE  lastSid + i > lastSid /\ lastSid + i <= lastSid'
    BY ONLY <1>15, <2>2
  <2>. QED BY ONLY <1>6, <2>1, <2>2
<1>8. \A b \in S : sidOf(b) \in 0..MaxSid
  <2>. HIDE DEF sidOf, at
  <2>1. ASSUME NEW i \in 1..Len(order)
        PROVE  lastSid + i \in 0..MaxSid
    BY ONLY <1>15, <2>1
  <2>2. NoSid \in 0..MaxSid
    BY <1>15 DEF NoSid
  <2>. QED BY ONLY <1>6, <1>7, <2>1, <2>2
<1>. USE DEF t
<1>9. \A b \in Buddy \ S : truth'[b] = truth[b]
  BY <1>1, <1>2
<1>10. \A b \in S : truth'[b] = [truth[b] EXCEPT !.sid = sidOf(b), !.said = "Online", !.game = 0]
  <2>. HIDE DEF sidOf
  <2>. QED BY <1>1, <1>2
<1>. HIDE DEF sidOf, at
<1>11. "Online" \in Statuses /\ 0 \in {0} \union Games
  BY BuddiesAssumption
<1>12. \A b \in S : /\ truth'[b] \in Person /\ truth'[b].friend = truth[b].friend
                    /\ truth'[b].sid = sidOf(b) /\ truth'[b].said = "Online" /\ truth'[b].game = 0
  BY <1>4, <1>8, <1>10, <1>11 DEF Person
<1>13. truth' \in [Buddy -> Person]
  <2>1. \A b \in Buddy : truth'[b] \in Person
    BY <1>4, <1>9, <1>12
  <2>. QED BY <1>1, <2>1
<1>14. ASSUME NEW b \in Buddy, NEW c \in Buddy, truth'[b].sid > lastSid, truth'[b].sid = truth'[c].sid
       PROVE  b = c
  <2>1. \A d \in Buddy : truth'[d].sid > lastSid => d \in S /\ sidOf(d) = lastSid + at(d)
    <3>1. \A d \in Buddy : truth[d].sid <= lastSid /\ truth[d].sid \in 0..MaxSid
      BY <1>4, SidFacts, PersonFacts
    <3>2. \A d \in Buddy : ~(truth[d].sid > lastSid)
      BY <1>4, <3>1
    <3>3. ~(NoSid > lastSid)
      BY <1>4 DEF NoSid
    <3>. QED BY <1>7, <1>9, <1>12, <3>2, <3>3
  <2>2. b \in S /\ c \in S /\ lastSid + at(b) = lastSid + at(c)
    BY <1>12, <1>14, <2>1
  <2>3. at(b) = at(c)
    BY <1>2, <1>4, <1>6, <2>2
  <2>. QED BY <1>6, <2>2, <2>3
<1>. HIDE DEF t
<1>. QED BY <1>1, <1>3, <1>5, <1>7, <1>9, <1>12, <1>13, <1>14

LEMMA MoveStep ==
  ASSUME IInv, NEW S \in SUBSET Buddy, NEW order \in Orders(S), Move(order)
  PROVE  IInv'
<1> DEFINE F == {b \in Friends : b \in S}
<1>1. PICK told \in Orders(F) : Send(IF told = <<>> THEN <<>> ELSE <<OnlineOf(told, truth')>>)
  BY MoveFacts
<1>2. F \in SUBSET Buddy /\ \A b \in Buddy : b \in F <=> truth[b].friend /\ b \in S
  BY DEF Friends
<1>. HIDE DEF F
<1>3. /\ UNCHANGED <<nodes, connected, logins, shown, parts>>
      /\ events' \in 0..MaxEvents /\ (~connected => wire' = <<>>)
      /\ wire' = IF connected THEN wire \o (IF told = <<>> THEN <<>> ELSE <<OnlineOf(told, truth')>>) ELSE wire
  BY <1>1, SendFacts
<1>4. /\ truth' \in [Buddy -> Person] /\ lastSid' \in 0..MaxSid /\ lastSid <= lastSid'
      /\ lastSid' \in Nat
      /\ \A b \in Buddy : truth'[b].friend = truth[b].friend
      /\ \A b \in Buddy \ S : truth'[b] = truth[b]
      /\ \A b \in S : /\ truth'[b].said = "Online" /\ truth'[b].game = 0
                      /\ \/ truth'[b].sid = NoSid
                         \/ truth'[b].sid > lastSid /\ truth'[b].sid <= lastSid'
      /\ \A b, c \in Buddy : truth'[b].sid > lastSid /\ truth'[b].sid = truth'[c].sid => b = c
      /\ UNCHANGED <<changed, unheard>>
  BY MoveFacts, StateFacts
<1>5. \A b \in Buddy : \/ truth'[b].sid = truth[b].sid \/ truth'[b].sid = NoSid
                       \/ truth'[b].sid > lastSid /\ truth'[b].sid <= lastSid'
  BY <1>4
<1>6. \A b \in Buddy : truth'[b].sid = NoSid => truth'[b].game = 0 /\ truth'[b].said = "Online"
  BY <1>4, StateFacts
<1>7. wire \in Seq(Packet) /\ WireSound(wire, truth, nodes, unheard, parts, lastSid) /\ lastSid \in Nat
      /\ changed \subseteq Buddy /\ unheard \subseteq 0..MaxSid
  BY StateFacts
<1>8. WireSound(wire, truth', nodes, unheard', parts, lastSid')
  BY <1>4, <1>5, <1>7, WireStays
<1>9. CASE told = <<>> \/ ~connected
  <2>1. wire' = wire
    <3>1. wire \o <<>> = wire
      BY <1>7
    <3>. QED BY <1>3, <1>9, <3>1
  <2>2. ASSUME NEW b \in Buddy, connected, truth'[b].friend
        PROVE  Right(wire', b, truth'[b], nodes[b], Heard(truth'[b], unheard'), b \notin changed')
    <3>1. F = {}
      BY <1>2, <1>9, <2>2, OrderFacts
    <3>2. truth'[b] = truth[b] /\ truth[b].friend
      BY <1>2, <1>4, <2>2, <3>1
    <3>3. Right(wire, b, truth[b], nodes[b], Heard(truth[b], unheard), Steady(b))
      BY <3>2, FriendFacts
    <3>4. Steady(b) = (b \notin changed')
      BY <1>4, <2>2 DEF Steady
    <3>. QED BY <1>4, <2>1, <3>2, <3>3, <3>4
  <2>. QED BY <1>3, <1>4, <1>6, <1>7, <1>8, <2>1, <2>2, ServerStep
<1>10. CASE told # <<>> /\ connected
  <2> DEFINE p == OnlineOf(told, truth')
  <2>1. /\ p \in Packet /\ p.kind = "online"
        /\ \A b, x : Speaks(p, b, x) <=> b \in F /\ x = truth'[b].sid
        /\ \A b : OnlineAbout(p, b) <=> b \in F
    BY <1>2, <1>4, OnlineMade
  <2>. HIDE DEF p
  <2>2. /\ \A s : ~GameAbout(p, s) /\ ~WordAbout(p, s)
        /\ \A b : ~Renews(p, b) /\ \A s : ~Writes(p, b, s)
    BY <2>1, KindsSay
  <2>3. wire' = Append(wire, p)
    BY <1>3, <1>7, <1>10, <2>1, WireShapes DEF p
  <2>4. ASSUME NEW b \in Buddy, NEW s \in 1..MaxSid, Speaks(p, b, s)
        PROVE  truth'[b].sid = s /\ s > lastSid /\ parts[s] = 0
    <3>1. b \in S /\ truth'[b].sid = s
      BY <1>2, <2>1, <2>4
    <3>2. s # NoSid
      BY StateFacts DEF NoSid
    <3>3. s > lastSid
      BY <1>4, <3>1, <3>2
    <3>. QED BY <3>1, <3>3 DEF IInv, Unused
  <2>5. WireSound(wire', truth', nodes, unheard', parts, lastSid')
    <3>1. /\ \A b \in Buddy, s \in 1..MaxSid : Speaks(p, b, s) \/ Writes(p, b, s) => truth'[b].sid = s
          /\ \A s \in 1..MaxSid : GameAbout(p, s) \/ WordAbout(p, s) => s <= lastSid'
          /\ \A b \in Buddy, s \in 1..MaxSid :
               s \notin unheard' /\ Speaks(p, b, s) => s > lastSid /\ parts[s] = 0
          /\ unheard \subseteq unheard'
      BY <1>4, <2>2, <2>4
    <3>2. lastSid <= lastSid' /\ lastSid' \in Nat
      BY <1>4
    <3>3. \A b, c \in Buddy : truth'[b].sid > lastSid /\ truth'[b].sid = truth'[c].sid => b = c
      BY <1>4
    <3>4. WireSound(Append(wire, p), truth', nodes, unheard', parts, lastSid')
      <4>1. wire \in Seq(Packet) /\ p \in Packet /\ lastSid \in Nat
            /\ WireSound(wire, truth, nodes, unheard, parts, lastSid)
        BY <1>7, <2>1
      <4>. QED BY ONLY <1>5, <3>1, <3>2, <3>3, <4>1, WireGrows
    <3>. QED BY <2>3, <3>4
  <2>6. ASSUME NEW b \in Buddy, truth'[b].friend
        PROVE  Right(wire', b, truth'[b], nodes[b], Heard(truth'[b], unheard'), b \notin changed')
    <3>1. truth[b].friend
      BY <1>4, <2>6
    <3>2. /\ Right(wire, b, truth[b], nodes[b], Heard(truth[b], unheard), Steady(b))
          /\ Heard(truth[b], unheard) \in BOOLEAN /\ Steady(b) \in BOOLEAN
          /\ Steady(b) = (b \notin changed')
      BY <1>4, <1>10, <3>1, FriendFacts DEF Steady
    <3>3. CASE b \in S
      <4>1. \A s : Speaks(p, b, s) <=> s = truth'[b].sid
        BY <1>2, <2>1, <3>1, <3>3
      <4>2. Heard(truth'[b], unheard') \in BOOLEAN /\ truth'[b].sid \in 0..MaxSid
        BY <1>4, PersonFacts DEF Heard
      <4>3. ASSUME Heard(truth'[b], unheard')
            PROVE  /\ truth'[b].game = 0 /\ truth'[b].said = "Online"
                   /\ \A q \in 1..Len(wire) : ~GameAbout(wire[q], truth'[b].sid) /\ ~WordAbout(wire[q], truth'[b].sid)
        <5>1. truth'[b].sid \in 1..MaxSid /\ truth'[b].sid > lastSid
          BY <1>4, <3>3, <4>3, PersonFacts DEF Heard
        <5>2. ~(truth'[b].sid <= lastSid)
          BY <1>7, <5>1, StateFacts
        <5>. QED BY <1>4, <1>7, <3>3, <5>1, <5>2 DEF WireSound, Given
      <4>. QED BY <1>7, <2>1, <2>3, <3>2, <4>1, <4>2, <4>3, Moves
    <3>4. CASE b \notin S
      <4>1. truth'[b] = truth[b] /\ ~OnlineAbout(p, b) /\ ~Renews(p, b)
        BY <1>2, <1>4, <2>1, <2>2, <3>4
      <4>2. (b \notin changed') \in BOOLEAN /\ unheard' = unheard
        BY <1>4
      <4>3. ~GameAbout(p, truth[b].sid) /\ ~WordAbout(p, truth[b].sid)
        BY <2>2
      <4>4. Right(Append(wire, p), b, truth[b], nodes[b], Heard(truth[b], unheard), Steady(b))
        BY <1>7, <2>1, <3>2, <4>1, <4>3, Passes
      <4>. QED BY <2>3, <3>2, <4>1, <4>2, <4>4
    <3>. QED BY <3>3, <3>4
  <2>7. wire' \in Seq(Packet)
    BY <1>7, <2>1, <2>3, Appended
  <2>. QED BY <1>3, <1>4, <1>6, <1>7, <2>5, <2>6, <2>7, ServerStep
<1>. QED BY <1>9, <1>10

\* A packet that gives nobody a session id.
LEMMA PacketStep ==
  ASSUME IInv, NEW p \in Packet, Send(<<p>>), lastSid' = lastSid,
         truth' \in [Buddy -> Person], changed' \subseteq Buddy,
         unheard \subseteq unheard', unheard' \subseteq 0..MaxSid,
         \A b \in Buddy : truth'[b].sid = truth[b].sid,
         \A b \in Buddy : truth'[b].sid = NoSid => truth'[b].game = 0 /\ truth'[b].said = "Online",
         p.kind # "online",
         \A b \in Buddy, s \in 1..MaxSid : Writes(p, b, s) => truth[b].sid = s,
         \A s \in 1..MaxSid : GameAbout(p, s) \/ WordAbout(p, s) => s <= lastSid,
         \A b \in Buddy : connected /\ truth'[b].friend =>
           Right(Append(wire, p), b, truth'[b], nodes[b], Heard(truth'[b], unheard'), b \notin changed')
  PROVE  IInv'
<1>1. /\ UNCHANGED <<nodes, connected, logins, shown, parts>>
      /\ events' \in 0..MaxEvents /\ (~connected => wire' = <<>>)
      /\ wire' = IF connected THEN wire \o <<p>> ELSE wire
  BY SendFacts
<1>2. wire \in Seq(Packet) /\ WireSound(wire, truth, nodes, unheard, parts, lastSid) /\ lastSid \in Nat
      /\ lastSid \in 0..MaxSid
  BY StateFacts
<1>3. \A b, s : ~Speaks(p, b, s)
  BY KindsSay
<1>4. lastSid <= lastSid' /\ lastSid' \in Nat /\ lastSid' \in 0..MaxSid /\ lastSid <= lastSid
  BY <1>2
<1>5. \A b, c \in Buddy : truth'[b].sid > lastSid /\ truth'[b].sid = truth'[c].sid => b = c
  BY SidFacts
<1>6. \A b \in Buddy : \/ truth'[b].sid = truth[b].sid \/ truth'[b].sid = NoSid
                       \/ truth'[b].sid > lastSid /\ truth'[b].sid <= lastSid'
  OBVIOUS
<1>7. CASE connected
  <2>1. wire' = Append(wire, p) /\ wire' \in Seq(Packet)
    BY <1>1, <1>2, <1>7, WireShapes, Appended
  <2>2. /\ \A b \in Buddy, s \in 1..MaxSid : Speaks(p, b, s) \/ Writes(p, b, s) => truth'[b].sid = s
        /\ \A s \in 1..MaxSid : GameAbout(p, s) \/ WordAbout(p, s) => s <= lastSid'
        /\ \A b \in Buddy, s \in 1..MaxSid :
             s \notin unheard' /\ Speaks(p, b, s) => s > lastSid /\ parts[s] = 0
        /\ unheard \subseteq unheard' /\ p \in Packet
    BY <1>3
  <2>3. WireSound(Append(wire, p), truth', nodes, unheard', parts, lastSid')
    BY ONLY <1>2, <1>4, <1>5, <1>6, <2>2, WireGrows
  <2>. QED BY <1>1, <1>4, <1>7, <2>1, <2>3, ServerStep
<1>8. CASE ~connected
  <2>1. wire' = wire
    BY <1>1, <1>8
  <2>2. WireSound(wire, truth', nodes, unheard', parts, lastSid')
    <3>1. unheard \subseteq unheard'
      OBVIOUS
    <3>. QED BY ONLY <1>2, <1>4, <1>5, <1>6, <3>1, WireStays
  <2>. QED BY <1>1, <1>2, <1>4, <1>8, <2>1, <2>2, ServerStep
<1>. QED BY <1>7, <1>8

\* The first in a status packet is heard, the others are not.
LEMMA SayStep ==
  ASSUME IInv, NEW S \in SUBSET OnlineFriends, NEW order \in Orders(S), NEW msg \in Statuses,
         S # {}, Say(order, msg)
  PROVE  IInv'
<1> DEFINE t == [b \in Buddy |-> IF \E k \in 1..Len(order) : order[k] = b
                   THEN [truth[b] EXCEPT !.said = msg] ELSE truth[b]]
           p == StatusOf(order, t)
<1>1. /\ truth' = t /\ Send(<<p>>) /\ lastSid' = lastSid /\ changed' = changed
      /\ unheard' = unheard \union {truth[order[k]].sid : k \in 2..Len(order)}
  BY DEF Say
<1>2. S \in SUBSET Buddy /\ \A b \in S : truth[b].sid # NoSid
  BY DEF OnlineFriends, Friends
<1>3. /\ Len(order) \in Nat /\ order # <<>>
      /\ \A k \in 1..Len(order) : order[k] \in S
      /\ \A b \in Buddy : (\E k \in 1..Len(order) : order[k] = b) <=> b \in S
  BY <1>2, OrderFacts
<1>4. \A b \in Buddy : truth[b] \in Person
  BY StateFacts
<1>5. /\ \A b \in Buddy \ S : truth'[b] = truth[b]
      /\ \A b \in S : truth'[b] = [truth[b] EXCEPT !.said = msg]
  BY <1>1, <1>2, <1>3
<1>6. \A b \in S : /\ truth'[b] \in Person /\ truth'[b].sid = truth[b].sid
                   /\ truth'[b].friend = truth[b].friend /\ truth'[b].game = truth[b].game
  BY <1>2, <1>4, <1>5 DEF Person
<1>7. \A b \in Buddy : truth'[b] \in Person /\ truth'[b].sid = truth[b].sid
                       /\ truth'[b].friend = truth[b].friend /\ truth'[b].game = truth[b].game
  BY <1>4, <1>5, <1>6
<1>8. truth' \in [Buddy -> Person]
  BY <1>1, <1>7
<1>9. /\ p \in Packet /\ p.kind = "status" /\ order[1] \in S
      /\ \A x, m : IsSaying(p, x, m) <=> x = truth'[order[1]].sid /\ m = truth'[order[1]].said
      /\ \A x : WordAbout(p, x) <=> x = truth'[order[1]].sid
  <2>1. t \in [Buddy -> Person] /\ \A b \in S : t[b].sid # NoSid
    BY <1>1, <1>2, <1>6, <1>8
  <2>. HIDE DEF t
  <2>. QED BY <1>1, <1>2, <1>3, <2>1, StatusMade
<1>. HIDE DEF t, p
<1>10. changed' \subseteq Buddy /\ unheard \subseteq unheard' /\ unheard' \subseteq 0..MaxSid
  <2>1. \A k \in 2..Len(order) : k \in 1..Len(order)
    BY <1>3
  <2>2. \A k \in 2..Len(order) : truth[order[k]].sid \in 0..MaxSid
    BY <1>2, <1>3, <1>4, <2>1, PersonFacts
  <2>. QED BY <1>1, <2>2, StateFacts
<1>11. \A b \in Buddy : truth'[b].sid = NoSid => truth'[b].game = 0 /\ truth'[b].said = "Online"
  BY <1>2, <1>5, <1>7, StateFacts
<1>12. /\ \A b : ~OnlineAbout(p, b) /\ ~Renews(p, b)
       /\ \A s : ~GameAbout(p, s)
       /\ \A b, s : ~Writes(p, b, s)
  BY <1>9, KindsSay
<1>13. \A s \in 1..MaxSid : GameAbout(p, s) \/ WordAbout(p, s) => s <= lastSid
  BY <1>2, <1>7, <1>9, <1>12, SidFacts
<1>14. ASSUME NEW b \in Buddy, connected, truth'[b].friend
       PROVE  Right(Append(wire, p), b, truth'[b], nodes[b], Heard(truth'[b], unheard'), b \notin changed')
  <2>1. /\ Right(wire, b, truth[b], nodes[b], Heard(truth[b], unheard), Steady(b))
        /\ Heard(truth[b], unheard) \in BOOLEAN /\ Steady(b) \in BOOLEAN
    BY <1>7, <1>14, FriendFacts
  <2>2. Steady(b) = (b \notin changed')
    BY <1>1, <1>14 DEF Steady
  <2>3. Heard(truth'[b], unheard') \in BOOLEAN /\ (Heard(truth'[b], unheard') => Heard(truth[b], unheard))
    BY <1>7, <1>10 DEF Heard
  <2>4. ASSUME Heard(truth'[b], unheard')
        PROVE  IF WordAbout(p, truth[b].sid) THEN IsSaying(p, truth[b].sid, truth'[b].said)
                                             ELSE truth'[b].said = truth[b].said
    <3>1. truth[b].sid # NoSid
      BY <1>7, <2>4 DEF Heard
    <3>2. WordAbout(p, truth[b].sid) => b = order[1]
      BY <1>2, <1>7, <1>9, <3>1, SidFacts
    <3>3. CASE WordAbout(p, truth[b].sid)
      BY <1>7, <1>9, <3>2, <3>3
    <3>4. CASE ~WordAbout(p, truth[b].sid)
      <4>1. b # order[1]
        BY <1>7, <1>9, <3>4
      <4>2. b \notin S
        <5>1. ASSUME b \in S
              PROVE  FALSE
          <6>1. PICK k \in 1..Len(order) : order[k] = b
            BY <1>3, <5>1
          <6>2. k \in 2..Len(order)
            BY <1>3, <4>1, <6>1
          <6>. QED BY <1>1, <1>7, <2>4, <6>1, <6>2 DEF Heard
        <5>. QED BY <5>1
      <4>. QED BY <1>5, <3>4, <4>2
    <3>. QED BY <3>3, <3>4
  <2>5. /\ truth'[b].sid = truth[b].sid /\ truth'[b].game = truth[b].game
        /\ ~OnlineAbout(p, b) /\ ~Renews(p, b) /\ ~GameAbout(p, truth[b].sid)
    BY <1>7, <1>12
  <2>6. wire \in Seq(Packet) /\ p \in Packet
    BY <1>9, StateFacts
  <2>7. Heard(truth'[b], unheard') =>
          /\ IF GameAbout(p, truth[b].sid) THEN IsPlaying(p, truth[b].sid, truth'[b].game)
                                           ELSE truth'[b].game = truth[b].game
          /\ IF WordAbout(p, truth[b].sid) THEN IsSaying(p, truth[b].sid, truth'[b].said)
                                           ELSE truth'[b].said = truth[b].said
    BY <2>4, <2>5
  <2>8. Right(Append(wire, p), b, truth'[b], nodes[b], Heard(truth'[b], unheard'), Steady(b))
    BY ONLY <2>1, <2>3, <2>5, <2>6, <2>7, Grows
  <2>. QED BY <2>2, <2>8
<1>15. p.kind # "online"
  BY <1>9
<1>. QED BY <1>1, <1>7, <1>8, <1>9, <1>10, <1>11, <1>12, <1>13, <1>14, <1>15, PacketStep

LEMMA PlayStep ==
  ASSUME IInv, NEW S \in SUBSET OnlineFriends, NEW order \in Orders(S), NEW g \in {0} \union Games,
         Play(order, g)
  PROVE  IInv'
<1> DEFINE t == [b \in Buddy |-> IF \E k \in 1..Len(order) : order[k] = b
                   THEN [truth[b] EXCEPT !.game = g] ELSE truth[b]]
           p == GamesOf(order, t)
<1>1. /\ truth' = t /\ Send(<<p>>) /\ lastSid' = lastSid /\ changed' = changed
      /\ unheard' = unheard
  BY DEF Play
<1>2. S \in SUBSET Buddy /\ \A b \in S : truth[b].sid # NoSid
  BY DEF OnlineFriends, Friends
<1>3. \A b \in Buddy : (\E k \in 1..Len(order) : order[k] = b) <=> b \in S
  BY <1>2, OrderFacts
<1>4. \A b \in Buddy : truth[b] \in Person
  BY StateFacts
<1>5. /\ \A b \in Buddy \ S : truth'[b] = truth[b]
      /\ \A b \in S : truth'[b] = [truth[b] EXCEPT !.game = g]
  BY <1>1, <1>2, <1>3
<1>6. \A b \in S : /\ truth'[b] \in Person /\ truth'[b].sid = truth[b].sid
                   /\ truth'[b].friend = truth[b].friend /\ truth'[b].said = truth[b].said
  BY <1>2, <1>4, <1>5 DEF Person
<1>7. \A b \in Buddy : truth'[b] \in Person /\ truth'[b].sid = truth[b].sid
                       /\ truth'[b].friend = truth[b].friend /\ truth'[b].said = truth[b].said
  BY <1>4, <1>5, <1>6
<1>8. truth' \in [Buddy -> Person]
  BY <1>1, <1>7
<1>9. /\ p \in Packet /\ p.kind = "games"
      /\ \A x, i : IsPlaying(p, x, i) <=> \E b \in S : x = truth'[b].sid /\ i = truth'[b].game
      /\ \A x : GameAbout(p, x) <=> \E b \in S : x = truth'[b].sid
  <2>1. t \in [Buddy -> Person] /\ \A b \in S : t[b].sid # NoSid
    BY <1>1, <1>2, <1>6, <1>8
  <2>2. \A b, c \in S : t[b].sid = t[c].sid => b = c
    BY <1>1, <1>2, <1>6, SidFacts
  <2>. HIDE DEF t
  <2>. QED BY <1>1, <1>2, <2>1, <2>2, GamesMade
<1>. HIDE DEF t, p
<1>10. changed' \subseteq Buddy /\ unheard \subseteq unheard' /\ unheard' \subseteq 0..MaxSid
  BY <1>1, StateFacts
<1>11. \A b \in Buddy : truth'[b].sid = NoSid => truth'[b].game = 0 /\ truth'[b].said = "Online"
  BY <1>2, <1>5, <1>7, StateFacts
<1>12. /\ \A b : ~OnlineAbout(p, b) /\ ~Renews(p, b)
       /\ \A s : ~WordAbout(p, s)
       /\ \A b, s : ~Writes(p, b, s)
  BY <1>9, KindsSay
<1>13. \A s \in 1..MaxSid : GameAbout(p, s) \/ WordAbout(p, s) => s <= lastSid
  BY <1>2, <1>7, <1>9, <1>12, SidFacts
<1>14. ASSUME NEW b \in Buddy, connected, truth'[b].friend
       PROVE  Right(Append(wire, p), b, truth'[b], nodes[b], Heard(truth'[b], unheard'), b \notin changed')
  <2>1. /\ Right(wire, b, truth[b], nodes[b], Heard(truth[b], unheard), Steady(b))
        /\ Heard(truth[b], unheard) \in BOOLEAN /\ Steady(b) \in BOOLEAN
    BY <1>7, <1>14, FriendFacts
  <2>2. Steady(b) = (b \notin changed')
    BY <1>1, <1>14 DEF Steady
  <2>3. Heard(truth'[b], unheard') \in BOOLEAN /\ (Heard(truth'[b], unheard') => Heard(truth[b], unheard))
    BY <1>7, <1>10 DEF Heard
  <2>4. ASSUME Heard(truth'[b], unheard')
        PROVE  IF GameAbout(p, truth[b].sid) THEN IsPlaying(p, truth[b].sid, truth'[b].game)
                                             ELSE truth'[b].game = truth[b].game
    <3>1. truth[b].sid # NoSid
      BY <1>7, <2>4 DEF Heard
    <3>2. GameAbout(p, truth[b].sid) => b \in S
      BY <1>2, <1>7, <1>9, <3>1, SidFacts
    <3>3. CASE GameAbout(p, truth[b].sid)
      BY <1>7, <1>9, <3>2, <3>3
    <3>4. CASE ~GameAbout(p, truth[b].sid)
      <4>1. b \notin S
        BY <1>7, <1>9, <3>4
      <4>. QED BY <1>5, <3>4, <4>1
    <3>. QED BY <3>3, <3>4
  <2>5. /\ truth'[b].sid = truth[b].sid /\ truth'[b].said = truth[b].said
        /\ ~OnlineAbout(p, b) /\ ~Renews(p, b) /\ ~WordAbout(p, truth[b].sid)
    BY <1>7, <1>12
  <2>6. wire \in Seq(Packet) /\ p \in Packet
    BY <1>9, StateFacts
  <2>7. Heard(truth'[b], unheard') =>
          /\ IF GameAbout(p, truth[b].sid) THEN IsPlaying(p, truth[b].sid, truth'[b].game)
                                           ELSE truth'[b].game = truth[b].game
          /\ IF WordAbout(p, truth[b].sid) THEN IsSaying(p, truth[b].sid, truth'[b].said)
                                           ELSE truth'[b].said = truth[b].said
    BY <2>4, <2>5
  <2>8. Right(Append(wire, p), b, truth'[b], nodes[b], Heard(truth'[b], unheard'), Steady(b))
    BY ONLY <2>1, <2>3, <2>5, <2>6, <2>7, Grows
  <2>. QED BY <2>2, <2>8
<1>15. p.kind # "online"
  BY <1>9
<1>. QED BY <1>1, <1>7, <1>8, <1>9, <1>10, <1>11, <1>12, <1>13, <1>14, <1>15, PacketStep

\* A packet about b only.
LEMMA OthersPass ==
  ASSUME IInv, connected, NEW p \in Packet, NEW b \in Buddy, truth[b].friend,
         ~OnlineAbout(p, b), ~Renews(p, b), \A s : ~GameAbout(p, s) /\ ~WordAbout(p, s)
  PROVE  Right(Append(wire, p), b, truth[b], nodes[b], Heard(truth[b], unheard), Steady(b))
<1>1. /\ Right(wire, b, truth[b], nodes[b], Heard(truth[b], unheard), Steady(b))
      /\ Heard(truth[b], unheard) \in BOOLEAN /\ Steady(b) \in BOOLEAN
  BY FriendFacts
<1>2. wire \in Seq(Packet) /\ ~GameAbout(p, truth[b].sid) /\ ~WordAbout(p, truth[b].sid)
  BY StateFacts
<1>. QED BY <1>1, <1>2, Passes

LEMMA UnfriendStep ==
  ASSUME IInv, NEW b \in Friends, Unfriend(b)
  PROVE  IInv'
<1> DEFINE p == [kind |-> "removed", id |-> b]
<1>1. /\ truth' = [truth EXCEPT ![b].friend = FALSE] /\ changed' = changed \union {b}
      /\ Send(<<p>>) /\ lastSid' = lastSid /\ unheard' = unheard
  BY DEF Unfriend
<1>2. b \in Buddy
  BY DEF Friends
<1>3. p \in Packet /\ p.kind = "removed" /\ \A c : Renews(p, c) => c = b
  BY <1>2 DEF Packet, Removals, Renews
<1>. HIDE DEF p
<1>4. /\ \A c : ~OnlineAbout(p, c)
      /\ \A s : ~GameAbout(p, s) /\ ~WordAbout(p, s)
      /\ \A c, s : ~Writes(p, c, s)
  BY <1>3, KindsSay
<1>5. truth \in [Buddy -> Person] /\ truth[b] \in Person
  BY <1>2, StateFacts
<1>6. /\ \A c \in Buddy \ {b} : truth'[c] = truth[c]
      /\ truth'[b] = [truth[b] EXCEPT !.friend = FALSE]
  BY <1>1, <1>2, <1>5
<1>7. /\ truth'[b] \in Person /\ truth'[b].sid = truth[b].sid /\ truth'[b].friend = FALSE
      /\ truth'[b].game = truth[b].game /\ truth'[b].said = truth[b].said
  BY <1>5, <1>6 DEF Person
<1>8. truth' \in [Buddy -> Person]
  BY <1>1, <1>2, <1>5, <1>6, <1>7
<1>12. \A c \in Buddy : truth'[c].sid = truth[c].sid /\ truth'[c].game = truth[c].game
                          /\ truth'[c].said = truth[c].said
  BY <1>6, <1>7
<1>9. /\ \A c \in Buddy : truth'[c].sid = truth[c].sid
      /\ \A c \in Buddy : truth'[c].sid = NoSid => truth'[c].game = 0 /\ truth'[c].said = "Online"
  BY <1>12, StateFacts
<1>10. changed' \subseteq Buddy /\ unheard \subseteq unheard' /\ unheard' \subseteq 0..MaxSid
  BY <1>1, <1>2, StateFacts
<1>11. ASSUME NEW c \in Buddy, connected, truth'[c].friend
       PROVE  Right(Append(wire, p), c, truth'[c], nodes[c], Heard(truth'[c], unheard'), c \notin changed')
  <2>1. c # b /\ truth'[c] = truth[c]
    BY <1>6, <1>7, <1>11
  <2>2. Right(Append(wire, p), c, truth[c], nodes[c], Heard(truth[c], unheard), Steady(c))
    BY <1>3, <1>4, <1>11, <2>1, OthersPass
  <2>3. Steady(c) = (c \notin changed')
    BY <1>1, <1>11, <2>1 DEF Steady
  <2>. QED BY <1>1, <2>1, <2>2, <2>3
<1>. QED BY <1>1, <1>3, <1>4, <1>8, <1>9, <1>10, <1>11, PacketStep

LEMMA WriteStep ==
  ASSUME IInv, NEW b \in OnlineFriends, Write(b)
  PROVE  IInv'
<1> DEFINE p == [kind |-> "im", from |-> b, sid |-> truth[b].sid]
<1>1. /\ truth' = truth /\ changed' = changed
      /\ Send(<<p>>) /\ lastSid' = lastSid /\ unheard' = unheard
  BY DEF Write
<1>2. b \in Buddy /\ truth[b].sid # NoSid
  BY DEF OnlineFriends, Friends
<1>3. truth[b].sid \in 1..MaxSid
  BY <1>2, SidFacts
<1>4. p \in Packet /\ p.kind = "im" /\ \A c, s : Writes(p, c, s) => c = b /\ s = truth[b].sid
  BY <1>2, <1>3 DEF Packet, Messages, Writes
<1>. HIDE DEF p
<1>5. /\ \A c : ~OnlineAbout(p, c) /\ ~Renews(p, c)
      /\ \A s : ~GameAbout(p, s) /\ ~WordAbout(p, s)
  BY <1>4, KindsSay
<1>6. changed' \subseteq Buddy /\ unheard \subseteq unheard' /\ unheard' \subseteq 0..MaxSid
  BY <1>1, StateFacts
<1>7. truth' \in [Buddy -> Person] /\ \A c \in Buddy : truth'[c].sid = truth[c].sid
  BY <1>1, StateFacts
<1>8. \A c \in Buddy : truth'[c].sid = NoSid => truth'[c].game = 0 /\ truth'[c].said = "Online"
  BY <1>1, StateFacts
<1>9. ASSUME NEW c \in Buddy, connected, truth'[c].friend
      PROVE  Right(Append(wire, p), c, truth'[c], nodes[c], Heard(truth'[c], unheard'), c \notin changed')
  <2>1. Right(Append(wire, p), c, truth[c], nodes[c], Heard(truth[c], unheard), Steady(c))
    BY <1>1, <1>4, <1>5, <1>9, OthersPass
  <2>2. Steady(c) = (c \notin changed')
    BY <1>1, <1>9 DEF Steady
  <2>. QED BY <1>1, <2>1, <2>2
<1>. QED BY <1>1, <1>4, <1>5, <1>6, <1>7, <1>8, <1>9, PacketStep

\* Of b's node nothing is asked until the server speaks of him.
LEMMA BefriendStep ==
  ASSUME IInv, NEW b \in Buddy, Befriend(b)
  PROVE  IInv'
<1> DEFINE p == NamesOf(<<b>>)
           o == OnlineOf(<<b>>, truth)
<1>1. /\ truth' = [truth EXCEPT ![b].friend = TRUE] /\ changed' = changed \union {b}
      /\ unheard' = unheard \union {truth[b].sid} /\ lastSid' = lastSid
      /\ Send(<<p>> \o IF truth[b].sid = NoSid THEN <<>> ELSE <<o>>)
  BY DEF Befriend
<1>2. truth \in [Buddy -> Person] /\ truth[b] \in Person /\ truth[b].sid \in 0..MaxSid
  BY StateFacts, PersonFacts
<1>3. {b} \in SUBSET Buddy /\ <<b>> \in Orders({b})
  <2>1. Cardinality({b}) = 1 /\ Len(<<b>>) = 1
    BY FS_Singleton
  <2>2. <<b>> \in [1..1 -> {b}]
    OBVIOUS
  <2>. QED BY <2>1, <2>2 DEF Orders
<1>4. p \in Packet /\ p.kind = "names" /\ \A c : Renews(p, c) <=> c = b
  BY <1>3, NamesMade
<1>5. /\ o \in Packet /\ o.kind = "online"
      /\ \A c, x : Speaks(o, c, x) <=> c = b /\ x = truth[b].sid
      /\ \A c : OnlineAbout(o, c) <=> c = b
  BY <1>2, <1>3, OnlineMade
<1>. HIDE DEF p, o
<1>6. /\ \A c : ~OnlineAbout(p, c) /\ ~Renews(o, c)
      /\ \A c, s : ~Speaks(p, c, s) /\ ~Writes(p, c, s) /\ ~Writes(o, c, s)
      /\ \A s : ~GameAbout(p, s) /\ ~WordAbout(p, s) /\ ~GameAbout(o, s) /\ ~WordAbout(o, s)
  BY <1>4, <1>5, KindsSay
<1>7. /\ \A c \in Buddy \ {b} : truth'[c] = truth[c]
      /\ truth'[b] = [truth[b] EXCEPT !.friend = TRUE]
  BY <1>1, <1>2
<1>8. /\ truth'[b] \in Person /\ truth'[b].sid = truth[b].sid
      /\ truth'[b].game = truth[b].game /\ truth'[b].said = truth[b].said
  BY <1>2, <1>7 DEF Person
<1>9. truth' \in [Buddy -> Person]
  BY <1>1, <1>2, <1>7, <1>8
<1>18. \A c \in Buddy : truth'[c].sid = truth[c].sid /\ truth'[c].game = truth[c].game
                          /\ truth'[c].said = truth[c].said
  BY <1>7, <1>8
<1>10. /\ \A c \in Buddy : truth'[c].sid = truth[c].sid
       /\ \A c \in Buddy : truth'[c].sid = NoSid => truth'[c].game = 0 /\ truth'[c].said = "Online"
  BY <1>18, StateFacts
<1>11. changed' \subseteq Buddy /\ unheard \subseteq unheard' /\ unheard' \subseteq 0..MaxSid
       /\ unheard' \subseteq unheard'
  BY <1>1, <1>2, StateFacts
<1>12. /\ UNCHANGED <<nodes, connected, logins, shown, parts>>
       /\ events' \in 0..MaxEvents /\ (~connected => wire' = <<>>)
       /\ wire' = IF connected THEN wire \o (<<p>> \o IF truth[b].sid = NoSid THEN <<>> ELSE <<o>>) ELSE wire
  BY <1>1, SendFacts
<1>13. /\ wire \in Seq(Packet) /\ WireSound(wire, truth, nodes, unheard, parts, lastSid)
       /\ lastSid \in Nat /\ lastSid \in 0..MaxSid /\ lastSid <= lastSid /\ lastSid <= lastSid'
       /\ lastSid' \in Nat /\ lastSid' \in 0..MaxSid
  <2>1. lastSid \in Nat /\ lastSid \in 0..MaxSid
    BY StateFacts
  <2>. QED BY <1>1, <2>1, StateFacts
<1>14. /\ \A c, d \in Buddy : truth[c].sid > lastSid /\ truth[c].sid = truth[d].sid => c = d
       /\ \A c, d \in Buddy : truth'[c].sid > lastSid /\ truth'[c].sid = truth'[d].sid => c = d
  BY <1>10, SidFacts
<1>15. \A c \in Buddy : \/ truth'[c].sid = truth[c].sid \/ truth'[c].sid = NoSid
                        \/ truth'[c].sid > lastSid /\ truth'[c].sid <= lastSid'
  BY <1>10
<1>16. CASE ~connected
  <2>1. wire' = wire
    BY <1>12, <1>16
  <2>2. WireSound(wire, truth', nodes, unheard', parts, lastSid')
    <3>1. /\ unheard \subseteq unheard' /\ lastSid \in Nat /\ lastSid' \in Nat /\ lastSid <= lastSid'
          /\ WireSound(wire, truth, nodes, unheard, parts, lastSid)
          /\ \A c, d \in Buddy : truth'[c].sid > lastSid /\ truth'[c].sid = truth'[d].sid => c = d
      BY <1>11, <1>13, <1>14
    <3>. QED BY ONLY <1>15, <3>1, WireStays
  <2>. QED BY <1>9, <1>10, <1>11, <1>12, <1>13, <1>16, <2>1, <2>2, ServerStep
<1>17. CASE connected
  <2> DEFINE v == Append(wire, p)
  <2>1. v \in Seq(Packet)
    BY <1>4, <1>13, Appended
  <2>2. wire' = IF truth[b].sid = NoSid THEN v ELSE Append(v, o)
    BY <1>4, <1>5, <1>12, <1>13, <1>17, WireShapes
  <2>3. wire' \in Seq(Packet)
    BY <1>5, <2>1, <2>2, Appended
  <2>4. WireSound(v, truth', nodes, unheard', parts, lastSid)
    <3>1. /\ \A c \in Buddy, s \in 1..MaxSid : Speaks(p, c, s) \/ Writes(p, c, s) => truth'[c].sid = s
          /\ \A s \in 1..MaxSid : GameAbout(p, s) \/ WordAbout(p, s) => s <= lastSid
          /\ \A c \in Buddy, s \in 1..MaxSid :
               s \notin unheard' /\ Speaks(p, c, s) => s > lastSid /\ parts[s] = 0
      BY <1>6
    <3>2. \A c \in Buddy : \/ truth'[c].sid = truth[c].sid \/ truth'[c].sid = NoSid
                           \/ truth'[c].sid > lastSid /\ truth'[c].sid <= lastSid
      BY <1>10
    <3>3. /\ unheard \subseteq unheard' /\ lastSid \in Nat /\ lastSid <= lastSid
          /\ WireSound(wire, truth, nodes, unheard, parts, lastSid)
          /\ \A c, d \in Buddy : truth'[c].sid > lastSid /\ truth'[c].sid = truth'[d].sid => c = d
          /\ p \in Packet /\ wire \in Seq(Packet)
      BY <1>4, <1>11, <1>13, <1>14
    <3>. QED BY ONLY <3>1, <3>2, <3>3, WireGrows
  <2>5. WireSound(Append(v, o), truth', nodes, unheard', parts, lastSid)
    <3>1. /\ \A c \in Buddy, s \in 1..MaxSid : Speaks(o, c, s) \/ Writes(o, c, s) => truth'[c].sid = s
          /\ \A s \in 1..MaxSid : GameAbout(o, s) \/ WordAbout(o, s) => s <= lastSid
          /\ \A c \in Buddy, s \in 1..MaxSid :
               s \notin unheard' /\ Speaks(o, c, s) => s > lastSid /\ parts[s] = 0
      BY <1>1, <1>5, <1>6, <1>10
    <3>2. \A c \in Buddy : \/ truth'[c].sid = truth'[c].sid \/ truth'[c].sid = NoSid
                           \/ truth'[c].sid > lastSid /\ truth'[c].sid <= lastSid
      OBVIOUS
    <3>. HIDE DEF v
    <3>. QED BY ONLY <1>5, <1>11, <1>13, <1>14, <2>1, <2>4, <3>1, <3>2, WireGrows
  <2>. HIDE DEF v
  <2>6. WireSound(wire', truth', nodes, unheard', parts, lastSid')
    BY <1>1, <2>2, <2>4, <2>5
  <2>7. ASSUME NEW c \in Buddy, truth'[c].friend
        PROVE  Right(wire', c, truth'[c], nodes[c], Heard(truth'[c], unheard'), c \notin changed')
    <3>1. CASE c = b
      <4>1. /\ Heard(truth'[c], unheard') = FALSE
            /\ (c \notin changed') = FALSE
        BY <1>1, <1>8, <3>1 DEF Heard
      <4>2. Right(v, b, truth'[b], nodes[b], FALSE, FALSE)
        BY <1>4, <1>13, Begins DEF v
      <4>3. Right(Append(v, o), b, truth'[b], nodes[b], FALSE, FALSE)
        <5>1. truth'[b].sid \in 0..MaxSid /\ \A s : Speaks(o, b, s) <=> s = truth'[b].sid
          BY <1>2, <1>5, <1>8
        <5>. QED BY <1>5, <2>1, <4>2, <5>1, Moves
      <4>. QED BY <2>2, <3>1, <4>1, <4>2, <4>3
    <3>2. CASE c # b
      <4>1. truth'[c] = truth[c] /\ Steady(c) = (c \notin changed')
        BY <1>1, <1>7, <1>17, <3>2 DEF Steady
      <4>2. Right(v, c, truth[c], nodes[c], Heard(truth[c], unheard), Steady(c))
        BY <1>4, <1>6, <1>17, <2>7, <3>2, <4>1, OthersPass DEF v
      <4>3. Right(Append(v, o), c, truth[c], nodes[c], Heard(truth[c], unheard), Steady(c))
        <5>1. /\ ~OnlineAbout(o, c) /\ ~Renews(o, c)
              /\ ~GameAbout(o, truth[c].sid) /\ ~WordAbout(o, truth[c].sid)
          BY <1>5, <1>6, <3>2
        <5>2. Heard(truth[c], unheard) \in BOOLEAN /\ Steady(c) \in BOOLEAN
          BY <2>7, <4>1, FriendFacts
        <5>. QED BY <1>5, <2>1, <4>2, <5>1, <5>2, Passes
      <4>4. Right(wire', c, truth[c], nodes[c], Heard(truth[c], unheard), Steady(c))
        BY <2>2, <4>2, <4>3
      <4>5. /\ Heard(truth[c], unheard') \in BOOLEAN /\ Heard(truth[c], unheard) \in BOOLEAN
            /\ Heard(truth[c], unheard') => Heard(truth[c], unheard)
            /\ Steady(c) \in BOOLEAN
        BY <1>11, <1>17, StateFacts DEF Heard, Steady
      <4>6. Right(wire', c, truth[c], nodes[c], Heard(truth[c], unheard'), Steady(c))
        BY <4>4, <4>5, Stays
      <4>. QED BY <4>1, <4>6
    <3>. QED BY <3>1, <3>2
  <2>. QED BY <1>9, <1>10, <1>11, <1>12, <1>13, <1>17, <2>3, <2>6, <2>7, ServerStep
<1>. QED BY <1>16, <1>17
-----------------------------------------------------------------------------
(* Our steps *)

\* The server tells us everything it knows: names, session ids, games, statuses.
LEMMA LoginStep ==
  ASSUME IInv, Login
  PROVE  IInv'
<1> DEFINE P == {b \in OnlineFriends : truth[b].game # 0}
           A == {b \in OnlineFriends : truth[b].said # "Online"}
           away == AnyOrder(A)
           p == NamesOf(AnyOrder(Friends))
           o == OnlineOf(AnyOrder(OnlineFriends), truth)
           r == GamesOf(AnyOrder(P), truth)
           a == StatusOf(away, truth)
           w2 == <<p, o>>
           w3 == Append(w2, r)
<1>1. /\ ~connected /\ logins < MaxLogins /\ connected' = TRUE /\ logins' = logins + 1
      /\ wire' = <<p, o, r>> \o IF away = <<>> THEN <<>> ELSE <<a>>
      /\ unheard' = {truth[away[k]].sid : k \in 2..Len(away)}
      /\ changed' = {} /\ parts' = [s \in 1..MaxSid |-> 0]
      /\ UNCHANGED <<nodes, server, shown>>
  BY DEF Login
<1>2. /\ Friends \in SUBSET Buddy /\ OnlineFriends \in SUBSET Buddy
      /\ P \in SUBSET Buddy /\ A \in SUBSET Buddy
      /\ \A b \in Buddy : (b \in Friends <=> truth[b].friend)
                          /\ (b \in OnlineFriends <=> truth[b].friend /\ truth[b].sid # NoSid)
      /\ \A b \in Buddy : b \in P <=> b \in OnlineFriends /\ truth[b].game # 0
      /\ \A b \in Buddy : b \in A <=> b \in OnlineFriends /\ truth[b].said # "Online"
      /\ \A b \in P : truth[b].sid # NoSid
      /\ \A b \in A : truth[b].sid # NoSid
  BY DEF OnlineFriends, Friends
<1>. HIDE DEF P, A
<1>3. /\ truth \in [Buddy -> Person] /\ \A b \in Buddy : truth[b] \in Person
      /\ \A b \in Buddy : nodes[b] \in Node /\ ~nodes[b].present
      /\ lastSid \in Nat /\ lastSid <= lastSid /\ MaxSid \in Nat
  <2>1. lastSid \in Nat
    BY StateFacts
  <2>. QED BY <1>1, <2>1, StateFacts
<1>4. p \in Packet /\ p.kind = "names" /\ \A b : Renews(p, b) <=> b \in Friends
  BY <1>2, AnyOrderIsOne, NamesMade
<1>5. /\ o \in Packet /\ o.kind = "online"
      /\ \A b, x : Speaks(o, b, x) <=> b \in OnlineFriends /\ x = truth[b].sid
  BY <1>2, <1>3, AnyOrderIsOne, OnlineMade
<1>6. /\ r \in Packet /\ r.kind = "games"
      /\ \A x, g : IsPlaying(r, x, g) <=> \E b \in P : x = truth[b].sid /\ g = truth[b].game
      /\ \A x : GameAbout(r, x) <=> \E b \in P : x = truth[b].sid
  <2>1. \A b, c \in P : truth[b].sid = truth[c].sid => b = c
    BY <1>2, SidFacts
  <2>. QED BY <1>2, <1>3, <2>1, AnyOrderIsOne, GamesMade
<1>7. away \in Orders(A)
  BY <1>2, AnyOrderIsOne
<1>. HIDE DEF away
<1>8. away # <<>> =>
        /\ a \in Packet /\ a.kind = "status" /\ away[1] \in A
        /\ \A x, m : IsSaying(a, x, m) <=> x = truth[away[1]].sid /\ m = truth[away[1]].said
        /\ \A x : WordAbout(a, x) <=> x = truth[away[1]].sid
  BY <1>2, <1>3, <1>7, StatusMade
<1>9. /\ Len(away) \in Nat
      /\ \A k \in 1..Len(away) : away[k] \in A
      /\ \A b \in A : \E k \in 1..Len(away) : away[k] = b
      /\ away = <<>> <=> A = {}
  BY <1>2, <1>7, OrderFacts
<1>. HIDE DEF p, o, r, a
<1>10. /\ \A b, s : ~Speaks(p, b, s) /\ ~Writes(p, b, s) /\ ~Writes(o, b, s)
       /\ \A s : ~GameAbout(p, s) /\ ~WordAbout(p, s) /\ ~GameAbout(o, s) /\ ~WordAbout(o, s)
       /\ \A s : ~WordAbout(r, s) /\ \A b : ~Speaks(r, b, s) /\ ~Writes(r, b, s)
       /\ \A b : ~OnlineAbout(r, b) /\ ~Renews(r, b)
  BY <1>4, <1>5, <1>6, KindsSay
<1>11. away # <<>> =>
         /\ \A s : ~GameAbout(a, s) /\ \A b : ~Speaks(a, b, s) /\ ~Writes(a, b, s)
         /\ \A b : ~OnlineAbout(a, b) /\ ~Renews(a, b)
  BY <1>8, KindsSay
<1>12. /\ w2 \in Seq(Packet) /\ 1..Len(w2) = 1..2 /\ w2[1] = p /\ w2[2] = o
       /\ \A q \in 1..2 : q = 1 \/ q = 2
  BY <1>4, <1>5
<1>13. w3 \in Seq(Packet)
  <2>. HIDE DEF w2
  <2>. QED BY <1>6, <1>12, Appended
<1>14. wire' = IF away = <<>> THEN w3 ELSE Append(w3, a)
  <2>1. CASE away = <<>>
    <3>1. <<p, o, r>> \o <<>> = Append(<<p, o>>, r)
      BY <1>4, <1>5, <1>6, WireShapes
    <3>. QED BY <1>1, <2>1, <3>1
  <2>2. CASE away # <<>>
    <3>1. <<p, o, r>> \o <<a>> = Append(Append(<<p, o>>, r), a)
      BY <1>4, <1>5, <1>6, <1>8, <2>2, WireShapes
    <3>. QED BY <1>1, <2>2, <3>1
  <2>. QED BY <2>1, <2>2
<1>. HIDE DEF w2, w3
<1>15. wire' \in Seq(Packet)
  BY <1>8, <1>13, <1>14, Appended
\* What the greeting claims is so.
<1>16. WireSound(w2, truth, nodes, unheard', parts', lastSid)
  <2>1. ASSUME NEW b \in Buddy, NEW s \in 1..MaxSid, Claims(w2, truth, nodes, b, s)
        PROVE  Claims(wire, truth, nodes, b, s)
    <3>1. truth[b].sid = s
      BY <1>3, <1>5, <1>10, <1>12, <2>1 DEF Claims
    <3>. QED BY <3>1 DEF Claims
  <2>2. Owned(wire, truth, nodes, lastSid)
    BY StateFacts DEF WireSound
  <2>3. Owned(w2, truth, nodes, lastSid)
    BY <2>1, <2>2 DEF Owned
  <2>4. Given(w2, lastSid)
    BY <1>10, <1>12 DEF Given
  <2>5. Announced(w2, nodes, unheard', parts')
    BY <1>1, <1>3, <1>5, <1>10, <1>12 DEF Announced
  <2>. QED BY <2>3, <2>4, <2>5 DEF WireSound
<1>17. /\ \A b \in Buddy : truth[b].sid <= lastSid
       /\ \A b, c \in Buddy : truth[b].sid # NoSid /\ truth[b].sid = truth[c].sid => b = c
       /\ \A b, c \in Buddy : truth[b].sid > lastSid /\ truth[b].sid = truth[c].sid => b = c
       /\ \A b \in Buddy : \/ truth[b].sid = truth[b].sid \/ truth[b].sid = NoSid
                           \/ truth[b].sid > lastSid /\ truth[b].sid <= lastSid
       /\ unheard' \subseteq unheard'
  BY SidFacts
<1>18. WireSound(w3, truth, nodes, unheard', parts', lastSid)
  <2>1. /\ \A b \in Buddy, s \in 1..MaxSid : Speaks(r, b, s) \/ Writes(r, b, s) => truth[b].sid = s
        /\ \A s \in 1..MaxSid : GameAbout(r, s) \/ WordAbout(r, s) => s <= lastSid
        /\ \A b \in Buddy, s \in 1..MaxSid :
             s \notin unheard' /\ Speaks(r, b, s) => s > lastSid /\ parts'[s] = 0
    <3>1. \A s : GameAbout(r, s) => s <= lastSid
      BY ONLY <1>2, <1>6, <1>17
    <3>. QED BY ONLY <1>10, <3>1
  <2>. QED BY ONLY <1>3, <1>6, <1>12, <1>16, <1>17, <2>1, WireGrows DEF w3
<1>19. WireSound(wire', truth, nodes, unheard', parts', lastSid)
  <2>1. CASE away = <<>>
    BY <1>14, <1>18, <2>1
  <2>2. CASE away # <<>>
    <3>1. /\ \A b \in Buddy, s \in 1..MaxSid : Speaks(a, b, s) \/ Writes(a, b, s) => truth[b].sid = s
          /\ \A s \in 1..MaxSid : GameAbout(a, s) \/ WordAbout(a, s) => s <= lastSid
          /\ \A b \in Buddy, s \in 1..MaxSid :
               s \notin unheard' /\ Speaks(a, b, s) => s > lastSid /\ parts'[s] = 0
      <4>1. \A s : WordAbout(a, s) => s <= lastSid
        BY ONLY <1>2, <1>8, <1>17, <2>2
      <4>. QED BY ONLY <1>11, <2>2, <4>1
    <3>2. a \in Packet
      BY <1>8, <2>2
    <3>3. WireSound(Append(w3, a), truth, nodes, unheard', parts', lastSid)
      BY ONLY <1>3, <1>13, <1>17, <1>18, <3>1, <3>2, WireGrows
    <3>. QED BY <1>14, <2>2, <3>3
  <2>. QED BY <2>1, <2>2
\* And what it says of each friend.
<1>20. ASSUME NEW b \in Buddy, truth[b].friend
       PROVE  Right(wire', b, truth[b], nodes[b], Heard(truth[b], unheard'), connected')
  <2> DEFINE x == [truth[b] EXCEPT !.game = 0, !.said = "Online"]
             y == [truth[b] EXCEPT !.said = "Online"]
  <2>1. /\ x.sid = truth[b].sid /\ x.game = 0 /\ x.said = "Online"
        /\ y.sid = truth[b].sid /\ y.game = truth[b].game /\ y.said = "Online"
    BY <1>3 DEF Person
  <2>2. truth[b].sid \in 0..MaxSid /\ Heard(truth[b], unheard') \in BOOLEAN /\ connected' \in BOOLEAN
    BY <1>1, <1>3, PersonFacts DEF Heard
  <2>. HIDE DEF x, y
  <2>3. Right(w2, b, x, nodes[b], Heard(truth[b], unheard'), connected')
    <3>1. Renews(p, b) /\ x.sid \in 0..MaxSid /\ ~nodes[b].present
      BY <1>2, <1>3, <1>4, <1>20, <2>1, <2>2
    <3>2. \A s : Speaks(o, b, s) <=> x.sid # NoSid /\ s = x.sid
      BY <1>2, <1>5, <1>20, <2>1
    <3>3. Heard(truth[b], unheard') => x.sid # NoSid /\ x.game = 0 /\ x.said = "Online"
      BY <2>1 DEF Heard
    <3>4. Right(w2, b, x, nodes[b], Heard(truth[b], unheard'), TRUE)
      BY <1>4, <1>5, <2>2, <3>1, <3>2, <3>3, Greeted DEF w2
    <3>. QED BY <1>1, <3>4
  <2>4. Right(w3, b, y, nodes[b], Heard(truth[b], unheard'), connected')
    <3>1. ASSUME Heard(truth[b], unheard')
          PROVE  IF GameAbout(r, x.sid) THEN IsPlaying(r, x.sid, y.game) ELSE y.game = x.game
      <4>1. truth[b].sid # NoSid /\ b \in OnlineFriends
        BY <1>2, <1>20, <3>1 DEF Heard
      <4>2. CASE GameAbout(r, x.sid)
        <5>1. b \in P
          BY <1>2, <1>6, <1>17, <2>1, <4>1, <4>2
        <5>. QED BY <1>6, <2>1, <4>2, <5>1
      <4>3. CASE ~GameAbout(r, x.sid)
        <5>1. b \notin P
          BY <1>6, <2>1, <4>3
        <5>. QED BY <1>2, <2>1, <4>1, <4>3, <5>1
      <4>. QED BY <4>2, <4>3
    <3>2. Heard(truth[b], unheard') =>
            /\ IF GameAbout(r, x.sid) THEN IsPlaying(r, x.sid, y.game) ELSE y.game = x.game
            /\ IF WordAbout(r, x.sid) THEN IsSaying(r, x.sid, y.said) ELSE y.said = x.said
      BY <1>10, <2>1, <3>1
    <3>3. ~OnlineAbout(r, b) /\ ~Renews(r, b) /\ y.sid = x.sid
      BY <1>10, <2>1
    <3>. QED BY ONLY <1>6, <1>12, <2>2, <2>3, <3>2, <3>3, Grows DEF w3
  <2>5. CASE away = <<>>
    <3>1. Heard(truth[b], unheard') => truth[b].game = y.game /\ truth[b].said = y.said
      BY <1>2, <1>9, <1>20, <2>1, <2>5 DEF Heard
    <3>3. truth[b].sid = y.sid
      BY <2>1
    <3>2. Right(w3, b, truth[b], nodes[b], Heard(truth[b], unheard'), connected')
      BY ONLY <2>2, <2>4, <3>1, <3>3, Stays
    <3>. QED BY <1>14, <2>5, <3>2
  <2>6. CASE away # <<>>
    <3>1. ASSUME Heard(truth[b], unheard')
          PROVE  IF WordAbout(a, y.sid) THEN IsSaying(a, y.sid, truth[b].said) ELSE truth[b].said = y.said
      <4>1. truth[b].sid # NoSid /\ b \in OnlineFriends /\ truth[b].sid \notin unheard'
        BY <1>2, <1>20, <3>1 DEF Heard
      <4>2. CASE WordAbout(a, y.sid)
        <5>1. b = away[1]
          BY <1>2, <1>8, <1>17, <2>1, <2>6, <4>1, <4>2
        <5>. QED BY <1>8, <2>1, <2>6, <4>2, <5>1
      <4>3. CASE ~WordAbout(a, y.sid)
        <5>1. b # away[1]
          BY <1>8, <2>1, <2>6, <4>3
        <5>2. b \notin A
          <6>1. ASSUME b \in A
                PROVE  FALSE
            <7>1. PICK k \in 1..Len(away) : away[k] = b
              BY <1>9, <6>1
            <7>2. k \in 2..Len(away)
              BY <1>9, <5>1, <7>1
            <7>. QED BY <1>1, <4>1, <7>1, <7>2
          <6>. QED BY <6>1
        <5>. QED BY <1>2, <2>1, <4>1, <4>3, <5>2
      <4>. QED BY <4>2, <4>3
    <3>2. Heard(truth[b], unheard') =>
            /\ IF GameAbout(a, y.sid) THEN IsPlaying(a, y.sid, truth[b].game) ELSE truth[b].game = y.game
            /\ IF WordAbout(a, y.sid) THEN IsSaying(a, y.sid, truth[b].said) ELSE truth[b].said = y.said
      BY <1>11, <2>1, <2>6, <3>1
    <3>3. ~OnlineAbout(a, b) /\ ~Renews(a, b) /\ truth[b].sid = y.sid /\ a \in Packet
      BY <1>8, <1>11, <2>1, <2>6
    <3>4. Right(Append(w3, a), b, truth[b], nodes[b], Heard(truth[b], unheard'), connected')
      BY ONLY <1>13, <2>2, <2>4, <3>2, <3>3, Grows
    <3>. QED BY <1>14, <2>6, <3>4
  <2>. QED BY <2>5, <2>6
<1>21. truth' = truth /\ nodes' = nodes /\ lastSid' = lastSid /\ events' = events /\ shown' = shown
  BY <1>1 DEF server
<1>22. unheard' \subseteq 0..MaxSid
  <2>1. \A k \in 2..Len(away) : k \in 1..Len(away)
    BY <1>9
  <2>2. \A k \in 2..Len(away) : truth[away[k]].sid \in 0..MaxSid
    BY <1>2, <1>3, <1>9, <2>1, PersonFacts
  <2>. QED BY <1>1, <2>2
<1>23. Typed'
  <2>1. logins' \in 0..MaxLogins
    BY <1>1, StateFacts
  <2>2. parts' \in [1..MaxSid -> Nat] /\ changed' \subseteq Buddy
    BY <1>1
  <2>3. \A b \in Buddy : ~nodes'[b].present
    BY <1>3, <1>21
  <2>. QED BY <1>1, <1>15, <1>21, <1>22, <2>1, <2>2, <2>3, StateFacts DEF Typed, TypeOK, Node, Person
<1>24. FriendsRight'
  <2>1. ASSUME NEW b \in Buddy, truth'[b].friend
        PROVE  Right(wire', b, truth'[b], nodes'[b], Heard(truth'[b], unheard'), connected' /\ b \notin changed')
    <3>1. (connected' /\ b \notin changed') = connected'
      BY <1>1
    <3>. QED BY <1>20, <1>21, <2>1, <3>1
  <2>. QED BY <2>1 DEF FriendsRight, Friends, Steady
<1>25. Unused'
  BY <1>1 DEF Unused
<1>26. WireSound(wire, truth, nodes, unheard, parts, lastSid)'
  BY <1>19, <1>21
<1>27. ShownAsSent'
  BY <1>21 DEF IInv, ShownAsSent
<1>28. CountsParts'
  BY <1>3, <1>21 DEF CountsParts, Listed
<1>. QED BY <1>23, <1>24, <1>25, <1>26, <1>27, <1>28 DEF IInv

LEMMA NobodyIsShown == Nobody.to = {}
BY ZenonT(30) DEF Nobody

LEMMA LogoutStep ==
  ASSUME IInv, Logout
  PROVE  IInv'
<1>1. /\ connected' = FALSE /\ wire' = <<>>
      /\ nodes' = [b \in Buddy |-> [nodes[b] EXCEPT !.present = FALSE]]
      /\ shown'.to = {}
      /\ logins' = logins /\ truth' = truth /\ lastSid' = lastSid /\ events' = events
      /\ changed' = changed /\ unheard' = unheard /\ parts' = parts
  BY NobodyIsShown DEF Logout, server
<1>2. \A b \in Buddy : nodes'[b] \in Node /\ ~nodes'[b].present
  BY <1>1, StateFacts DEF Node
<1>3. nodes' \in [Buddy -> Node]
  BY <1>1, <1>2
<1>4. wire' \in Seq(Packet)
  BY <1>1
<1>5. Typed'
  BY <1>1, <1>2, <1>3, <1>4, StateFacts DEF Typed, TypeOK, Node, Person
<1>6. FriendsRight'
  <2>1. ASSUME NEW b
        PROVE  Right(wire', b, truth'[b], nodes'[b], Heard(truth'[b], unheard'), connected' /\ b \notin changed')
    <3>1. (connected' /\ b \notin changed') = FALSE
      BY <1>1
    <3>. QED BY <1>1, <3>1, NothingOnWire
  <2>. QED BY <2>1 DEF FriendsRight, Friends, Steady
<1>7. Unused'
  BY <1>1 DEF Unused, IInv
<1>8. WireSound(wire', truth', nodes', unheard', parts', lastSid')
  <2>1. 1..Len(<<>>) = {}
    BY EmptySeq
  <2>2. \A b \in Buddy, s \in 1..MaxSid : Claims(<<>>, truth, nodes', b, s) => Claims(wire, truth, nodes, b, s)
    BY <1>2, <2>1 DEF Claims
  <2>3. Owned(wire, truth, nodes, lastSid)
    BY StateFacts DEF WireSound
  <2>4. Owned(<<>>, truth, nodes', lastSid)
    BY <2>2, <2>3 DEF Owned
  <2>. QED BY <1>1, <2>4, EmptyWire DEF WireSound
<1>9. ShownAsSent'
  BY <1>1 DEF ShownAsSent
<1>10. CountsParts'
  BY <1>2 DEF CountsParts, Listed
<1>. QED BY <1>5, <1>6, <1>7, <1>8, <1>9, <1>10 DEF IInv

LEMMA ReceiveStep ==
  ASSUME IInv, Receive
  PROVE  IInv'
<1> DEFINE p == wire[1]
           v == Tail(wire)
<1>1. /\ wire # <<>> /\ wire' = v /\ nodes' = Handled(nodes, Head(wire))
      /\ shown' = IF Head(wire).kind = "im"
                    THEN [from |-> Head(wire).from, to |-> Matching(nodes, Head(wire).sid)]
                    ELSE Nobody
      /\ changed' = changed \ SpokenOf(Head(wire), v)
      /\ connected' = connected /\ logins' = logins /\ truth' = truth /\ lastSid' = lastSid
      /\ events' = events /\ unheard' = unheard /\ parts' = parts
  BY DEF Receive, server
<1>2. wire \in Seq(Packet) /\ connected
  BY <1>1, StateFacts
<1>3. /\ v \in Seq(Packet) /\ p \in Packet /\ Head(wire) = p
      /\ Len(wire) \in Nat /\ Len(wire) > 0 /\ Len(v) = Len(wire) - 1
      /\ \A q \in 1..Len(v) : v[q] = wire[q + 1] /\ q + 1 \in 1..Len(wire)
  BY <1>1, <1>2, TailFacts
<1>4. 1 \in 1..Len(wire) /\ \A q \in 1..Len(v) : q + 1 # 1
  BY <1>3
<1>. HIDE DEF p, v
<1>5. nodes' = Handled(nodes, p) /\ changed' = changed \ SpokenOf(p, v)
  BY <1>1, <1>3
<1>6. \A b \in Buddy : nodes'[b] \in Node /\ Obeys(nodes[b], nodes'[b], p, b)
  <2>1. nodes \in [Buddy -> Node] /\ \A b \in Buddy : nodes[b].present => nodes[b].listed
    BY StateFacts
  <2>. QED BY <1>3, <1>5, <2>1, PacketHandled
<1>7. nodes' \in [Buddy -> Node]
  <2>1. nodes' = [b \in Buddy |-> nodes'[b]]
    BY <1>3, <1>5, HandledIsFunction, StateFacts
  <2>. QED BY <1>6, <2>1
<1>8. /\ \A b, s, r : Speaks(p, b, s) /\ Speaks(p, b, r) => s = r
      /\ \A b, s : Speaks(p, b, s) => s \in 0..MaxSid /\ OnlineAbout(p, b)
      /\ \A b, s : Writes(p, b, s) => b \in Buddy /\ s \in 1..MaxSid
  BY <1>3, SaysOne
\* A node shown online was so before, or is told of by the packet.
<1>9. ASSUME NEW b \in Buddy, nodes'[b].present
      PROVE  /\ nodes[b].listed /\ nodes'[b].listed /\ nodes'[b].sid \in 1..MaxSid
             /\ \/ nodes[b].present /\ nodes'[b].sid = nodes[b].sid /\ nodes'[b].imindex = nodes[b].imindex
                \/ Speaks(p, b, nodes'[b].sid) /\ nodes'[b].imindex = 0
  <2>1. Obeys(nodes[b], nodes'[b], p, b)
    BY <1>6
  <2>2. nodes[b].listed /\ nodes'[b].listed
    BY <1>9, <2>1 DEF Obeys
  <2>3. CASE OnlineAbout(p, b)
    <3>1. PICK s \in 0..MaxSid : Speaks(p, b, s)
      BY <2>3 DEF OnlineAbout
    <3>2. nodes'[b].sid = s /\ nodes'[b].imindex = 0 /\ s # NoSid
      BY <1>9, <2>1, <2>2, <3>1 DEF Obeys
    <3>3. s \in 1..MaxSid
      BY <3>1, <3>2, StateFacts DEF NoSid
    <3>. QED BY <2>2, <3>1, <3>2, <3>3
  <2>4. CASE ~OnlineAbout(p, b)
    <3>1. nodes[b].present /\ nodes'[b].sid = nodes[b].sid /\ nodes'[b].imindex = nodes[b].imindex
      BY <1>9, <2>1, <2>4 DEF Obeys
    <3>. QED BY <2>2, <3>1, StateFacts
  <2>. QED BY <2>3, <2>4
<1>10. changed' \subseteq Buddy /\ shown'.to \subseteq Buddy
  <2>1. p.kind = "im" => shown'.to = Matching(nodes, p.sid)
    BY <1>1, <1>3
  <2>2. p.kind # "im" => shown'.to = {}
    BY <1>1, <1>3, NobodyIsShown
  <2>3. Matching(nodes, p.sid) \subseteq Buddy
    BY DEF Matching
  <2>. QED BY <1>5, <2>1, <2>2, <2>3, StateFacts
<1>11. Typed'
  BY <1>1, <1>2, <1>3, <1>7, <1>9, <1>10, StateFacts DEF Typed, TypeOK, Node, Person
<1>12. FriendsRight'
  <2>. SUFFICES ASSUME NEW b \in Buddy, truth[b].friend
                PROVE  Right(v, b, truth[b], nodes'[b], Heard(truth[b], unheard), Steady(b)')
    BY <1>1 DEF FriendsRight, Friends
  <2>1. /\ Right(wire, b, truth[b], nodes[b], Heard(truth[b], unheard), Steady(b))
        /\ Heard(truth[b], unheard) \in BOOLEAN /\ Steady(b) \in BOOLEAN /\ Steady(b)' \in BOOLEAN
    BY <1>1, <1>2, FriendFacts DEF Steady
  <2>2. truth[b].sid \in 0..MaxSid /\ (Heard(truth[b], unheard) => truth[b].sid # NoSid)
    BY StateFacts, PersonFacts DEF Heard
  <2>3. Steady(b)' => Steady(b) \/ (/\ nodes[b].listed /\ OnlineAbout(wire[1], b)
                                   /\ \A q \in 1..Len(Tail(wire)) : ~Renews(Tail(wire)[q], b))
    <3>1. SUFFICES ASSUME Steady(b)', ~Steady(b)
                   PROVE  /\ nodes[b].listed /\ OnlineAbout(p, b)
                          /\ \A q \in 1..Len(v) : ~Renews(v[q], b)
      BY DEF p, v
    <3>2. b \in SpokenOf(p, v)
      BY <1>1, <1>5, <3>1 DEF Steady
    <3>3. /\ p.kind = "online" /\ nodes[b].listed /\ Told(p.items, b) # {}
          /\ \A q \in 1..Len(v) : ~Renews(v[q], b)
      BY <3>2 DEF SpokenOf, Listed
    <3>4. PICK k \in 1..Len(p.items) : p.items[k].id = b
      BY <3>3 DEF Told
    <3>5. p.items[k].sid \in 0..MaxSid
      BY <1>3, <3>3, <3>4, KindsDiffer, OnlineFacts
    <3>6. OnlineAbout(p, b)
      BY <3>3, <3>4, <3>5 DEF OnlineAbout, Speaks
    <3>. QED BY <3>3, <3>6
  <2>4. Obeys(nodes[b], nodes'[b], wire[1], b)
    BY <1>6 DEF p
  <2>5. Right(Tail(wire), b, truth[b], nodes'[b], Heard(truth[b], unheard), Steady(b)')
    BY ONLY <1>1, <1>2, <2>1, <2>2, <2>3, <2>4, Reads
  <2>. QED BY <2>5 DEF v
<1>13. Unused'
  BY <1>1 DEF Unused, IInv
<1>14. ASSUME NEW b \in Buddy, NEW s \in 1..MaxSid, Claims(v, truth, nodes', b, s)
       PROVE  Claims(wire, truth, nodes, b, s)
  BY <1>3, <1>4, <1>9, <1>14 DEF Claims, p
<1>15. WireSound(wire', truth', nodes', unheard', parts', lastSid')
  <2>1. Owned(wire, truth, nodes, lastSid) /\ Given(wire, lastSid) /\ Announced(wire, nodes, unheard, parts)
    BY StateFacts DEF WireSound
  <2>2. Owned(v, truth, nodes', lastSid)
    BY <1>14, <2>1 DEF Owned
  <2>3. Given(v, lastSid)
    BY <1>3, <2>1 DEF Given
  <2>4. Announced(v, nodes', unheard, parts)
    <3>. SUFFICES ASSUME NEW b \in Buddy, NEW s \in 1..MaxSid, NEW q \in 1..Len(v),
                         s \notin unheard, Speaks(v[q], b, s)
                  PROVE  /\ parts[s] = 0
                         /\ ~(nodes'[b].present /\ nodes'[b].sid = s)
                         /\ \A r \in 1..Len(v) : Speaks(v[r], b, s) => r = q
      BY DEF Announced
    <3>1. q + 1 \in 1..Len(wire) /\ Speaks(wire[q + 1], b, s)
      BY <1>3
    <3>2. /\ parts[s] = 0 /\ ~(nodes[b].present /\ nodes[b].sid = s)
          /\ \A r \in 1..Len(wire) : Speaks(wire[r], b, s) => r = q + 1
      BY <2>1, <3>1 DEF Announced
    <3>3. ~Speaks(p, b, s)
      BY <1>4, <3>2 DEF p
    <3>4. \A r \in 1..Len(v) : Speaks(v[r], b, s) => r + 1 = q + 1
      BY <1>3, <3>2
    <3>5. \A r \in 1..Len(v) : r + 1 = q + 1 => r = q
      BY <1>3
    <3>. QED BY <1>9, <3>2, <3>3, <3>4, <3>5
  <2>. QED BY <1>1, <2>2, <2>3, <2>4 DEF WireSound
<1>16. ShownAsSent'
  <2>1. CASE p.kind = "im"
    <3>1. shown'.from = p.from /\ shown'.to = Matching(nodes, p.sid)
      BY <1>1, <1>3, <2>1
    <3>2. Writes(p, p.from, p.sid)
      BY <2>1 DEF Writes
    <3>3. p.from \in Buddy /\ p.sid \in 1..MaxSid /\ Claims(wire, truth, nodes, p.from, p.sid)
      BY <1>4, <1>8, <3>2 DEF Claims, p
    <3>4. \A c \in Matching(nodes, p.sid) : c \in Buddy /\ Claims(wire, truth, nodes, c, p.sid)
      BY DEF Matching, Claims
    <3>5. \A c \in Buddy : Claims(wire, truth, nodes, c, p.sid) => p.from = c
      BY <3>3, StateFacts DEF WireSound, Owned
    <3>. QED BY <3>1, <3>4, <3>5 DEF ShownAsSent
  <2>2. CASE p.kind # "im"
    <3>1. shown'.to = {}
      BY <1>1, <1>3, <2>2, NobodyIsShown
    <3>. QED BY <3>1 DEF ShownAsSent
  <2>. QED BY <2>1, <2>2
<1>17. CountsParts'
  <2>. SUFFICES ASSUME NEW b \in Buddy, nodes'[b].present, nodes'[b].sid \notin unheard
                PROVE  nodes'[b].imindex = parts[nodes'[b].sid]
    BY <1>1 DEF CountsParts, Listed
  <2>1. CASE Speaks(p, b, nodes'[b].sid) /\ nodes'[b].imindex = 0
    <3>1. nodes'[b].sid \in 1..MaxSid
      BY <1>9
    <3>2. Announced(wire, nodes, unheard, parts)
      BY StateFacts DEF WireSound
    <3>3. parts[nodes'[b].sid] = 0
      BY <1>4, <2>1, <3>1, <3>2 DEF Announced, p
    <3>. QED BY <2>1, <3>3
  <2>2. CASE nodes[b].present /\ nodes'[b].sid = nodes[b].sid /\ nodes'[b].imindex = nodes[b].imindex
    BY <1>9, <2>2 DEF IInv, CountsParts, Listed
  <2>. QED BY <1>9, <2>1, <2>2
<1>. QED BY <1>11, <1>12, <1>13, <1>15, <1>16, <1>17 DEF IInv

LEMMA SendImStep ==
  ASSUME IInv, NEW b \in Buddy, NEW n \in 1..MaxParts, SendIm(b, n)
  PROVE  IInv'
<1> DEFINE s == nodes[b].sid
<1>1. /\ connected /\ nodes[b].present
      /\ nodes' = [nodes EXCEPT ![b].imindex = @ + n]
      /\ parts' = [parts EXCEPT ![s] = @ + n]
      /\ connected' = connected /\ logins' = logins /\ wire' = wire /\ truth' = truth
      /\ lastSid' = lastSid /\ events' = events
      /\ changed' = changed /\ unheard' = unheard /\ shown' = shown
  BY DEF SendIm, server
<1>2. /\ nodes \in [Buddy -> Node] /\ nodes[b] \in Node /\ parts \in [1..MaxSid -> Nat]
      /\ s \in 1..MaxSid /\ nodes[b].listed
  BY <1>1, StateFacts
<1>3. n \in Nat
  BY BuddiesAssumption
<1>4. /\ \A c \in Buddy \ {b} : nodes'[c] = nodes[c]
      /\ nodes'[b] = [nodes[b] EXCEPT !.imindex = @ + n]
  BY <1>1, <1>2
<1>5. /\ nodes'[b] \in Node /\ nodes'[b].listed = nodes[b].listed
      /\ nodes'[b].present = nodes[b].present /\ nodes'[b].sid = s
      /\ nodes'[b].game = nodes[b].game /\ nodes'[b].amessage = nodes[b].amessage
      /\ nodes'[b].imindex = nodes[b].imindex + n
  <2>1. nodes[b].imindex + n \in Nat
    BY <1>2, <1>3, NodeFacts
  <2>2. nodes'[b] = [nodes[b] EXCEPT !.imindex = nodes[b].imindex + n]
    BY <1>4
  <2>. QED BY ONLY <1>2, <2>1, <2>2 DEF Node, s
<1>. HIDE DEF s
<1>6. /\ nodes' \in [Buddy -> Node]
      /\ \A c \in Buddy : /\ nodes'[c].listed = nodes[c].listed /\ nodes'[c].present = nodes[c].present
                          /\ nodes'[c].sid = nodes[c].sid /\ nodes'[c].game = nodes[c].game
                          /\ nodes'[c].amessage = nodes[c].amessage
  BY <1>1, <1>2, <1>4, <1>5 DEF s
<1>7. /\ parts' \in [1..MaxSid -> Nat] /\ parts'[s] = parts[s] + n
      /\ \A r \in 1..MaxSid : r # s => parts'[r] = parts[r]
  BY <1>1, <1>2, <1>3
<1>8. /\ Claims(wire, truth, nodes, b, s)
      /\ Owned(wire, truth, nodes, lastSid) /\ Given(wire, lastSid) /\ Announced(wire, nodes, unheard, parts)
  BY <1>1, StateFacts DEF Claims, WireSound, s
<1>9. s <= lastSid /\ \A c \in Buddy : Claims(wire, truth, nodes, c, s) => b = c
  BY <1>2, <1>8 DEF Owned
<1>10. Typed'
  <2>1. \A c \in Buddy : nodes'[c].present => nodes'[c].listed /\ nodes'[c].sid \in 1..MaxSid /\ connected
    BY <1>6, StateFacts
  <2>. QED BY <1>1, <1>6, <1>7, <2>1, StateFacts DEF Typed, TypeOK, Node, Person
<1>11. FriendsRight'
  <2>. SUFFICES ASSUME NEW c \in Buddy, truth[c].friend
                PROVE  Right(wire, c, truth[c], nodes'[c], Heard(truth[c], unheard), Steady(c))
    BY <1>1 DEF FriendsRight, Friends, Steady
  <2>. QED BY <1>6, FriendFacts, Stays
<1>12. Unused'
  <2>. SUFFICES ASSUME NEW r \in 1..MaxSid, r > lastSid
                PROVE  parts'[r] = 0
    BY <1>1 DEF Unused
  <2>1. r # s
    BY <1>2, <1>9, StateFacts
  <2>. QED BY <1>7, <2>1 DEF Unused, IInv
<1>13. WireSound(wire', truth', nodes', unheard', parts', lastSid')
  <2>1. \A c \in Buddy, r \in 1..MaxSid : Claims(wire, truth, nodes', c, r) <=> Claims(wire, truth, nodes, c, r)
    BY <1>6 DEF Claims
  <2>2. Owned(wire, truth, nodes', lastSid)
    BY <1>8, <2>1 DEF Owned
  <2>3. Announced(wire, nodes', unheard, parts')
    <3>. SUFFICES ASSUME NEW c \in Buddy, NEW r \in 1..MaxSid, NEW q \in 1..Len(wire),
                         r \notin unheard, Speaks(wire[q], c, r)
                  PROVE  /\ parts'[r] = 0
                         /\ ~(nodes'[c].present /\ nodes'[c].sid = r)
                         /\ \A i \in 1..Len(wire) : Speaks(wire[i], c, r) => i = q
      BY DEF Announced
    <3>1. /\ parts[r] = 0 /\ ~(nodes[c].present /\ nodes[c].sid = r)
          /\ \A i \in 1..Len(wire) : Speaks(wire[i], c, r) => i = q
      BY <1>8 DEF Announced
    <3>2. r # s
      <4>1. ASSUME r = s
            PROVE  FALSE
        <5>1. Claims(wire, truth, nodes, c, s)
          BY <4>1 DEF Claims
        <5>2. b = c
          BY <1>9, <5>1
        <5>. QED BY <1>1, <3>1, <4>1, <5>2 DEF s
      <4>. QED BY <4>1
    <3>. QED BY <1>6, <1>7, <3>1, <3>2
  <2>. QED BY <1>1, <1>8, <2>2, <2>3 DEF WireSound
<1>14. ShownAsSent'
  BY <1>1 DEF ShownAsSent, IInv
<1>15. CountsParts'
  <2>. SUFFICES ASSUME NEW c \in Buddy, nodes[c].listed, nodes[c].present, nodes[c].sid \notin unheard
                PROVE  nodes'[c].imindex = parts'[nodes[c].sid]
    BY <1>1, <1>6 DEF CountsParts, Listed
  <2>1. nodes[c].imindex = parts[nodes[c].sid] /\ nodes[c].sid \in 1..MaxSid
    BY StateFacts DEF IInv, CountsParts, Listed
  <2>2. CASE c = b
    BY <1>5, <1>7, <2>1, <2>2 DEF s
  <2>3. CASE c # b
    <3>1. nodes[c].sid # s
      <4>1. nodes[c].sid = s => Claims(wire, truth, nodes, c, s)
        BY DEF Claims
      <4>. QED BY <1>9, <2>3, <4>1
    <3>. QED BY <1>4, <1>7, <2>1, <2>3, <3>1
  <2>. QED BY <2>2, <2>3
<1>. QED BY <1>10, <1>11, <1>12, <1>13, <1>14, <1>15 DEF IInv

LEMMA RemBuddyStep ==
  ASSUME IInv, NEW b \in Buddy, RemBuddy(b)
  PROVE  IInv'
<1>1. /\ nodes' = [nodes EXCEPT ![b] = NoNode] /\ changed' = changed \union {b}
      /\ connected' = connected /\ logins' = logins /\ wire' = wire /\ truth' = truth
      /\ lastSid' = lastSid /\ events' = events
      /\ unheard' = unheard /\ shown' = shown /\ parts' = parts
  BY DEF RemBuddy, server
<1>2. NoNode \in Node /\ NoNode.listed = FALSE /\ NoNode.present = FALSE
  <2>1. NullSid \in 0..NullSid
    BY BuddiesAssumption DEF NullSid
  <2>. QED BY <2>1 DEF NoNode, NewNode, Node
<1>3. /\ nodes' \in [Buddy -> Node] /\ nodes'[b] = NoNode
      /\ \A c \in Buddy \ {b} : nodes'[c] = nodes[c]
  BY <1>1, <1>2, StateFacts
<1>4. \A c \in Buddy : nodes'[c].present => nodes'[c] = nodes[c]
  BY <1>2, <1>3
<1>5. Typed'
  <2>1. changed' \subseteq Buddy
    BY <1>1, StateFacts
  <2>2. \A c \in Buddy : nodes'[c].present => nodes'[c].listed /\ nodes'[c].sid \in 1..MaxSid /\ connected
    BY <1>4, StateFacts
  <2>. QED BY <1>1, <1>3, <2>1, <2>2, StateFacts DEF Typed, TypeOK, Node, Person
<1>6. FriendsRight'
  <2>. SUFFICES ASSUME NEW c \in Buddy, truth[c].friend
                PROVE  Right(wire, c, truth[c], nodes'[c], Heard(truth[c], unheard), Steady(c)')
    BY <1>1 DEF FriendsRight, Friends
  <2>1. Steady(c)' \in BOOLEAN /\ (Steady(c)' => Steady(c) /\ nodes'[c] = nodes[c])
    BY <1>1, <1>3, StateFacts DEF Steady
  <2>. QED BY <2>1, FriendFacts, Stays
<1>7. Unused'
  BY <1>1 DEF Unused, IInv
<1>8. WireSound(wire', truth', nodes', unheard', parts', lastSid')
  <2>1. Owned(wire, truth, nodes, lastSid) /\ Given(wire, lastSid) /\ Announced(wire, nodes, unheard, parts)
    BY StateFacts DEF WireSound
  <2>2. \A c \in Buddy, r \in 1..MaxSid : Claims(wire, truth, nodes', c, r) => Claims(wire, truth, nodes, c, r)
    BY <1>4 DEF Claims
  <2>3. Owned(wire, truth, nodes', lastSid)
    BY <2>1, <2>2 DEF Owned
  <2>4. Announced(wire, nodes', unheard, parts)
    BY <1>4, <2>1 DEF Announced
  <2>. QED BY <1>1, <2>1, <2>3, <2>4 DEF WireSound
<1>9. ShownAsSent'
  BY <1>1 DEF ShownAsSent, IInv
<1>10. CountsParts'
  <2>. SUFFICES ASSUME NEW c \in Buddy, nodes'[c].listed, nodes'[c].present, nodes'[c].sid \notin unheard
                PROVE  nodes'[c].imindex = parts[nodes'[c].sid]
    BY <1>1 DEF CountsParts, Listed
  <2>. QED BY <1>4 DEF IInv, CountsParts, Listed
<1>. QED BY <1>5, <1>6, <1>7, <1>8, <1>9, <1>10 DEF IInv
-----------------------------------------------------------------------------
(* The theorems *)

LEMMA InitInv == Init => IInv
<1>. SUFFICES ASSUME Init
              PROVE  IInv
  OBVIOUS
<1>1. /\ nodes = [b \in Buddy |-> NoNode]
      /\ connected = FALSE /\ logins = 0 /\ wire = <<>>
      /\ lastSid = 0 /\ events = 0 /\ changed = {} /\ unheard = {}
      /\ shown.to = {} /\ parts = [s \in 1..MaxSid |-> 0]
  BY NobodyIsShown DEF Init
<1>2. PICK friends \in SUBSET Buddy : truth = [b \in Buddy |-> [Unknown EXCEPT !.friend = b \in friends]]
  BY DEF Init
<1>3. MaxSid \in Nat /\ MaxLogins \in Nat /\ MaxEvents \in Nat /\ "Online" \in Statuses
  BY BuddiesAssumption
<1>4. \A b \in Buddy : /\ truth[b] \in Person /\ truth[b].sid = NoSid /\ truth[b].game = 0
                       /\ truth[b].said = "Online"
  <2>1. ASSUME NEW b \in Buddy
        PROVE  /\ truth[b] \in Person /\ truth[b].sid = NoSid /\ truth[b].game = 0
               /\ truth[b].said = "Online"
    <3>1. truth[b] = [friend |-> b \in friends, sid |-> 0, said |-> "Online", game |-> 0]
      BY <1>2 DEF Unknown, NoSid
    <3>2. (b \in friends) \in BOOLEAN
      OBVIOUS
    <3>. QED BY <1>3, <3>1, <3>2 DEF Person, NoSid
  <2>. QED BY <2>1
<1>5. NoNode \in Node /\ NoNode.present = FALSE
  <2>1. NullSid \in 0..NullSid
    BY <1>3 DEF NullSid
  <2>. QED BY <2>1 DEF NoNode, NewNode, Node
<1>6. /\ nodes \in [Buddy -> Node] /\ \A b \in Buddy : ~nodes[b].present
      /\ truth \in [Buddy -> Person] /\ wire \in Seq(Packet)
  BY <1>1, <1>2, <1>4, <1>5
<1>7. Typed
  <2>1. 0 \in 0..MaxSid /\ 0 \in 0..MaxLogins /\ 0 \in 0..MaxEvents
    BY <1>3
  <2>. QED BY <1>1, <1>4, <1>6, <2>1 DEF Typed, TypeOK, Node, Person
<1>8. FriendsRight
  <2>1. ASSUME NEW b
        PROVE  Right(wire, b, truth[b], nodes[b], Heard(truth[b], unheard), Steady(b))
    <3>1. Steady(b) = FALSE
      BY <1>1 DEF Steady
    <3>. QED BY <1>1, <3>1, NothingOnWire
  <2>. QED BY <2>1 DEF FriendsRight
<1>9. Unused
  BY <1>1 DEF Unused
<1>10. WireSound(wire, truth, nodes, unheard, parts, lastSid)
  <2>1. 1..Len(wire) = {}
    BY <1>1, EmptySeq
  <2>2. \A b \in Buddy, s \in 1..MaxSid : ~Claims(wire, truth, nodes, b, s)
    BY <1>3, <1>4, <1>6, <2>1 DEF Claims, NoSid
  <2>3. Owned(wire, truth, nodes, lastSid)
    BY <2>2 DEF Owned
  <2>. QED BY <1>1, <2>3, EmptyWire DEF WireSound
<1>11. ShownAsSent
  BY <1>1 DEF ShownAsSent
<1>12. CountsParts
  BY <1>6 DEF CountsParts, Listed
<1>. QED BY <1>7, <1>8, <1>9, <1>10, <1>11, <1>12 DEF IInv

LEMMA StutterStep ==
  ASSUME IInv, UNCHANGED vars
  PROVE  IInv'
BY DEF IInv, vars, server, ghosts, Typed, TypeOK, FriendsRight, Friends, Heard, Steady, Unused,
       ShownAsSent, CountsParts, Listed

LEMMA StepInv == IInv /\ [Next]_vars => IInv'
<1>. SUFFICES ASSUME IInv, [Next]_vars
              PROVE  IInv'
  OBVIOUS
<1>1. ASSUME NEW S \in SUBSET Buddy, NEW order \in Orders(S), Move(order)
      PROVE  IInv'
  BY <1>1, MoveStep
<1>2. ASSUME NEW S \in SUBSET OnlineFriends, NEW order \in Orders(S), NEW msg \in Statuses,
             S # {}, Say(order, msg)
      PROVE  IInv'
  BY <1>2, SayStep
<1>3. ASSUME NEW S \in SUBSET OnlineFriends, NEW order \in Orders(S), NEW g \in {0} \union Games,
             Play(order, g)
      PROVE  IInv'
  BY <1>3, PlayStep
<1>4. ASSUME NEW b \in Buddy \ Friends, Befriend(b)
      PROVE  IInv'
  BY <1>4, BefriendStep
<1>5. ASSUME NEW b \in Friends, Unfriend(b)
      PROVE  IInv'
  BY <1>5, UnfriendStep
<1>6. ASSUME NEW b \in OnlineFriends, Write(b)
      PROVE  IInv'
  BY <1>6, WriteStep
<1>7. CASE Login
  BY <1>7, LoginStep
<1>8. CASE Logout
  BY <1>8, LogoutStep
<1>9. CASE Receive
  BY <1>9, ReceiveStep
<1>10. ASSUME NEW b \in Buddy, NEW n \in 1..MaxParts, SendIm(b, n)
       PROVE  IInv'
  BY <1>10, SendImStep
<1>11. ASSUME NEW b \in Buddy, RemBuddy(b)
       PROVE  IInv'
  BY <1>11, RemBuddyStep
<1>12. CASE UNCHANGED vars
  BY <1>12, StutterStep
<1>. QED BY <1>1, <1>2, <1>3, <1>4, <1>5, <1>6, <1>7, <1>8, <1>9, <1>10, <1>11, <1>12 DEF Next

\* Nothing is to come: the last word has been handled.
LEMMA InvMirrors == IInv => Mirrors
<1>. SUFFICES ASSUME IInv, connected, wire = <<>>, NEW b \in Buddy, truth[b].friend, b \notin changed
              PROVE  /\ nodes[b].listed
                     /\ nodes[b].present <=> truth[b].sid # NoSid
                     /\ nodes[b].present => nodes[b].sid = truth[b].sid
                     /\ truth[b].sid \notin unheard =>
                          /\ truth[b].game # 0 => nodes[b].game = truth[b].game
                          /\ truth[b].said # "Online" => nodes[b].amessage = Away(truth[b].said)
  BY DEF Mirrors, Friends
<1>1. Right(wire, b, truth[b], nodes[b], Heard(truth[b], unheard), Steady(b)) /\ Steady(b)
  BY FriendFacts DEF Steady
<1>2. 1..Len(wire) = {}
  BY EmptySeq
<1>3. Settled(wire, b, truth[b], nodes[b])
  BY <1>1 DEF Right
<1>4. /\ nodes[b].listed
      /\ nodes[b].present <=> truth[b].sid # NoSid
      /\ nodes[b].present => nodes[b].sid = truth[b].sid
  BY <1>2, <1>3 DEF Settled
<1>5. ASSUME truth[b].sid \notin unheard
      PROVE  /\ truth[b].game # 0 => nodes[b].game = truth[b].game
             /\ truth[b].said # "Online" => nodes[b].amessage = Away(truth[b].said)
  <2>1. CASE truth[b].sid = NoSid
    BY <2>1, StateFacts
  <2>2. CASE truth[b].sid # NoSid
    <3>1. Kept(wire, b, truth[b], nodes[b])
      BY <1>1, <1>5, <2>2 DEF Right, Heard
    <3>. QED BY <1>2, <3>1 DEF Kept, Coming, NoGame, NoWord
  <2>. QED BY <2>1, <2>2
<1>. QED BY <1>4, <1>5

\* The inductive invariant holds throughout.
LEMMA SpecInv == Spec => []IInv
BY InitInv, StepInv, PTL DEF Spec

(* The nodes, the packets on the wire and the server's side keep their types; *)
(* a node is shown online only while we are connected, with a session id that  *)
(* was given.                                                                  *)
THEOREM TypeCorrect == Spec => []TypeOK
<1>1. IInv => TypeOK
  BY DEF IInv, Typed
<1>. QED BY <1>1, SpecInv, PTL

(* Once all packets are handled, every friend has a node that shows him as the *)
(* server knows him: what buddy_list_names, buddies_online, the status and the *)
(* game handler leave in the settings is the last word, though a node outlives *)
(* log-ins and session ids.                                                    *)
THEOREM NodesMirror == Spec => []Mirrors
BY SpecInv, InvMirrors, PTL

(* A message is shown as coming from its sender or not at all: no two nodes,   *)
(* and no packet still on the wire, ever lay claim to one session id.          *)
THEOREM MessagesShownAsSent == Spec => []ShownAsSent
<1>1. IInv => ShownAsSent
  BY DEF IInv
<1>. QED BY <1>1, SpecInv, PTL

(* The counter of a node is the number of parts sent to its session id since   *)
(* we logged in: no packet announces a session id to a node that counts for it *)
(* already.                                                                    *)
THEOREM PartsCounted == Spec => []CountsParts
<1>1. IInv => CountsParts
  BY DEF IInv
<1>. QED BY <1>1, SpecInv, PTL
=============================================================================
