------------------------- MODULE GatewayUserProofs -------------------------
(***************************************************************************)
(* What holds between a gateway user, his XFire client and its threads for *)
(* any buddies, any resources and any bounds on stanzas and packets: when  *)
(* a pointer can be wild, what Jabber is left believing, and that nobody   *)
(* is lost between the buddy list and the roster.                          *)
(***************************************************************************)
EXTENDS GatewayUser, SequenceFacts, FiniteSetTheorems

-----------------------------------------------------------------------------
(* Packets *)

Unnamed == ""   \* what the server gives as the name of a buddy it removes
OtherLoginPacket == [kind |-> "otherlogin"]
Removed(b, n) == [kind |-> "removed", id |-> UserId[b], name |-> n]
Message(b) == [kind |-> "message", sid |-> UserId[b]]
Online(b, s) == [kind |-> "online", items |-> <<[id |-> UserId[b], sid |-> s]>>]
Games(b) == [kind |-> "games", items |-> <<[sid |-> UserId[b], game |-> 0]>>]
NamesOf(t) ==
  [kind |-> "names",
   items |-> [k \in 1..Len(t) |-> [name |-> t[k], id |-> UserId[t[k]], nick |-> t[k]]]]

\* What the server sends, and what the buddy list hands on to the User: the
\* same, but for the name it wrote into the packet about a buddy it removed.
Sendable ==
  {OtherLoginPacket} \union {Removed(b, Unnamed) : b \in Buddy} \union {Message(b) : b \in Buddy}
    \union {Games(b) : b \in Buddy}
    \union {Online(b, NoSid) : b \in Buddy} \union {Online(b, UserId[b]) : b \in Buddy}
    \union {NamesOf(t) : t \in Seq(Buddy)}
Handed == Sendable \union {Removed(b, b) : b \in Buddy}

LEMMA Ids ==
  /\ \A b \in Buddy : UserId[b] \in Nat /\ UserId[b] # NoSid
  /\ \A b, c \in Buddy : UserId[b] = UserId[c] => b = c
BY GatewayUserAssumption DEF NoSid

LEMMA SendableCases ==
  ASSUME NEW p \in Sendable
  PROVE  \/ p = OtherLoginPacket
         \/ \E b \in Buddy : p = Removed(b, Unnamed)
         \/ \E b \in Buddy : p = Message(b)
         \/ \E b \in Buddy : p = Games(b)
         \/ \E b \in Buddy : p = Online(b, NoSid)
         \/ \E b \in Buddy : p = Online(b, UserId[b])
         \/ \E t \in Seq(Buddy) : p = NamesOf(t)
BY DEF Sendable

LEMMA HandedCases ==
  ASSUME NEW p \in Handed
  PROVE  \/ p = OtherLoginPacket
         \/ \E b \in Buddy : p = Removed(b, Unnamed)
         \/ \E b \in Buddy : p = Removed(b, b)
         \/ \E b \in Buddy : p = Message(b)
         \/ \E b \in Buddy : p = Games(b)
         \/ \E b \in Buddy : p = Online(b, NoSid)
         \/ \E b \in Buddy : p = Online(b, UserId[b])
         \/ \E t \in Seq(Buddy) : p = NamesOf(t)
BY DEF Handed, Sendable

\* The kind of a packet, and the buddies it is about.
LEMMA PacketKinds ==
  /\ OtherLoginPacket.kind = "otherlogin"
  /\ \A b, n : Removed(b, n).kind = "removed" /\ Removed(b, n).id = UserId[b] /\ Removed(b, n).name = n
  /\ \A b : Message(b).kind = "message" /\ Message(b).sid = UserId[b]
  /\ \A b : /\ Games(b).kind = "games" /\ Len(Games(b).items) = 1
            /\ Games(b).items[1].sid = UserId[b] /\ Games(b).items[1].game = 0
  /\ \A b, s : /\ Online(b, s).kind = "online" /\ Len(Online(b, s).items) = 1
               /\ Online(b, s).items[1].id = UserId[b] /\ Online(b, s).items[1].sid = s
  /\ \A t : NamesOf(t).kind = "names"
  /\ NoPacket.kind = "none"
BY DEF OtherLoginPacket, Removed, Message, Games, Online, NamesOf, NoPacket

LEMMA SendableKinds ==
  ASSUME NEW p \in Sendable
  PROVE  \/ p.kind = "otherlogin" /\ p = OtherLoginPacket
         \/ p.kind = "removed" /\ \E b \in Buddy : p = Removed(b, Unnamed)
         \/ p.kind = "message" /\ \E b \in Buddy : p = Message(b)
         \/ p.kind = "games" /\ \E b \in Buddy : p = Games(b)
         \/ p.kind = "online" /\ \E b \in Buddy : p = Online(b, NoSid) \/ p = Online(b, UserId[b])
         \/ p.kind = "names" /\ \E t \in Seq(Buddy) : p = NamesOf(t)
<1>1. CASE p = OtherLoginPacket
  BY <1>1, PacketKinds
<1>2. ASSUME NEW b \in Buddy, p = Removed(b, Unnamed)
      PROVE  p.kind = "removed"
  BY <1>2, PacketKinds
<1>3. ASSUME NEW b \in Buddy, p = Message(b)
      PROVE  p.kind = "message"
  BY <1>3, PacketKinds
<1>4. ASSUME NEW b \in Buddy, NEW s, p = Online(b, s)
      PROVE  p.kind = "online"
  BY <1>4, PacketKinds
<1>5. ASSUME NEW t \in Seq(Buddy), p = NamesOf(t)
      PROVE  p.kind = "names"
  BY <1>5, PacketKinds
<1>6. ASSUME NEW b \in Buddy, p = Games(b)
      PROVE  p.kind = "games"
  BY <1>6, PacketKinds
<1>. QED BY <1>1, <1>2, <1>3, <1>4, <1>5, <1>6, SendableCases

LEMMA HandedKinds ==
  ASSUME NEW p \in Handed
  PROVE  p \in Sendable \/ (p.kind = "removed" /\ \E b \in Buddy : p = Removed(b, b))
BY PacketKinds DEF Handed

LEMMA PacketsAreAbout ==
  /\ About(OtherLoginPacket) = {} /\ About(NoPacket) = {}
  /\ \A b \in Buddy : \A n : About(Removed(b, n)) = {b}
  /\ \A b \in Buddy : About(Message(b)) = {b}
  /\ \A b \in Buddy : About(Games(b)) = {b}
  /\ \A b \in Buddy : \A s : About(Online(b, s)) = {b}
BY PacketKinds, Ids DEF About

-----------------------------------------------------------------------------
(* The buddy list: its rows, and the buddies it has and shows online. *)

Rows ==
  {r \in [ username : Buddy, userid : Nat, nick : Buddy, sid : Nat,
           statusmsg : {NoText}, game : {0}, game2 : {0} ] :
     r.userid = UserId[r.username] /\ r.sid \in {NoSid, r.userid}}

Distinct(es) == \A i, k \in 1..Len(es) : i # k => es[i].username # es[k].username
Has(es) == {b \in Buddy : \E i \in 1..Len(es) : es[i].username = b}
On(es) == {b \in Buddy : \E i \in 1..Len(es) : es[i].username = b /\ IsOnline(es[i])}
View(es) == [has |-> Has(es), on |-> On(es)]
Listed(t) == {b \in Buddy : Contains(t, b)}

LEMMA RowsFacts ==
  /\ \A r \in Rows : r.username \in Buddy /\ r.userid = UserId[r.username] /\ r.sid \in {NoSid, r.userid}
  /\ \A r \in Rows : \A s \in {NoSid, r.userid} :
       /\ [r EXCEPT !.sid = s] \in Rows
       /\ [r EXCEPT !.sid = s].username = r.username
       /\ [r EXCEPT !.sid = s].userid = r.userid
       /\ [r EXCEPT !.sid = s].sid = s
  /\ \A b \in Buddy : /\ NewEntry(b, UserId[b], b) \in Rows
                      /\ NewEntry(b, UserId[b], b).username = b
                      /\ NewEntry(b, UserId[b], b).sid = NoSid
<1>1. \A r \in Rows : r.username \in Buddy /\ r.userid = UserId[r.username] /\ r.sid \in {NoSid, r.userid}
  BY DEF Rows
<1>2. ASSUME NEW r \in Rows, NEW s \in {NoSid, r.userid}
      PROVE  /\ [r EXCEPT !.sid = s] \in Rows
             /\ [r EXCEPT !.sid = s].username = r.username
             /\ [r EXCEPT !.sid = s].userid = r.userid
             /\ [r EXCEPT !.sid = s].sid = s
  <2> DEFINE R == [ username : Buddy, userid : Nat, nick : Buddy, sid : Nat,
                    statusmsg : {NoText}, game : {0}, game2 : {0} ]
             q == [r EXCEPT !.sid = s]
  <2>1. r \in R /\ r.userid = UserId[r.username] /\ r.userid \in Nat /\ s \in Nat
    <3>1. r \in R /\ r.userid = UserId[r.username]
      BY DEF Rows
    <3>2. r.userid \in Nat
      BY <3>1
    <3>. HIDE DEF R
    <3>. QED BY <3>1, <3>2 DEF NoSid
  <2>2. q \in R /\ q.username = r.username /\ q.userid = r.userid /\ q.sid = s
    BY <2>1
  <2>. HIDE DEF q, R
  <2>3. q \in Rows
    BY <2>1, <2>2 DEF Rows, R
  <2>. QED BY <2>2, <2>3 DEF q
<1>3. ASSUME NEW b \in Buddy
      PROVE  /\ NewEntry(b, UserId[b], b) \in Rows
             /\ NewEntry(b, UserId[b], b).username = b
             /\ NewEntry(b, UserId[b], b).sid = NoSid
  BY <1>3, Ids DEF NewEntry, Rows, NoSid
<1>. QED BY <1>1, <1>2, <1>3

LEMMA IndexByIdFacts ==
  ASSUME NEW es, NEW id
  PROVE  \/ /\ IndexById(es, id) = 0
            /\ \A i \in 1..Len(es) : es[i].userid # id
         \/ /\ IndexById(es, id) \in 1..Len(es)
            /\ es[IndexById(es, id)].userid = id
<1> DEFINE I == {i \in 1..Len(es) : es[i].userid = id}
<1>1. IndexById(es, id) = IF I # {} THEN Min(I) ELSE 0
  BY DEF IndexById, SelectInSeq
<1>2. I \in SUBSET Nat
  OBVIOUS
<1>3. I # {} => Min(I) \in I
  BY <1>2, LeastOfNat
<1>. QED BY <1>1, <1>3

LEMMA IndexByNameFacts ==
  ASSUME NEW es, NEW name
  PROVE  \/ /\ IndexByName(es, name) = 0
            /\ \A i \in 1..Len(es) : es[i].username # name
         \/ /\ IndexByName(es, name) \in 1..Len(es)
            /\ es[IndexByName(es, name)].username = name
<1> DEFINE I == {i \in 1..Len(es) : es[i].username = name}
<1>1. IndexByName(es, name) = IF I # {} THEN Min(I) ELSE 0
  BY DEF IndexByName, SelectInSeq
<1>2. I \in SUBSET Nat
  OBVIOUS
<1>3. I # {} => Min(I) \in I
  BY <1>2, LeastOfNat
<1>. QED BY <1>1, <1>3

LEMMA IndexBySidFacts ==
  ASSUME NEW es, NEW sid
  PROVE  /\ IndexBySid(es, sid) = 0 => \A i \in 1..Len(es) : es[i].sid # sid
         /\ IndexBySid(es, sid) # 0 =>
              IndexBySid(es, sid) \in 1..Len(es) /\ es[IndexBySid(es, sid)].sid = sid
<1> DEFINE I == {i \in 1..Len(es) : es[i].sid = sid}
<1>1. IndexBySid(es, sid) = IF I # {} THEN Min(I) ELSE 0
  BY DEF IndexBySid, SelectInSeq
<1>2. I \in SUBSET Nat
  OBVIOUS
<1>3. I # {} => Min(I) \in I
  BY <1>2, LeastOfNat
<1>. QED BY <1>1, <1>3

-----------------------------------------------------------------------------
(* What a packet does to the buddy list. *)

LEMMA NamesEffect ==
  ASSUME NEW es \in Seq(Rows), NEW t \in Seq(Buddy), NEW new \in Results(es, NamesOf(t))
  PROVE  /\ new \in Seq(Rows)
         /\ Has(new) = Has(es) \union Listed(t)
         /\ On(new) = On(es)
         /\ Distinct(es) /\ (\A i, k \in 1..Len(t) : i # k => t[i] # t[k])
              /\ Has(es) \intersect Listed(t) = {} => Distinct(new)
<1> DEFINE g == [k \in 1..Len(t) |-> NewEntry(t[k], UserId[t[k]], t[k])]
<1>1. Len(t) \in Nat /\ Len(es) \in Nat /\ \A k \in 1..Len(t) : t[k] \in Buddy
  BY LenProperties, ElementOfSeq
<1>2. new = es \o g
  <2> DEFINE it == NamesOf(t).items
  <2>1. new = InitEntries(es, it)
    BY PacketKinds DEF Results
  <2>2. it = [k \in 1..Len(t) |-> [name |-> t[k], id |-> UserId[t[k]], nick |-> t[k]]]
    BY DEF NamesOf
  <2>. HIDE DEF it
  <2>3. Len(it) = Len(t)
    BY <1>1, <2>2, FunctionIsSeq
  <2>4. \A k \in 1..Len(t) : it[k].name = t[k] /\ it[k].id = UserId[t[k]] /\ it[k].nick = t[k]
    BY <2>2
  <2>5. [k \in 1..Len(it) |-> NewEntry(it[k].name, it[k].id, it[k].nick)] = g
    BY <2>3, <2>4
  <2>. QED BY <2>1, <2>5 DEF InitEntries
<1>3. /\ g \in [1..Len(t) -> Rows]
      /\ \A k \in 1..Len(t) : g[k].username = t[k] /\ ~IsOnline(g[k])
  BY <1>1, RowsFacts DEF IsOnline
<1>4. g \in Seq(Rows) /\ Len(g) = Len(t)
  BY <1>1, <1>3, FunctionIsSeq
<1>. HIDE DEF g
<1>5. /\ new \in Seq(Rows)
      /\ Len(new) = Len(es) + Len(t)
      /\ \A i \in 1..Len(es) : new[i] = es[i]
      /\ \A i \in 1..Len(t) : new[Len(es) + i] = g[i]
  <2>1. /\ new \in Seq(Rows) /\ Len(new) = Len(es) + Len(g)
        /\ \A i \in 1..(Len(es) + Len(g)) : new[i] = IF i <= Len(es) THEN es[i] ELSE g[i - Len(es)]
    <3>1. es \in Seq(Rows) /\ g \in Seq(Rows)
      BY <1>4
    <3>2. /\ es \o g \in Seq(Rows) /\ Len(es \o g) = Len(es) + Len(g)
          /\ \A i \in 1..(Len(es) + Len(g)) :
               (es \o g)[i] = IF i <= Len(es) THEN es[i] ELSE g[i - Len(es)]
      BY ONLY <3>1, ConcatProperties
    <3>. QED BY ONLY <1>2, <3>2
  <2>2. /\ \A i \in 1..Len(es) : i \in 1..(Len(es) + Len(t)) /\ i <= Len(es)
        /\ \A i \in 1..Len(t) : /\ Len(es) + i \in 1..(Len(es) + Len(t))
                                /\ ~(Len(es) + i <= Len(es)) /\ (Len(es) + i) - Len(es) = i
    BY <1>1
  <2>. QED BY ONLY <1>4, <2>1, <2>2
<1>6. \A i \in 1..Len(new) : i \in 1..Len(es) \/ \E k \in 1..Len(t) : i = Len(es) + k
  <2>. TAKE i \in 1..Len(new)
  <2>1. CASE i > Len(es)
    <3>1. i - Len(es) \in 1..Len(t) /\ i = Len(es) + (i - Len(es))
      BY <1>1, <1>5, <2>1
    <3>. QED BY <3>1
  <2>. QED BY <1>1, <1>5, <2>1
<1>7. \A i \in 1..Len(es) : i \in 1..Len(new)
  BY <1>1, <1>5
<1>8. \A k \in 1..Len(t) : Len(es) + k \in 1..Len(new)
  BY <1>1, <1>5
<1>9. Has(new) = Has(es) \union Listed(t)
  <2>1. \A i \in 1..Len(new) :
          (\E k \in 1..Len(es) : new[i] = es[k]) \/ (\E k \in 1..Len(t) : new[i].username = t[k])
    <3>. TAKE i \in 1..Len(new)
    <3>1. CASE i \in 1..Len(es)
      BY <1>5, <3>1
    <3>2. ASSUME NEW k \in 1..Len(t), i = Len(es) + k
          PROVE  new[i].username = t[k]
      BY <1>3, <1>5, <3>2
    <3>. QED BY <1>6, <3>1, <3>2
  <2>2. \A k \in 1..Len(es) : \E i \in 1..Len(new) : new[i] = es[k]
    BY <1>5, <1>7
  <2>3. \A k \in 1..Len(t) : \E i \in 1..Len(new) : new[i].username = t[k]
    BY <1>3, <1>5, <1>8
  <2>4. Has(es) \subseteq Has(new)
    BY ONLY <2>2 DEF Has
  <2>5. Listed(t) \subseteq Has(new)
    BY ONLY <2>3 DEF Has, Listed, Contains
  <2>6. Has(new) \subseteq Has(es) \union Listed(t)
    BY ONLY <2>1 DEF Has, Listed, Contains
  <2>. QED BY ONLY <2>4, <2>5, <2>6
<1>10. On(new) = On(es)
  <2>1. \A i \in 1..Len(new) : IsOnline(new[i]) => \E k \in 1..Len(es) : new[i] = es[k]
    <3>. TAKE i \in 1..Len(new)
    <3>1. CASE i \in 1..Len(es)
      BY <1>5, <3>1
    <3>2. ASSUME NEW k \in 1..Len(t), i = Len(es) + k
          PROVE  ~IsOnline(new[i])
      BY <1>3, <1>5, <3>2
    <3>. QED BY <1>6, <3>1, <3>2
  <2>2. \A k \in 1..Len(es) : \E i \in 1..Len(new) : new[i] = es[k]
    BY <1>5, <1>7
  <2>. QED BY ONLY <2>1, <2>2 DEF On
<1>11. ASSUME Distinct(es), \A i, k \in 1..Len(t) : i # k => t[i] # t[k],
              Has(es) \intersect Listed(t) = {}
       PROVE  Distinct(new)
  <2>. SUFFICES ASSUME NEW i \in 1..Len(new), NEW k \in 1..Len(new), i # k
                PROVE  new[i].username # new[k].username
    BY DEF Distinct
  <2>1. \A m \in 1..Len(es) : es[m].username \in Has(es)
    BY RowsFacts, ElementOfSeq DEF Has
  <2>2. \A m \in 1..Len(t) : g[m].username \in Listed(t)
    BY <1>1, <1>3 DEF Listed, Contains
  <2>3. CASE i \in 1..Len(es) /\ k \in 1..Len(es)
    BY <1>5, <1>11, <2>3 DEF Distinct
  <2>4. CASE \E m \in 1..Len(t) : i = Len(es) + m
    <3>1. PICK m \in 1..Len(t) : i = Len(es) + m
      BY <2>4
    <3>2. CASE k \in 1..Len(es)
      BY <1>5, <1>11, <2>1, <2>2, <3>1, <3>2
    <3>3. ASSUME NEW o \in 1..Len(t), k = Len(es) + o
          PROVE  new[i].username # new[k].username
      <4>1. new[i] = g[m] /\ new[k] = g[o] /\ m # o
        BY <1>5, <3>1, <3>3
      <4>2. t[m] # t[o]
        BY <1>11, <4>1
      <4>. QED BY <1>3, <4>1, <4>2
    <3>. QED BY <1>6, <3>2, <3>3
  <2>5. CASE i \in 1..Len(es) /\ \E m \in 1..Len(t) : k = Len(es) + m
    BY <1>5, <1>11, <2>1, <2>2, <2>5
  <2>. QED BY <1>6, <2>3, <2>4, <2>5
<1>. QED BY <1>5, <1>9, <1>10, <1>11

LEMMA OnlineFold ==
  ASSUME NEW es, NEW item
  PROVE  UpdateOnline(es, <<item>>) =
           IF IndexById(es, item.id) = 0 THEN es
           ELSE [es EXCEPT ![IndexById(es, item.id)].sid = item.sid]
<1> DEFINE D == DOMAIN <<item>>
           Put(e, x) == IF IndexById(e, x.id) = 0 THEN e
                        ELSE [e EXCEPT ![IndexById(e, x.id)].sid = x.sid]
           Fix(g) == g = [s \in SUBSET D |-> IF s = {} THEN es
                                ELSE Put(g[s \ {Max(s)}], <<item>>[Max(s)])]
           h == CHOOSE g : Fix(g)
<1>1. UpdateOnline(es, <<item>>) = h[D]
  BY DEF UpdateOnline, FoldLeft, MapThenFoldSet
<1>. HIDE DEF Put
<1>2. Max({1}) = 1
  BY DEF Max
<1>3. D = {1} /\ <<item>>[1] = item
  OBVIOUS
<1>. HIDE DEF D
<1>4. Fix([s \in SUBSET D |-> IF s = {} THEN es ELSE Put(es, item)])
  <2> DEFINE g == [s \in SUBSET D |-> IF s = {} THEN es ELSE Put(es, item)]
  <2>1. \A s \in SUBSET D : s = {} \/ s = {1}
    BY <1>3
  <2>2. g[{}] = es
    OBVIOUS
  <2>3. {1} \ {1} = {}
    OBVIOUS
  <2>4. \A s \in SUBSET D : s # {} => Put(g[s \ {Max(s)}], <<item>>[Max(s)]) = Put(es, item)
    <3>. TAKE s \in SUBSET D
    <3>. HAVE s # {}
    <3>1. s = {1}
      BY <2>1
    <3>. HIDE DEF g
    <3>2. g[s \ {Max(s)}] = es /\ <<item>>[Max(s)] = item
      BY <3>1, <1>2, <1>3, <2>2, <2>3
    <3>. QED BY <3>2
  <2>5. [s \in SUBSET D |-> IF s = {} THEN es ELSE Put(g[s \ {Max(s)}], <<item>>[Max(s)])] = g
    BY <2>4
  <2>. QED BY <2>5
<1>5. Fix(h)
  BY <1>4
<1>. HIDE DEF h
<1>6. h[{}] = es
  BY <1>5
<1>7. h[{1}] = Put(h[{1} \ {Max({1})}], <<item>>[Max({1})])
  BY <1>3, <1>5
<1>8. h[{1}] = Put(es, item)
  <2>1. {1} \ {1} = {}
    OBVIOUS
  <2>. QED BY <1>2, <1>3, <1>6, <1>7, <2>1
<1>. QED BY <1>1, <1>3, <1>8 DEF Put

LEMMA OnlineEffect ==
  ASSUME NEW es \in Seq(Rows), NEW b \in Buddy, NEW s \in {NoSid, UserId[b]},
         NEW new \in Results(es, Online(b, s))
  PROVE  /\ new \in Seq(Rows)
         /\ Has(new) = Has(es)
         /\ Distinct(es) => /\ Distinct(new)
                            /\ s = NoSid => On(new) = On(es) \ {b}
                            /\ s # NoSid /\ b \in Has(es) => On(new) = On(es) \union {b}
<1> DEFINE i == IndexById(es, UserId[b])
           r == [es[i] EXCEPT !.sid = s]
<1>1. new = IF i = 0 THEN es ELSE [es EXCEPT ![i] = r]
  <2> DEFINE item == [id |-> UserId[b], sid |-> s]
  <2>1. new = UpdateOnline(es, <<item>>)
    BY DEF Results, Online
  <2>2. item.id = UserId[b] /\ item.sid = s
    OBVIOUS
  <2>. HIDE DEF item
  <2>3. new = IF i = 0 THEN es ELSE [es EXCEPT ![i].sid = s]
    BY <2>1, <2>2, OnlineFold
  <2>. QED BY <2>3
<1>2. Len(es) \in Nat /\ \A k \in 1..Len(es) : es[k] \in Rows
  BY LenProperties, ElementOfSeq
<1>3. \A k \in 1..Len(es) : es[k].userid = UserId[b] <=> es[k].username = b
  BY <1>2, RowsFacts, Ids
<1>4. CASE i = 0
  <2>1. new = es
    BY <1>1, <1>4
  <2>2. \A k \in 1..Len(es) : es[k].username # b
    <3>1. i \notin 1..Len(es)
      BY <1>2, <1>4
    <3>. QED BY <1>3, <3>1, IndexByIdFacts
  <2>3. b \notin Has(es) /\ b \notin On(es)
    BY <2>2 DEF Has, On
  <2>. QED BY <2>1, <2>3
<1>5. CASE i # 0
  <2>1. i \in 1..Len(es) /\ es[i].username = b
    BY <1>3, <1>5, IndexByIdFacts
  <2>2. es[i].userid = UserId[b]
    BY <1>3, <2>1
  <2>3. r \in Rows /\ r.username = b /\ r.sid = s
    <3>1. es[i] \in Rows /\ s \in {NoSid, es[i].userid}
      BY <1>2, <2>1, <2>2
    <3>. QED BY <3>1, <2>1, RowsFacts
  <2>. HIDE DEF i, r
  <2>4. /\ new \in Seq(Rows) /\ Len(new) = Len(es)
        /\ \A k \in 1..Len(es) : new[k] = IF k = i THEN r ELSE es[k]
    BY <1>1, <1>5, <2>1, <2>3, ExceptSeq
  <2>5. \A k \in 1..Len(es) : new[k].username = es[k].username
    BY <2>1, <2>3, <2>4
  <2>6. Has(new) = Has(es)
    BY <2>4, <2>5 DEF Has
  <2>7. ASSUME Distinct(es)
        PROVE  /\ Distinct(new)
               /\ s = NoSid => On(new) = On(es) \ {b}
               /\ s # NoSid => On(new) = On(es) \union {b}
    <3>1. Distinct(new)
      BY <2>4, <2>5, <2>7 DEF Distinct
    <3>2. \A k \in 1..Len(es) : es[k].username = b => k = i
      BY <2>1, <2>7 DEF Distinct
    <3>3. IsOnline(new[i]) <=> s # NoSid
      BY <2>1, <2>3, <2>4 DEF IsOnline
    <3>4. \A c \in Buddy : c # b => (c \in On(new) <=> c \in On(es))
      BY <2>1, <2>3, <2>4, <2>5 DEF On
    <3>5. b \in On(new) <=> s # NoSid
      BY <2>1, <2>3, <2>4, <2>5, <3>2, <3>3 DEF On
    <3>6. On(new) \subseteq Buddy /\ On(es) \subseteq Buddy
      BY DEF On
    <3>. QED BY <3>1, <3>4, <3>5, <3>6
  <2>. QED BY <2>4, <2>6, <2>7
<1>. QED BY <1>4, <1>5

LEMMA RemovedEffect ==
  ASSUME NEW es \in Seq(Rows), NEW b \in Buddy, NEW n, NEW new \in Results(es, Removed(b, n))
  PROVE  /\ new \in Seq(Rows)
         /\ Distinct(es) => /\ Distinct(new)
                            /\ Has(new) = Has(es) \ {b}
                            /\ On(new) = On(es) \ {b}
<1> DEFINE i == IndexById(es, UserId[b])
<1>1. new = IF i = 0 THEN es ELSE RemoveAt(es, i)
  <2> DEFINE p == Removed(b, n)
  <2>1. p.kind = "removed" /\ p.id = UserId[b] /\ new \in Results(es, p)
    BY PacketKinds
  <2>. HIDE DEF p
  <2>2. new = RemoveById(es, p.id)
    BY <2>1 DEF Results
  <2>. QED BY <2>1, <2>2 DEF RemoveById
<1>2. Len(es) \in Nat /\ \A k \in 1..Len(es) : es[k] \in Rows
  BY LenProperties, ElementOfSeq
<1>3. \A k \in 1..Len(es) : es[k].userid = UserId[b] <=> es[k].username = b
  BY <1>2, RowsFacts, Ids
<1>4. CASE i = 0
  <2>1. new = es
    BY <1>1, <1>4
  <2>2. \A k \in 1..Len(es) : es[k].username # b
    <3>1. i \notin 1..Len(es)
      BY <1>2, <1>4
    <3>. QED BY <1>3, <3>1, IndexByIdFacts
  <2>3. b \notin Has(es) /\ b \notin On(es)
    BY <2>2 DEF Has, On
  <2>. QED BY <2>1, <2>3
<1>5. CASE i # 0
  <2>1. i \in 1..Len(es) /\ es[i].username = b
    BY <1>3, <1>5, IndexByIdFacts
  <2>. HIDE DEF i
  <2>2. /\ new \in Seq(Rows) /\ Len(new) = Len(es) - 1
        /\ \A k \in 1..(Len(es) - 1) : new[k] = IF k < i THEN es[k] ELSE es[k + 1]
    BY <1>1, <1>5, <2>1, RemoveAtFacts
  <2> DEFINE old(k) == IF k < i THEN k ELSE k + 1
  <2>3. \A k \in 1..Len(new) : old(k) \in 1..Len(es) /\ old(k) # i /\ new[k] = es[old(k)]
    BY <1>2, <2>1, <2>2
  <2>4. \A k \in 1..Len(es) : k # i => \E m \in 1..Len(new) : new[m] = es[k]
    <3>. TAKE k \in 1..Len(es)
    <3>. HAVE k # i
    <3> DEFINE m == IF k < i THEN k ELSE k - 1
    <3>1. m \in 1..Len(new) /\ old(m) = k
      BY <1>2, <2>1, <2>2
    <3>. HIDE DEF m, old
    <3>. QED BY <2>3, <3>1
  <2>5. \A k, m \in 1..Len(new) : k # m => old(k) # old(m)
    BY <1>2, <2>1, <2>2
  <2>. HIDE DEF old
  <2>6. ASSUME Distinct(es)
        PROVE  /\ Distinct(new)
               /\ Has(new) = Has(es) \ {b}
               /\ On(new) = On(es) \ {b}
    <3>1. Distinct(new)
      BY <2>3, <2>5, <2>6 DEF Distinct
    <3>2. \A k \in 1..Len(es) : k # i => es[k].username # b
      BY <2>1, <2>6 DEF Distinct
    <3>3. \A k \in 1..Len(new) : new[k].username # b
      BY <2>3, <3>2
    <3>4. \A m \in 1..Len(new) : \E k \in 1..Len(es) : new[m] = es[k]
      BY ONLY <2>3
    <3>5. \A k \in 1..Len(es) : es[k].username # b => \E m \in 1..Len(new) : new[m] = es[k]
      BY <2>1, <2>4
    <3>6. Has(new) = Has(es) \ {b}
      <4>1. \A c \in Has(new) : c \in Has(es) /\ c # b
        BY ONLY <3>3, <3>4 DEF Has
      <4>2. \A c \in Has(es) : c # b => c \in Has(new)
        BY ONLY <3>5 DEF Has
      <4>. QED BY ONLY <4>1, <4>2
    <3>7. On(new) = On(es) \ {b}
      <4>1. \A c \in On(new) : c \in On(es) /\ c # b
        BY ONLY <3>3, <3>4 DEF On
      <4>2. \A c \in On(es) : c # b => c \in On(new)
        BY ONLY <3>5 DEF On
      <4>. QED BY ONLY <4>1, <4>2
    <3>. QED BY <3>1, <3>6, <3>7
  <2>. QED BY <2>2, <2>6
<1>. QED BY <1>4, <1>5

LEMMA NoEffect ==
  ASSUME NEW es, NEW p, NEW new \in Results(es, p),
         p = OtherLoginPacket \/ \E b \in Buddy : p = Message(b)
  PROVE  new = es
BY PacketKinds DEF Results

LEMMA GamesFold ==
  ASSUME NEW es, NEW item
  PROVE  UpdateGames(es, <<item>>, TRUE) =
           IF IndexBySid(es, item.sid) = 0 THEN es
           ELSE [es EXCEPT ![IndexBySid(es, item.sid)].game = item.game]
<1> DEFINE D == DOMAIN <<item>>
           Put(e, x) == IF IndexBySid(e, x.sid) = 0 THEN e
                        ELSE [e EXCEPT ![IndexBySid(e, x.sid)].game = x.game]
           Fix(g) == g = [s \in SUBSET D |-> IF s = {} THEN es
                                ELSE Put(g[s \ {Max(s)}], <<item>>[Max(s)])]
           h == CHOOSE g : Fix(g)
<1>1. UpdateGames(es, <<item>>, TRUE) = h[D]
  BY DEF UpdateGames, FoldLeft, MapThenFoldSet
<1>. HIDE DEF Put
<1>2. Max({1}) = 1
  BY DEF Max
<1>3. D = {1} /\ <<item>>[1] = item
  OBVIOUS
<1>. HIDE DEF D
<1>4. Fix([s \in SUBSET D |-> IF s = {} THEN es ELSE Put(es, item)])
  <2> DEFINE g == [s \in SUBSET D |-> IF s = {} THEN es ELSE Put(es, item)]
  <2>1. \A s \in SUBSET D : s = {} \/ s = {1}
    BY <1>3
  <2>2. g[{}] = es
    OBVIOUS
  <2>3. {1} \ {1} = {}
    OBVIOUS
  <2>4. \A s \in SUBSET D : s # {} => Put(g[s \ {Max(s)}], <<item>>[Max(s)]) = Put(es, item)
    <3>. TAKE s \in SUBSET D
    <3>. HAVE s # {}
    <3>1. s = {1}
      BY <2>1
    <3>. HIDE DEF g
    <3>2. g[s \ {Max(s)}] = es /\ <<item>>[Max(s)] = item
      BY <3>1, <1>2, <1>3, <2>2, <2>3
    <3>. QED BY <3>2
  <2>5. [s \in SUBSET D |-> IF s = {} THEN es ELSE Put(g[s \ {Max(s)}], <<item>>[Max(s)])] = g
    BY <2>4
  <2>. QED BY <2>5
<1>5. Fix(h)
  BY <1>4
<1>. HIDE DEF h
<1>6. h[{}] = es
  BY <1>5
<1>7. h[{1}] = Put(h[{1} \ {Max({1})}], <<item>>[Max({1})])
  BY <1>3, <1>5
<1>8. h[{1}] = Put(es, item)
  <2>1. {1} \ {1} = {}
    OBVIOUS
  <2>. QED BY <1>2, <1>3, <1>6, <1>7, <2>1
<1>. QED BY <1>1, <1>3, <1>8 DEF Put

\* A games packet says nothing new here, and what it runs on into takes one
\* row away or none.
LEMMA GamesEffect ==
  ASSUME NEW es \in Seq(Rows), NEW b \in Buddy, NEW new \in Results(es, Games(b))
  PROVE  /\ new \in Seq(Rows)
         /\ Len(new) = Len(es) => new = es
<1> DEFINE p == Games(b)
           i == IndexBySid(es, UserId[b])
           old == UpdateGames(es, p.items, TRUE)
<1>1. \E word : new = RemoveById(old, word)
  <2>1. p.kind = "games" /\ new \in Results(es, p)
    BY PacketKinds
  <2>. HIDE DEF p
  <2>. QED BY <2>1 DEF Results
<1>2. old = es
  <2> DEFINE item == [sid |-> UserId[b], game |-> 0]
  <2>1. item.sid = UserId[b] /\ item.game = 0
    OBVIOUS
  <2>2. p.items = <<item>>
    BY DEF Games
  <2>. HIDE DEF item, p
  <2>3. old = IF i = 0 THEN es ELSE [es EXCEPT ![i].game = 0]
    <3> DEFINE F(x) == UpdateGames(es, x, TRUE)
    <3>1. F(<<item>>) = IF IndexBySid(es, item.sid) = 0 THEN es
                        ELSE [es EXCEPT ![IndexBySid(es, item.sid)].game = item.game]
      BY GamesFold
    <3>2. old = F(p.items)
      OBVIOUS
    <3>. HIDE DEF F, old
    <3>. QED BY <2>1, <2>2, <3>1, <3>2
  <2>4. CASE i # 0
    <3>1. i \in 1..Len(es)
      <4> DEFINE I == {k \in 1..Len(es) : es[k].sid = UserId[b]}
      <4>1. i = IF I # {} THEN Min(I) ELSE 0
        BY DEF IndexBySid, SelectInSeq
      <4>2. I \in SUBSET Nat
        OBVIOUS
      <4>3. I # {} => Min(I) \in I
        BY <4>2, LeastOfNat
      <4>. QED BY <2>4, <4>1, <4>3
    <3>2. es[i] \in Rows
      BY <3>1, ElementOfSeq
    <3>3. [es[i] EXCEPT !.game = 0] = es[i]
      <4>1. es[i] \in [ username : Buddy, userid : Nat, nick : Buddy, sid : Nat,
                         statusmsg : {NoText}, game : {0}, game2 : {0} ]
        BY <3>2 DEF Rows
      <4>. QED BY <4>1
    <3>. HIDE DEF i
    <3>4. [es EXCEPT ![i] = es[i]] = es
      OBVIOUS
    <3>. QED BY <2>3, <2>4, <3>3, <3>4
  <2>. QED BY <2>3, <2>4
<1>. HIDE DEF old
<1>3. PICK word : new = RemoveById(es, word)
  BY <1>1, <1>2
<1> DEFINE k == IndexById(es, word)
<1>4. new = IF k = 0 THEN es ELSE RemoveAt(es, k)
  BY <1>3 DEF RemoveById
<1>5. CASE k = 0
  BY <1>4, <1>5
<1>6. CASE k # 0
  <2>1. k \in 1..Len(es) /\ Len(es) \in Nat
    BY <1>6, IndexByIdFacts, LenProperties
  <2>. HIDE DEF k
  <2>2. new \in Seq(Rows) /\ Len(new) = Len(es) - 1
    BY <1>4, <1>6, <2>1, RemoveAtFacts
  <2>. QED BY <2>1, <2>2
<1>. QED BY <1>5, <1>6

-----------------------------------------------------------------------------
(* What the packets on their way make of the buddy list, one after another.  *)

Views == [has : SUBSET Buddy, on : SUBSET Buddy]

\* p makes W of a buddy list seen as V, and is a packet that a server that
\* sees the list as V sends.
Tells(V, p, W) ==
  \/ p = OtherLoginPacket /\ W = V
  \/ \E b \in V.on : (p = Message(b) \/ p = Games(b)) /\ W = V
  \/ \E b \in V.has : p = Removed(b, Unnamed) /\ W = [has |-> V.has \ {b}, on |-> V.on \ {b}]
  \/ \E b \in V.has : p = Online(b, NoSid) /\ W = [has |-> V.has, on |-> V.on \ {b}]
  \/ \E b \in V.has : p = Online(b, UserId[b]) /\ W = [has |-> V.has, on |-> V.on \union {b}]
  \/ \E t \in Seq(Buddy) :
       /\ p = NamesOf(t)
       /\ \A i, k \in 1..Len(t) : i # k => t[i] # t[k]
       /\ V.has \intersect Listed(t) = {}
       /\ W = [has |-> V.has \union Listed(t), on |-> V.on]

Path(V, q, W) ==
  \E v \in [0..Len(q) -> Views] :
    /\ v[0] = V /\ v[Len(q)] = W
    /\ \A n \in 1..Len(q) : Tells(v[n - 1], q[n], v[n])

LEMMA ViewType ==
  ASSUME NEW es
  PROVE  View(es) \in Views /\ View(es).has = Has(es) /\ View(es).on = On(es)
BY DEF View, Views, Has, On

\* The buddy list does what the packet tells it, unless a games packet strikes.
LEMMA ListDoesAsTold ==
  ASSUME NEW es \in Seq(Rows), Distinct(es), NEW p, NEW W \in Views, Tells(View(es), p, W),
         NEW new \in Results(es, p), p.kind = "games" => Len(new) = Len(es)
  PROVE  new \in Seq(Rows) /\ Distinct(new) /\ View(new) = W
<1>0. View(es).has = Has(es) /\ View(es).on = On(es) /\ Has(es) \subseteq Buddy /\ On(es) \subseteq Buddy
  BY ViewType DEF Has, On
<1>1. CASE p = OtherLoginPacket /\ W = View(es)
  BY <1>1, NoEffect
<1>2. CASE \E b \in On(es) : (p = Message(b) \/ p = Games(b)) /\ W = View(es)
  <2>1. PICK b \in On(es) : (p = Message(b) \/ p = Games(b)) /\ W = View(es)
    BY <1>2
  <2>2. b \in Buddy
    BY <1>0
  <2>3. CASE p = Message(b)
    <3>1. new = es
      BY <2>2, <2>3, NoEffect
    <3>. QED BY <2>1, <3>1
  <2>4. CASE p = Games(b)
    <3>1. Len(new) = Len(es) /\ new \in Results(es, Games(b))
      BY <2>4, PacketKinds
    <3>2. new = es
      BY <2>2, <3>1, GamesEffect
    <3>. QED BY <2>1, <3>2
  <2>. QED BY <2>1, <2>3, <2>4
<1>3. ASSUME NEW b \in Has(es), p = Removed(b, Unnamed), W = [has |-> Has(es) \ {b}, on |-> On(es) \ {b}]
      PROVE  new \in Seq(Rows) /\ Distinct(new) /\ View(new) = W
  <2>1. b \in Buddy /\ new \in Results(es, Removed(b, Unnamed))
    BY <1>0, <1>3
  <2>2. /\ new \in Seq(Rows)
        /\ Distinct(es) => Distinct(new) /\ Has(new) = Has(es) \ {b} /\ On(new) = On(es) \ {b}
    BY <2>1, RemovedEffect
  <2>. QED BY <1>3, <2>2 DEF View
<1>4. ASSUME NEW b \in Has(es), p = Online(b, NoSid), W = [has |-> Has(es), on |-> On(es) \ {b}]
      PROVE  new \in Seq(Rows) /\ Distinct(new) /\ View(new) = W
  <2>1. b \in Buddy /\ new \in Results(es, Online(b, NoSid))
    BY <1>0, <1>4
  <2>. QED BY <1>4, <2>1, OnlineEffect DEF View
<1>5. ASSUME NEW b \in Has(es), p = Online(b, UserId[b]),
             W = [has |-> Has(es), on |-> On(es) \union {b}]
      PROVE  new \in Seq(Rows) /\ Distinct(new) /\ View(new) = W
  <2>1. b \in Buddy /\ new \in Results(es, Online(b, UserId[b])) /\ UserId[b] # NoSid
    BY <1>0, <1>5, Ids
  <2>. QED BY <1>5, <2>1, OnlineEffect DEF View
<1>6. ASSUME NEW t \in Seq(Buddy), p = NamesOf(t), \A i, k \in 1..Len(t) : i # k => t[i] # t[k],
             Has(es) \intersect Listed(t) = {}, W = [has |-> Has(es) \union Listed(t), on |-> On(es)]
      PROVE  new \in Seq(Rows) /\ Distinct(new) /\ View(new) = W
  <2>1. new \in Results(es, NamesOf(t))
    BY <1>6
  <2>2. new \in Seq(Rows) /\ Has(new) = Has(es) \union Listed(t) /\ On(new) = On(es)
    BY <2>1, NamesEffect
  <2>3. Distinct(new)
    BY <1>6, <2>1, NamesEffect
  <2>. QED BY <1>6, <2>2, <2>3 DEF View
<1>7. View(es).has = Has(es) /\ View(es).on = On(es)
  BY <1>0
<1>. QED BY ONLY <1>1, <1>2, <1>3, <1>4, <1>5, <1>6, <1>7, Tells(View(es), p, W) DEF Tells

LEMMA NoPath ==
  ASSUME NEW V, NEW W, NEW q, Len(q) = 0
  PROVE  /\ Path(V, q, W) => V = W
         /\ V \in Views => Path(V, q, V)
<1>1. Path(V, q, W) => V = W
  BY DEF Path
<1>2. ASSUME V \in Views
      PROVE  Path(V, q, V)
  <2> DEFINE v == [n \in 0..0 |-> V]
  <2>1. v \in [0..Len(q) -> Views] /\ v[0] = V /\ v[Len(q)] = V
    BY <1>2
  <2>2. \A n \in 1..Len(q) : FALSE
    OBVIOUS
  <2>. HIDE DEF v
  <2>. QED BY <2>1, <2>2 DEF Path
<1>. QED BY <1>1, <1>2

LEMMA PathHead ==
  ASSUME NEW V, NEW W, NEW q, NEW r, Len(r) \in Nat, Len(q) = Len(r) + 1,
         \A n \in 1..Len(r) : r[n] = q[n + 1], Path(V, q, W)
  PROVE  \E U \in Views : Tells(V, q[1], U) /\ Path(U, r, W)
<1>1. PICK v \in [0..Len(q) -> Views] :
        /\ v[0] = V /\ v[Len(q)] = W
        /\ \A n \in 1..Len(q) : Tells(v[n - 1], q[n], v[n])
  BY DEF Path
<1> DEFINE u == [n \in 0..Len(r) |-> v[n + 1]]
<1>2. \A n \in 0..Len(r) : n + 1 \in 0..Len(q)
  OBVIOUS
<1>3. u \in [0..Len(r) -> Views] /\ u[0] = v[1] /\ u[Len(r)] = W
  BY <1>1, <1>2
<1>4. \A n \in 1..Len(r) : Tells(u[n - 1], r[n], u[n])
  <2>. TAKE n \in 1..Len(r)
  <2>1. n + 1 \in 1..Len(q) /\ (n + 1) - 1 = n /\ n - 1 \in 0..Len(r) /\ (n - 1) + 1 = n /\ n \in 0..Len(r)
    OBVIOUS
  <2>2. u[n - 1] = v[n] /\ u[n] = v[n + 1] /\ r[n] = q[n + 1]
    BY <2>1
  <2>3. Tells(v[(n + 1) - 1], q[n + 1], v[n + 1])
    BY <1>1, <2>1
  <2>. HIDE DEF u
  <2>. QED BY <2>1, <2>2, <2>3
<1>5. v[1] \in Views /\ Tells(V, q[1], v[1])
  <2>1. 1 \in 1..Len(q) /\ 1 \in 0..Len(q) /\ 1 - 1 = 0
    OBVIOUS
  <2>. QED BY <1>1, <2>1
<1>. HIDE DEF u
<1>6. Path(v[1], r, W)
  BY <1>3, <1>4 DEF Path
<1>. QED BY <1>5, <1>6

LEMMA PathLast ==
  ASSUME NEW V, NEW W, NEW X \in Views, NEW q, NEW r, Len(q) \in Nat, Len(r) = Len(q) + 1,
         \A n \in 1..Len(q) : r[n] = q[n], Path(V, q, W), Tells(W, r[Len(q) + 1], X)
  PROVE  Path(V, r, X)
<1>1. PICK v \in [0..Len(q) -> Views] :
        /\ v[0] = V /\ v[Len(q)] = W
        /\ \A n \in 1..Len(q) : Tells(v[n - 1], q[n], v[n])
  BY DEF Path
<1> DEFINE u == [n \in 0..Len(r) |-> IF n = Len(r) THEN X ELSE v[n]]
<1>2. \A n \in 0..Len(r) : n = Len(r) \/ n \in 0..Len(q)
  OBVIOUS
<1>3. u \in [0..Len(r) -> Views] /\ u[Len(r)] = X /\ \A n \in 0..Len(q) : u[n] = v[n]
  BY <1>1, <1>2
<1>. HIDE DEF u
<1>4. \A n \in 1..Len(r) : Tells(u[n - 1], r[n], u[n])
  <2>. TAKE n \in 1..Len(r)
  <2>1. CASE n = Len(r)
    <3>1. n = Len(q) + 1 /\ n - 1 = Len(q) /\ Len(q) \in 0..Len(q)
      BY <2>1
    <3>. QED BY <1>1, <1>3, <2>1, <3>1
  <2>2. CASE n # Len(r)
    <3>1. n \in 1..Len(q) /\ n - 1 \in 0..Len(q) /\ n \in 0..Len(q)
      BY <2>2
    <3>. QED BY <1>1, <1>3, <3>1
  <2>. QED BY <2>1, <2>2
<1>5. u[0] = V
  BY <1>1, <1>3
<1>. QED BY <1>3, <1>4, <1>5 DEF Path

\* Only a removal takes a buddy off the list.
LEMMA TellsGone ==
  ASSUME NEW V, NEW p, NEW W, Tells(V, p, W), NEW b \in V.has, b \notin W.has
  PROVE  p = Removed(b, Unnamed)
<1>1. \A h, o : [has |-> h, on |-> o].has = h
  OBVIOUS
<1>2. \A h, o : W = [has |-> h, on |-> o] => W.has = h
  BY <1>1
<1>3. W # V
  OBVIOUS
<1>4. ~ \E c \in V.has : p = Online(c, NoSid) /\ W = [has |-> V.has, on |-> V.on \ {c}]
  BY <1>2
<1>5. ~ \E c \in V.has : p = Online(c, UserId[c]) /\ W = [has |-> V.has, on |-> V.on \union {c}]
  BY <1>2
<1>6. ASSUME NEW t \in Seq(Buddy), W = [has |-> V.has \union Listed(t), on |-> V.on]
      PROVE  FALSE
  <2>1. W.has = V.has \union Listed(t)
    BY <1>2, <1>6
  <2>. QED BY <2>1
<1>7. ASSUME NEW c \in V.has, W = [has |-> V.has \ {c}, on |-> V.on \ {c}]
      PROVE  c = b
  <2>1. W.has = V.has \ {c}
    BY <1>2, <1>7
  <2>. QED BY <2>1
<1>. QED BY <1>3, <1>4, <1>5, <1>6, <1>7 DEF Tells

LEMMA PathWithout ==
  ASSUME NEW V, NEW W, NEW q, Len(q) \in Nat, Path(V, q, W), NEW b \in V.has, b \notin W.has
  PROVE  \E n \in 1..Len(q) : q[n] = Removed(b, Unnamed)
<1>1. PICK v \in [0..Len(q) -> Views] :
        /\ v[0] = V /\ v[Len(q)] = W
        /\ \A n \in 1..Len(q) : Tells(v[n - 1], q[n], v[n])
  BY DEF Path
<1> DEFINE S == {n \in 0..Len(q) : b \notin v[n].has}
<1>2. S \in SUBSET Nat /\ S # {}
  <2>1. Len(q) \in S
    BY <1>1
  <2>. QED BY <2>1
<1> DEFINE m == Min(S)
<1>3. m \in S /\ \A n \in S : m <= n
  BY <1>2, LeastOfNat
<1>. HIDE DEF m
<1>4. m \in 1..Len(q) /\ b \notin v[m].has
  BY <1>1, <1>3
<1>5. b \in v[m - 1].has
  <2>1. m - 1 \in 0..Len(q) /\ ~(m <= m - 1)
    BY <1>4
  <2>. QED BY <1>3, <2>1
<1>6. Tells(v[m - 1], q[m], v[m])
  BY <1>1, <1>4
<1>. HIDE DEF S
<1>7. q[m] = Removed(b, Unnamed)
  <2> DEFINE A == v[m - 1]
             B == v[m]
  <2>1. Tells(A, q[m], B) /\ b \in A.has /\ b \notin B.has
    BY <1>4, <1>5, <1>6
  <2>. HIDE DEF A, B
  <2>. QED BY <2>1, TellsGone
<1>. QED BY <1>4, <1>7

-----------------------------------------------------------------------------
(***************************************************************************)
(* The invariant.  None of the six properties is inductive.  Windows says  *)
(* which window a pointer can be wild behind.  As long as none has been    *)
(* followed, Control is what the Jabber thread knows at each of its steps; *)
(* PacketsFit and RowsFit say what packets and entries there can be;       *)
(* Pipeline says that the packets on their way make of the buddy list what *)
(* the server's is, so that none of them is about a buddy who is not       *)
(* there; and the rest is each property, with what holds while a packet or *)
(* a presence it speaks of is still on its way.                            *)
(***************************************************************************)

Recv == [at |-> "recv", packet |-> NoPacket]
Holding == [at : {"list"}, packet : Sendable] \union [at : {"user"}, packet : Handed]

PacketsFit ==
  /\ wire \in Seq(Sendable)
  /\ reader \in {Idle, Recv} \union Holding
  /\ strays \subseteq Holding

RowsFit ==
  /\ entries \in Seq(Rows)
  /\ main # "delete" => Distinct(entries)

ServerFits == friends \in SUBSET Buddy /\ online \in SUBSET friends

JabberFits ==
  /\ inroster \in Seq(Buddy)
  /\ shown \in [Buddy -> {"none", "on", "off"}]
  /\ main \in {"insert", "accept", "tag"} => tag.to \in Buddy

Control ==
  /\ main \in {"idle", "attach", "status", "goodbye", "delete", "mirror", "insert",
              "accept", "tag"}
  /\ client \in {"null", "live", "zombie"}
  /\ client = "null" => entries = <<>> /\ reader.at = "none" /\ socket = "none" /\ pinger = "none"
  /\ main = "delete" => reader.at = "none" /\ pinger = "none"
  /\ socket = "open" <=> reader.at # "none"
  /\ main \in {"attach", "status", "insert", "accept", "tag"} => present # {}
  /\ main \in {"goodbye", "delete"} => present = {}
  /\ main \notin {"goodbye", "delete"} /\ present = {} => client = "null"
  /\ main \notin {"goodbye", "delete", "mirror"} /\ present = {} => mirror # "on"
  /\ client = "null" /\ (main \in {"goodbye", "delete"} \/ present # {}) => "otherlogin" \in race
  /\ main \in {"idle", "insert", "accept", "tag"} /\ present # {} /\ "otherlogin" \notin race =>
       mirror = "on"

\* The packets the buddy list has not seen.
PendingOf(r, w) == IF r.at = "list" THEN <<r.packet>> \o w ELSE w
Pending == PendingOf(reader, wire)

\* The buddy list as the server has it.
Server == [has |-> friends, on |-> online]

Pipeline ==
  /\ socket = "open" => Path(View(entries), Pending, Server)
  /\ reader.at = "user" =>
       \A b \in Buddy :
         /\ reader.packet = Message(b) => b \in On(entries)
         /\ reader.packet = Removed(b, b) => b \notin Has(entries)

Windows ==
  /\ socket = "wild" => "refused" \in race
  /\ client = "zombie" => "otherlogin" \in race
  /\ strays # {} => "cancel" \in race
  /\ FaultsNeedARace

Leaving(b) == reader.at = "user" /\ reader.packet = Removed(b, b)

\* Why a buddy may be shown online.
Excused(b) == b \in raced \/ (InRoster(b) /\ (b \in Has(entries) \/ Leaving(b)))

\* The buddy list has been looked up for the buddy about to be answered.
Chosen == tag.to \in raced \/ (main = "insert" <=> tag.to \in Has(entries))

\* The presence about to be sent says what the buddy list says.
Tagged ==
  \/ tag.to \in raced
  \/ InRoster(tag.to) /\ tag.to \in Has(entries) /\ (tag.on <=> tag.to \in On(entries))

Ready ==
  /\ main \in {"insert", "accept"} => Chosen
  /\ main = "tag" => Tagged

Hidden ==
  /\ \A b \in Buddy : shown[b] = "on" => Excused(b)
  /\ main \in {"goodbye", "delete"} => \A b \in Buddy : shown[b] = "on" => b \in raced
  /\ main = "goodbye" => About(reader.packet) \subseteq raced
  /\ Answered \intersect About(reader.packet) \subseteq raced
  /\ Ready

Going(b) == \E n \in 1..Len(Pending) : Pending[n] = Removed(b, Unnamed)

\* Nobody has to be told of b: he is, he will be, or he is on his way out.
Accounted(b) ==
  \/ InRoster(b) \/ b \in asked \/ b \in raced
  \/ reader.at = "user" /\ reader.packet.kind = "names"
  \/ Going(b)

Offered == "attach" \notin race /\ socket = "open" => \A b \in Has(entries) : Accounted(b)

\* Jabber has b as the buddy list has him, or will be told.
Told(b) ==
  \/ Going(b)
  \/ reader.at = "user" /\ \E s \in {NoSid, UserId[b]} : reader.packet = Online(b, s)
  \/ main = "tag" /\ tag.to = b
  \/ shown[b] = "on" <=> b \in On(entries)

Agrees ==
  socket = "open" /\ main \notin {"goodbye", "delete"} =>
    \A b \in Has(entries) : InRoster(b) /\ b \notin raced => Told(b)

Fits == PacketsFit /\ ServerFits /\ RowsFit /\ JabberFits /\ Control
Sound == Fits /\ Pipeline /\ Hidden /\ Offered /\ Agrees
IInv == Windows /\ (~fault => Sound)

Sends ==
  \/ \E b \in Buddy : SendOnline(b) \/ SendMessage(b) \/ SendGame(b) \/ SendRemoved(b)
                      \/ SendNames(b)
  \/ SendOtherLogin

Steps ==
  \/ \E P : NewClient(P) \/ Served(P) \/ Goodbye(P) \/ Unserved(P)
  \/ Attach \/ SendStatus \/ MirrorPresence \/ Disconnect \/ DeleteClient \/ Insert \/ SendTag
  \/ \E b \in Buddy : Subscribed(b) \/ Unsubscribe(b)
  \/ Ping \/ Pinged
  \/ Take \/ ListListener \/ UserListener \/ OtherLogin \/ ReaderEnds
  \/ \E s \in strays :
       StrayEnds(s) \/ StrayListListener(s) \/ StrayUserListener(s) \/ StrayOtherLogin(s)
  \/ Sends

LEMMA NextSteps ==
  ASSUME [Next]_vars
  PROVE  UNCHANGED vars \/ Steps
BY DEF Next, Steps, Sends

-----------------------------------------------------------------------------
(* What the Jabber thread knows *)

LEMMA InitControl == Init => Control
BY DEF Init, Control, Idle

\* Nothing is done after a fault.
LEMMA NoFaultYet == Steps => ~fault
<1>1. ASSUME NEW P, NewClient(P) \/ Served(P) \/ Goodbye(P) \/ Unserved(P) PROVE ~fault
  BY <1>1 DEF NewClient, Served, Goodbye, Unserved, Event
<1>2. Attach \/ SendStatus \/ MirrorPresence \/ Disconnect \/ DeleteClient \/ Insert \/ SendTag => ~fault
  BY DEF Attach, SendStatus, MirrorPresence, Disconnect, DeleteClient, Insert, SendTag
<1>3. ASSUME NEW b \in Buddy, Subscribed(b) \/ Unsubscribe(b) PROVE ~fault
  BY <1>3 DEF Subscribed, Unsubscribe, Event
<1>4. Ping \/ Pinged \/ Take \/ ListListener \/ UserListener \/ OtherLogin \/ ReaderEnds => ~fault
  BY DEF Ping, Pinged, Take, ListListener, UserListener, OtherLogin, ReaderEnds
<1>5. ASSUME NEW s \in strays,
             StrayEnds(s) \/ StrayListListener(s) \/ StrayUserListener(s) \/ StrayOtherLogin(s)
      PROVE  ~fault
  BY <1>5 DEF StrayEnds, StrayListListener, StrayUserListener, StrayOtherLogin
<1>6. Sends => ~fault
  BY DEF Sends, SendOnline, SendMessage, SendGame, SendRemoved, SendNames, SendOtherLogin, Deliver, Event
<1>. QED BY <1>1, <1>2, <1>3, <1>4, <1>5, <1>6 DEF Steps

\* The client deleted by a read thread: half, or whole and the user told so.
Deleted ==
  /\ client # "null" /\ DeletedByReader
  /\ strays' \subseteq strays \union HeldByReader
  /\ UNCHANGED <<present, listening, main, tag, inroster, asked, server, events>>

Ignored ==
  /\ reader.at = "user" /\ reader.packet.kind = "otherlogin"
  /\ reader' = Recv
  /\ UNCHANGED <<present, client, socket, entries, listening, pinger, strays, main, tag, jabber,
                 server, events, race, raced>>

LEMMA OtherLogins ==
  ASSUME Control, ~fault', OtherLogin \/ \E s \in strays : StrayOtherLogin(s)
  PROVE  Deleted \/ Ignored
<1>1. CASE OtherLogin
  BY <1>1 DEF OtherLogin, Deleted, Ignored, Recv, Control, jabber, server
<1>2. ASSUME NEW s \in strays, StrayOtherLogin(s)
      PROVE  Deleted
  BY <1>2 DEF StrayOtherLogin, Deleted, server
<1>. QED BY <1>1, <1>2

LEMMA ControlStep ==
  ASSUME Control, ~fault', UNCHANGED vars \/ Steps
  PROVE  Control'
<1>1. CASE UNCHANGED vars
  BY <1>1 DEF vars, jabber, server, Control
<1>2. ASSUME NEW P, NewClient(P) PROVE Control'
  BY <1>2 DEF NewClient, Event, Control
<1>3. ASSUME NEW P, Served(P) \/ Unserved(P) \/ Goodbye(P) PROVE Control'
  <2>1. CASE Served(P)
    BY <2>1 DEF Served, Event, Control, jabber, server
  <2>2. CASE Unserved(P)
    BY <2>2 DEF Unserved, Event, Control, jabber, server
  <2>3. CASE Goodbye(P)
    BY <2>3 DEF Goodbye, Met, Event, Control, jabber, server
  <2>. QED BY <1>3, <2>1, <2>2, <2>3
<1>4. CASE Attach \/ SendStatus \/ MirrorPresence \/ SendTag
  <2>1. CASE Attach
    BY <2>1 DEF Attach, Control, jabber, server
  <2>2. CASE SendStatus \/ MirrorPresence \/ SendTag
    BY <2>2 DEF SendStatus, MirrorPresence, SendTag, Control, jabber, server
  <2>. QED BY <1>4, <2>1, <2>2
<1>5. CASE Disconnect \/ DeleteClient
  <2>1. CASE Disconnect
    <3>1. client # "null"
      BY <2>1 DEF Disconnect, Sending, Following, Control
    <3>. QED BY <2>1, <3>1 DEF Disconnect, Idle, Control, jabber, server
  <2>2. CASE DeleteClient
    BY <2>2 DEF DeleteClient, Control, jabber, server
  <2>. QED BY <1>5, <2>1, <2>2
<1>6. ASSUME NEW b \in Buddy, Subscribed(b) \/ Unsubscribe(b) PROVE Control'
  <2>1. CASE Subscribed(b)
    <3>1. present # {}
      BY <2>1 DEF Subscribed, Control
    <3>2. /\ main = "idle" /\ main' \in {"insert", "accept"} /\ race \subseteq race'
          /\ UNCHANGED <<pinger, present, client, socket, entries, reader, mirror>>
      BY <2>1 DEF Subscribed, Met, jabber
    <3>. QED BY <3>1, <3>2 DEF Control
  <2>2. CASE Unsubscribe(b)
    <3>1. UNCHANGED <<main, pinger, present, client, socket, entries, reader, mirror>> /\ race \subseteq race'
      BY <2>2 DEF Unsubscribe, Met
    <3>. QED BY <3>1 DEF Control
  <2>. QED BY <1>6, <2>1, <2>2
<1>7. CASE Ping \/ Pinged \/ Take \/ ListListener \/ UserListener
  <2>1. CASE Ping \/ Pinged
    BY <2>1 DEF Ping, Pinged, Control, jabber, server
  <2>2. CASE Take
    BY <2>2 DEF Take, Control, jabber, server
  <2>3. CASE ListListener
    BY <2>3 DEF ListListener, ListTurn, Control, jabber, server
  <2>4. CASE UserListener
    BY <2>4 DEF UserListener, Control, jabber, server
  <2>. QED BY <1>7, <2>1, <2>2, <2>3, <2>4
<1>8. CASE Deleted \/ Ignored
  BY <1>8 DEF Deleted, DeletedByReader, Ignored, Recv, Idle, Control, jabber, server
<1>9. CASE ReaderEnds
  BY <1>9 DEF ReaderEnds, Idle, Control, jabber, server
<1>10. ASSUME NEW s \in strays, StrayEnds(s) \/ StrayListListener(s) \/ StrayUserListener(s)
       PROVE  Control'
  BY <1>10 DEF StrayEnds, StrayListListener, StrayUserListener, ListTurn, Control, jabber, server
<1>11. CASE Sends
  <2>1. UNCHANGED <<main, pinger, present, client, socket, entries, reader, mirror, race>>
    BY <1>11 DEF Sends, SendOnline, SendMessage, SendGame, SendRemoved, SendNames, SendOtherLogin,
       Deliver, jabber
  <2>. QED BY <2>1 DEF Control
<1>12. CASE Insert
  BY <1>12 DEF Insert, Met, Control, server
<1>. QED BY <1>1, <1>2, <1>3, <1>4, <1>5, <1>6, <1>7, <1>8, <1>9, <1>10, <1>11, <1>12, OtherLogins DEF Steps

LEMMA ControlSuffices == Control => ServedWhilePresent
BY DEF Control, ServedWhilePresent

-----------------------------------------------------------------------------
(* What the User does with a packet *)

LEMMA HandleNames ==
  ASSUME NEW t \in Seq(Buddy), entries \in Seq(Rows), Handle(NamesOf(t))
  PROVE  /\ inroster' = inroster /\ shown' = shown /\ fault' \in Following
         /\ asked \subseteq asked'
         /\ \A b \in Has(entries) : InRoster(b) \/ b \in asked'
<1>1. /\ inroster' = inroster /\ shown' = shown /\ fault' \in Following
      /\ asked' = asked \union {entries[i].username :
                     i \in {k \in 1..Len(entries) : ~InRoster(entries[k].username)}}
  BY PacketKinds DEF Handle
<1>. QED BY <1>1 DEF Has

LEMMA HandleOnline ==
  ASSUME NEW b \in Buddy, NEW s, entries \in Seq(Rows), Handle(Online(b, s)),
         shown \in [Buddy -> {"none", "on", "off"}]
  PROVE  /\ inroster' = inroster /\ asked' = asked /\ fault' \in Following
         /\ shown' \in [Buddy -> {"none", "on", "off"}]
         /\ \A c \in Buddy : c # b \/ c \notin Has(entries) \/ ~InRoster(c) => shown'[c] = shown[c]
         /\ b \in Has(entries) /\ InRoster(b) /\ Distinct(entries) =>
              (shown'[b] = "on" <=> b \in On(entries))
<1> DEFINE p == Online(b, s)
           i == IndexById(entries, UserId[b])
<1>1. p.kind = "online" /\ p.items[1].id = UserId[b]
  BY PacketKinds
<1>. HIDE DEF p
<1>2. /\ inroster' = inroster /\ asked' = asked /\ fault' \in Following
      /\ shown' = IF i = 0 \/ ~InRoster(entries[i].username) THEN shown
                  ELSE [shown EXCEPT ![entries[i].username] = OnOff(IsOnline(entries[i]))]
  <2>1. Handle(p)
    BY DEF p
  <2>. QED BY <1>1, <2>1 DEF Handle
<1>3. Len(entries) \in Nat /\ \A k \in 1..Len(entries) : entries[k] \in Rows
  BY LenProperties, ElementOfSeq
<1>4. \A k \in 1..Len(entries) : entries[k].userid = UserId[b] <=> entries[k].username = b
  BY <1>3, RowsFacts, Ids
<1>5. CASE i = 0
  <2>1. i \notin 1..Len(entries)
    BY <1>3, <1>5
  <2>2. b \notin Has(entries)
    BY <1>4, <2>1, IndexByIdFacts DEF Has
  <2>. QED BY <1>2, <1>5, <2>2
<1>6. CASE i # 0
  <2>1. i \in 1..Len(entries) /\ entries[i].username = b
    BY <1>4, <1>6, IndexByIdFacts
  <2>. HIDE DEF i
  <2>2. b \in Has(entries) /\ (IsOnline(entries[i]) => b \in On(entries))
    BY <2>1 DEF Has, On
  <2>3. Distinct(entries) /\ b \in On(entries) => IsOnline(entries[i])
    BY <2>1 DEF On, Distinct
  <2>4. OnOff(IsOnline(entries[i])) \in {"on", "off"} /\ (OnOff(IsOnline(entries[i])) = "on" <=> IsOnline(entries[i]))
    BY DEF OnOff
  <2>5. shown' = IF ~InRoster(b) THEN shown ELSE [shown EXCEPT ![b] = OnOff(IsOnline(entries[i]))]
    BY <1>2, <1>6, <2>1
  <2>. HIDE DEF InRoster
  <2>. QED BY <1>2, <2>2, <2>3, <2>4, <2>5
<1>. QED BY <1>5, <1>6

\* A games packet has a presence sent, of a buddy who is online.
LEMMA HandleGames ==
  ASSUME NEW b \in Buddy, entries \in Seq(Rows), Handle(Games(b)),
         shown \in [Buddy -> {"none", "on", "off"}]
  PROVE  /\ inroster' = inroster /\ asked' = asked /\ fault' \in Following
         /\ shown' \in [Buddy -> {"none", "on", "off"}]
         /\ \A c \in Buddy : c # b \/ c \notin Has(entries) \/ ~InRoster(c) => shown'[c] = shown[c]
         /\ shown'[b] = shown[b] \/ (shown'[b] = "on" /\ b \in On(entries))
<1> DEFINE p == Games(b)
           i == IndexBySid(entries, UserId[b])
<1>1. p.kind = "games" /\ p.items[1].sid = UserId[b]
  BY PacketKinds
<1>. HIDE DEF p
<1>2. /\ inroster' = inroster /\ asked' = asked /\ fault' \in Following
      /\ shown' = IF i = 0 \/ ~InRoster(entries[i].username) THEN shown
                  ELSE [shown EXCEPT ![entries[i].username] = OnOff(IsOnline(entries[i]))]
  <2>1. Handle(p)
    BY DEF p
  <2>. QED BY <1>1, <2>1 DEF Handle
<1>3. Len(entries) \in Nat /\ \A k \in 1..Len(entries) : entries[k] \in Rows
  BY LenProperties, ElementOfSeq
<1>4. CASE i = 0
  BY <1>2, <1>4
<1>5. CASE i # 0
  <2>1. i \in 1..Len(entries) /\ entries[i].sid = UserId[b]
    BY <1>5, IndexBySidFacts
  <2>. HIDE DEF i
  <2>2. entries[i].username = b /\ IsOnline(entries[i])
    <3>1. entries[i] \in Rows
      BY <1>3, <2>1
    <3>2. /\ entries[i].username \in Buddy /\ entries[i].userid = UserId[entries[i].username]
          /\ entries[i].sid \in {NoSid, entries[i].userid}
      BY <3>1, RowsFacts
    <3>. QED BY <2>1, <3>2, Ids DEF IsOnline
  <2>3. b \in Has(entries) /\ b \in On(entries)
    BY <2>1, <2>2 DEF Has, On
  <2>4. OnOff(IsOnline(entries[i])) = "on"
    BY <2>2 DEF OnOff
  <2>5. shown' = IF ~InRoster(b) THEN shown ELSE [shown EXCEPT ![b] = "on"]
    BY <1>2, <1>5, <2>2, <2>4
  <2>. HIDE DEF InRoster
  <2>. QED BY <1>2, <2>3, <2>5
<1>. QED BY <1>4, <1>5

LEMMA HandleMessage ==
  ASSUME NEW b \in Buddy, entries \in Seq(Rows), Handle(Message(b))
  PROVE  /\ inroster' = inroster /\ asked' = asked /\ shown' = shown
         /\ b \in On(entries) => fault' \in Following
<1> DEFINE p == Message(b)
<1>1. p.kind = "message" /\ p.sid = UserId[b] /\ Handle(p)
  BY PacketKinds
<1>. HIDE DEF p
<1>2. /\ inroster' = inroster /\ asked' = asked /\ shown' = shown
      /\ fault' \in IF IndexBySid(entries, UserId[b]) = 0 THEN {TRUE} ELSE Following
  BY <1>1 DEF Handle
<1>3. ASSUME b \in On(entries)
      PROVE  IndexBySid(entries, UserId[b]) # 0
  <2>1. PICK i \in 1..Len(entries) : entries[i].username = b /\ IsOnline(entries[i])
    BY <1>3 DEF On
  <2>2. entries[i] \in Rows
    BY ElementOfSeq
  <2>3. entries[i].sid = UserId[b]
    BY <2>1, <2>2, RowsFacts DEF IsOnline
  <2>. QED BY <2>3, IndexBySidFacts
<1>. QED BY <1>2, <1>3

\* Taking one off the roster leaves everybody else.
LEMMA WithoutFacts ==
  ASSUME NEW s \in Seq(Buddy), NEW k \in 1..Len(s)
  PROVE  /\ RemoveAt(s, k) \in Seq(Buddy)
         /\ \A c : Contains(RemoveAt(s, k), c) => Contains(s, c)
         /\ \A c : c # s[k] => (Contains(RemoveAt(s, k), c) <=> Contains(s, c))
<1> DEFINE r == RemoveAt(s, k)
           n == s[k]
<1>1. Len(s) \in Nat
  BY LenProperties
<1>2. /\ r \in Seq(Buddy) /\ Len(r) = Len(s) - 1
      /\ \A m \in 1..(Len(s) - 1) : r[m] = IF m < k THEN s[m] ELSE s[m + 1]
  BY RemoveAtFacts
<1>. HIDE DEF r
<1> DEFINE old(m) == IF m < k THEN m ELSE m + 1
<1>3. \A m \in 1..Len(r) : old(m) \in 1..Len(s) /\ old(m) # k /\ r[m] = s[old(m)]
  BY <1>1, <1>2
<1>4. \A o \in 1..Len(s) : o # k => \E m \in 1..Len(r) : r[m] = s[o]
  <2>. TAKE o \in 1..Len(s)
  <2>. HAVE o # k
  <2> DEFINE m == IF o < k THEN o ELSE o - 1
  <2>1. m \in 1..Len(r) /\ old(m) = o
    BY <1>1, <1>2
  <2>. HIDE DEF m, old
  <2>. QED BY <1>3, <2>1
<1>. HIDE DEF old
<1>5. \A c : Contains(r, c) => Contains(s, c)
  BY <1>3 DEF Contains
<1>6. ASSUME NEW c, c # n
      PROVE  Contains(s, c) => Contains(r, c)
  <2>1. ASSUME NEW o \in 1..Len(s), s[o] = c
        PROVE  Contains(r, c)
    <3>1. o # k
      BY <1>6, <2>1
    <3>. QED BY <1>4, <2>1, <3>1 DEF Contains
  <2>. QED BY <2>1 DEF Contains
<1>. QED BY <1>2, <1>5, <1>6 DEF r

LEMMA Entered ==
  ASSUME NEW s, NEW n
  PROVE  LET k == SelectInSeq(s, LAMBDA c : c = n)
         IN  \/ k = 0 /\ (\A i \in 1..Len(s) : s[i] # n)
             \/ k \in 1..Len(s) /\ s[k] = n
<1> DEFINE I == {i \in 1..Len(s) : s[i] = n}
           k == SelectInSeq(s, LAMBDA c : c = n)
<1>1. k = IF I # {} THEN Min(I) ELSE 0
  BY DEF SelectInSeq
<1>2. I \in SUBSET Nat
  OBVIOUS
<1>3. I # {} => Min(I) \in I
  BY <1>2, LeastOfNat
<1>. QED BY <1>1, <1>3

LEMMA HandleRemoved ==
  ASSUME NEW b \in Buddy, NEW n, Handle(Removed(b, n)), JabberFits
  PROVE  /\ fault' = fault
         /\ inroster' \in Seq(Buddy) /\ shown' \in [Buddy -> {"none", "on", "off"}]
         /\ \A c \in Buddy : shown'[c] = IF c = n THEN "none" ELSE shown[c]
         /\ \A c \in Buddy : c # n => (InRoster(c)' <=> InRoster(c))
         /\ \A c \in Buddy : c # n => (c \in asked' <=> c \in asked)
         /\ \A c \in Buddy : InRoster(c)' => InRoster(c)
<1> DEFINE p == Removed(b, n)
<1>1. p.kind = "removed" /\ p.name = n /\ Handle(p)
  BY PacketKinds
<1>. HIDE DEF p
<1>2. /\ shown' = [c \in Buddy |-> IF c = p.name THEN "none" ELSE shown[c]]
      /\ asked' = asked \ {p.name}
      /\ fault' = fault
  BY <1>1 DEF Handle
<1>3. inroster \in Seq(Buddy) /\ Len(inroster) \in Nat /\ shown \in [Buddy -> {"none", "on", "off"}]
  BY LenProperties DEF JabberFits
<1>4. shown' \in [Buddy -> {"none", "on", "off"}]
  BY <1>2, <1>3
<1>5. \E k : /\ inroster' = IF k = 0 THEN inroster ELSE RemoveAt(inroster, k)
             /\ \/ k = 0 /\ \A i \in 1..Len(inroster) : inroster[i] # p.name
                \/ k \in 1..Len(inroster) /\ inroster[k] = p.name
  <2> DEFINE k == SelectInSeq(inroster, LAMBDA c : c = p.name)
  <2>1. inroster' = IF k = 0 THEN inroster ELSE RemoveAt(inroster, k)
    BY <1>1 DEF Handle
  <2>2. \/ k = 0 /\ \A i \in 1..Len(inroster) : inroster[i] # p.name
        \/ k \in 1..Len(inroster) /\ inroster[k] = p.name
    BY Entered
  <2>. HIDE DEF k
  <2>. QED BY <2>1, <2>2
<1>6. /\ inroster' \in Seq(Buddy)
      /\ \A c : Contains(inroster', c) => Contains(inroster, c)
      /\ \A c : c # p.name => (Contains(inroster', c) <=> Contains(inroster, c))
  <2>1. PICK k : /\ inroster' = IF k = 0 THEN inroster ELSE RemoveAt(inroster, k)
                 /\ \/ k = 0 /\ \A i \in 1..Len(inroster) : inroster[i] # p.name
                    \/ k \in 1..Len(inroster) /\ inroster[k] = p.name
    BY <1>5
  <2>2. CASE k = 0
    <3>1. inroster' = inroster
      BY <2>1, <2>2
    <3>. QED BY <1>3, <3>1
  <2>3. CASE k # 0
    <3>1. inroster' = RemoveAt(inroster, k) /\ k \in 1..Len(inroster) /\ inroster[k] = p.name
      BY <2>1, <2>3
    <3>. QED BY <1>3, <3>1, WithoutFacts
  <2>. QED BY <2>2, <2>3
<1>7. \A c : c # n => (Contains(inroster', c) <=> Contains(inroster, c))
  BY <1>1, <1>6
<1>8. \A c : Contains(inroster', c) => Contains(inroster, c)
  BY <1>6
<1>. QED BY <1>1, <1>2, <1>4, <1>6, <1>7, <1>8 DEF InRoster

LEMMA RosterSame ==
  ASSUME inroster' = inroster
  PROVE  \A b : InRoster(b)' <=> InRoster(b)
BY DEF InRoster, Contains

\* Whoever a packet is not about, it leaves alone; nobody comes to be shown
\* online who is not in the buddy list and in the roster.
LEMMA HandleFacts ==
  ASSUME NEW p \in Handed, p # OtherLoginPacket, Handle(p), entries \in Seq(Rows), JabberFits
  PROVE  /\ inroster' \in Seq(Buddy) /\ shown' \in [Buddy -> {"none", "on", "off"}]
         /\ \A b \in Buddy \ About(p) :
              /\ shown'[b] = shown[b]
              /\ InRoster(b)' <=> InRoster(b)
              /\ b \in asked => b \in asked'
         /\ \A b \in Buddy : shown'[b] = "on" =>
              shown[b] = "on" \/ (InRoster(b) /\ b \in Has(entries) /\ b \in About(p))
         /\ \A b \in Buddy : InRoster(b)' => InRoster(b)
         /\ \A b \in Buddy : shown'[b] = "on" => (InRoster(b)' <=> InRoster(b))
<1> DEFINE Goal == /\ inroster' \in Seq(Buddy) /\ shown' \in [Buddy -> {"none", "on", "off"}]
                   /\ \A b \in Buddy \ About(p) :
                        /\ shown'[b] = shown[b]
                        /\ InRoster(b)' <=> InRoster(b)
                        /\ b \in asked => b \in asked'
                   /\ \A b \in Buddy : shown'[b] = "on" =>
                        shown[b] = "on" \/ (InRoster(b) /\ b \in Has(entries) /\ b \in About(p))
                   /\ \A b \in Buddy : InRoster(b)' => InRoster(b)
                   /\ \A b \in Buddy : shown'[b] = "on" => (InRoster(b)' <=> InRoster(b))
<1>0. inroster \in Seq(Buddy) /\ shown \in [Buddy -> {"none", "on", "off"}]
  BY DEF JabberFits
<1>1. ASSUME inroster' = inroster, shown' = shown, asked \subseteq asked'
      PROVE  Goal
  BY <1>0, <1>1, RosterSame
<1>2. ASSUME NEW t \in Seq(Buddy), p = NamesOf(t)
      PROVE  Goal
  <2>1. inroster' = inroster /\ shown' = shown /\ asked \subseteq asked'
    BY <1>2, HandleNames
  <2>. QED BY <1>1, <2>1
<1>3. ASSUME NEW b \in Buddy, p = Message(b)
      PROVE  Goal
  <2>1. inroster' = inroster /\ shown' = shown /\ asked \subseteq asked'
    BY <1>3, HandleMessage
  <2>. QED BY <1>1, <2>1
<1>4. ASSUME NEW b \in Buddy, NEW s, p = Online(b, s)
      PROVE  Goal
  <2>1. /\ inroster' = inroster /\ asked' = asked
        /\ shown' \in [Buddy -> {"none", "on", "off"}]
        /\ \A c \in Buddy : c # b \/ c \notin Has(entries) \/ ~InRoster(c) => shown'[c] = shown[c]
    BY <1>0, <1>4, HandleOnline
  <2>2. About(p) = {b}
    BY <1>4, PacketsAreAbout
  <2>3. inroster' \in Seq(Buddy)
    BY <1>0, <2>1
  <2>4. \A c \in Buddy : InRoster(c)' <=> InRoster(c)
    BY <2>1, RosterSame
  <2>. HIDE DEF InRoster
  <2>. QED BY <2>1, <2>2, <2>3, <2>4
<1>5. ASSUME NEW b \in Buddy, NEW n, n = Unnamed \/ n = b, p = Removed(b, n)
      PROVE  Goal
  <2>1. /\ inroster' \in Seq(Buddy) /\ shown' \in [Buddy -> {"none", "on", "off"}]
        /\ \A c \in Buddy : shown'[c] = IF c = n THEN "none" ELSE shown[c]
        /\ \A c \in Buddy : c # n => (InRoster(c)' <=> InRoster(c))
        /\ \A c \in Buddy : c # n => (c \in asked' <=> c \in asked)
        /\ \A c \in Buddy : InRoster(c)' => InRoster(c)
    BY <1>5, HandleRemoved
  <2>2. About(p) = {b} /\ \A c \in Buddy : c # b => c # n
    <3>1. Unnamed \notin Buddy
      BY GatewayUserAssumption DEF Unnamed
    <3>. QED BY <1>5, <3>1, PacketsAreAbout
  <2>3. \A c \in Buddy : shown'[c] = "on" => c # n
    BY <2>1
  <2>4. \A c \in Buddy : shown'[c] = "on" => shown[c] = "on"
    BY <2>1, <2>3
  <2>. HIDE DEF InRoster
  <2>. QED BY <2>1, <2>2, <2>3, <2>4
<1>6. ASSUME NEW b \in Buddy, p = Games(b)
      PROVE  Goal
  <2>1. /\ inroster' = inroster /\ asked' = asked
        /\ shown' \in [Buddy -> {"none", "on", "off"}]
        /\ \A c \in Buddy : c # b \/ c \notin Has(entries) \/ ~InRoster(c) => shown'[c] = shown[c]
    BY <1>0, <1>6, HandleGames
  <2>2. About(p) = {b}
    BY <1>6, PacketsAreAbout
  <2>3. inroster' \in Seq(Buddy)
    BY <1>0, <2>1
  <2>4. \A c \in Buddy : InRoster(c)' <=> InRoster(c)
    BY <2>1, RosterSame
  <2>. HIDE DEF InRoster
  <2>. QED BY <2>1, <2>2, <2>3, <2>4
<1>7. Goal
  BY <1>2, <1>3, <1>4, <1>5, <1>6, HandedCases
<1>. QED BY <1>7

-----------------------------------------------------------------------------
(* What packets, entries and roster there can be *)

\* The list a client is sent when he logs in: every friend, once.
LEMMA ServerList ==
  ASSUME ServerFits
  PROVE  LET order == SetToSeq(friends)
         IN  /\ order \in Seq(Buddy)
             /\ \A i, k \in 1..Len(order) : i # k => order[i] # order[k]
             /\ Listed(order) = friends
<1> DEFINE order == SetToSeq(friends)
           n == Cardinality(friends)
<1>1. friends \subseteq Buddy /\ IsFiniteSet(friends)
  BY GatewayUserAssumption, FS_Subset DEF ServerFits
<1>2. n \in Nat /\ ExistsBijection(1..n, friends)
  BY <1>1, FS_CardinalityType
<1>3. \E f \in [1..n -> friends] : IsInjective(f)
  BY <1>2 DEF ExistsBijection, Bijection, Injection
<1>4. order \in [1..n -> friends] /\ IsInjective(order)
  BY <1>3 DEF SetToSeq
<1>. HIDE DEF order
<1>5. order \in Surjection(1..n, friends)
  <2>1. order \in Injection(1..n, friends) /\ IsFiniteSet(1..n) /\ Cardinality(1..n) = n
    <3>1. IsFiniteSet(1..n) /\ Cardinality(1..n) = n
      BY <1>2, FS_Interval
    <3>. QED BY <1>4, <3>1 DEF Injection
  <2>. HIDE DEF n
  <2>2. Cardinality(1..n) = Cardinality(friends) <=> order \in Surjection(1..n, friends)
    BY <1>1, <2>1, FS_Injection
  <2>. QED BY <2>1, <2>2 DEF n
<1>. HIDE DEF n
<1>6. order \in Seq(Buddy) /\ Len(order) = n /\ DOMAIN order = 1..n
  <2>1. order \in [1..n -> Buddy]
    BY <1>1, <1>4
  <2>. QED BY <1>2, <2>1, FunctionIsSeq
<1>7. \A i, k \in 1..Len(order) : i # k => order[i] # order[k]
  BY <1>4, <1>6 DEF IsInjective
<1>8. Listed(order) = friends
  <2>1. \A b \in friends : \E i \in 1..n : order[i] = b
    BY <1>5 DEF Surjection
  <2>2. \A i \in 1..n : order[i] \in friends
    BY <1>4
  <2>. QED BY <1>1, <1>6, <2>1, <2>2 DEF Listed, Contains
<1>. QED BY <1>6, <1>7, <1>8 DEF order

\* BuddyList names whom it removes.
LEMMA NamedFacts ==
  ASSUME NEW p \in Sendable, entries \in Seq(Rows)
  PROVE  /\ Named(p) \in Handed
         /\ p.kind # "removed" => Named(p) = p
         /\ \A b \in Buddy : p = Removed(b, Unnamed) =>
              Named(p) = IF b \in Has(entries) THEN Removed(b, b) ELSE p
<1>1. Sendable \subseteq Handed
  BY DEF Handed
<1>2. p.kind # "removed" => Named(p) = p
  BY DEF Named
<1>3. ASSUME NEW b \in Buddy, p = Removed(b, Unnamed)
      PROVE  Named(p) = IF b \in Has(entries) THEN Removed(b, b) ELSE p
  <2> DEFINE i == IndexById(entries, UserId[b])
  <2>1. Len(entries) \in Nat /\ \A k \in 1..Len(entries) : entries[k] \in Rows
    BY LenProperties, ElementOfSeq
  <2>2. \A k \in 1..Len(entries) : entries[k].userid = UserId[b] <=> entries[k].username = b
    BY <2>1, RowsFacts, Ids
  <2>3. p.kind = "removed" /\ p.id = UserId[b]
    BY <1>3, PacketKinds
  <2>4. Named(p) = IF i # 0 THEN [p EXCEPT !.name = entries[i].username] ELSE p
    BY <2>3 DEF Named
  <2>5. CASE i = 0
    <3>1. i \notin 1..Len(entries)
      BY <2>1, <2>5
    <3>2. b \notin Has(entries)
      BY <2>2, <3>1, IndexByIdFacts DEF Has
    <3>. QED BY <2>4, <2>5, <3>2
  <2>6. CASE i # 0
    <3>1. i \in 1..Len(entries) /\ entries[i].username = b
      BY <2>2, <2>6, IndexByIdFacts
    <3>. HIDE DEF i
    <3>2. b \in Has(entries)
      BY <3>1 DEF Has
    <3>3. Named(p) = [Removed(b, Unnamed) EXCEPT !.name = b]
      BY <1>3, <2>4, <2>6, <3>1
    <3>4. [Removed(b, Unnamed) EXCEPT !.name = b] = Removed(b, b)
      <4>1. \A j, m, n : [[kind |-> "removed", id |-> j, name |-> m] EXCEPT !.name = n]
                           = [kind |-> "removed", id |-> j, name |-> n]
        OBVIOUS
      <4>. QED BY ONLY <4>1 DEF Removed
    <3>. QED BY <3>2, <3>3, <3>4
  <2>. QED BY <2>5, <2>6
<1>4. Named(p) \in Handed
  <2>1. CASE p.kind # "removed"
    BY <1>1, <1>2, <2>1
  <2>2. CASE p.kind = "removed"
    <3>1. PICK b \in Buddy : p = Removed(b, Unnamed)
      BY <2>2, SendableKinds
    <3>2. Removed(b, b) \in Handed
      BY DEF Handed
    <3>. QED BY <1>1, <1>3, <3>1, <3>2
  <2>. QED BY <2>1, <2>2
<1>. QED BY <1>2, <1>3, <1>4

\* Whatever a stray makes of a buddy list, rows stay rows.
LEMMA ResultsFit ==
  ASSUME NEW es \in Seq(Rows), NEW p \in Sendable, NEW new \in Results(es, p)
  PROVE  new \in Seq(Rows)
<1>1. CASE p = OtherLoginPacket \/ \E b \in Buddy : p = Message(b)
  BY <1>1, NoEffect
<1>2. ASSUME NEW b \in Buddy, p = Removed(b, Unnamed)
      PROVE  new \in Seq(Rows)
  <2>1. new \in Results(es, Removed(b, Unnamed))
    BY <1>2
  <2>. QED BY <2>1, RemovedEffect
<1>3. ASSUME NEW b \in Buddy, NEW s \in {NoSid, UserId[b]}, p = Online(b, s)
      PROVE  new \in Seq(Rows)
  <2>1. new \in Results(es, Online(b, s))
    BY <1>3
  <2>. QED BY <2>1, OnlineEffect
<1>4. ASSUME NEW t \in Seq(Buddy), p = NamesOf(t)
      PROVE  new \in Seq(Rows)
  <2>1. new \in Results(es, NamesOf(t))
    BY <1>4
  <2>. QED BY <2>1, NamesEffect
<1>5. ASSUME NEW b \in Buddy, p = Games(b)
      PROVE  new \in Seq(Rows)
  <2>1. new \in Results(es, Games(b))
    BY <1>5
  <2>. QED BY <2>1, GamesEffect
<1>. QED BY <1>1, <1>2, <1>3, <1>4, <1>5, SendableCases

\* Every packet of the server tells what happened at the server.
LEMMA ServerIs ==
  /\ Server.has = friends /\ Server.on = online /\ Server'.has = friends' /\ Server'.on = online'
  /\ ServerFits => Server \in Views
BY DEF Server, ServerFits, Views

LEMMA FriendshipEnds ==
  ASSUME ServerFits, NEW b \in friends, EndFriendship(b)
  PROVE  /\ wire' = Append(wire, Removed(b, Unnamed)) /\ Removed(b, Unnamed) \in Sendable
         /\ ServerFits'
         /\ Tells(Server, Removed(b, Unnamed), Server')
<1>1. b \in Buddy /\ ServerFits' /\ friends' = friends \ {b} /\ online' = online \ {b}
  BY DEF EndFriendship, ServerFits
<1>2. wire' = Append(wire, Removed(b, Unnamed))
  BY DEF EndFriendship, Removed, Unnamed
<1>3. Removed(b, Unnamed) \in Sendable
  BY <1>1 DEF Sendable
<1>4. Server' = [has |-> friends \ {b}, on |-> online \ {b}]
  BY <1>1 DEF Server
<1>5. Tells(Server, Removed(b, Unnamed), Server')
  BY <1>4, ServerIs DEF Tells
<1>. QED BY <1>1, <1>2, <1>3, <1>5

LEMMA ServerSends ==
  ASSUME ServerFits,
         Sends
  PROVE  /\ ServerFits' /\ socket = "open"
         /\ \E p \in Sendable : wire' = Append(wire, p) /\ Tells(Server, p, Server')
         /\ UNCHANGED <<present, client, socket, entries, listening, reader, pinger, strays, main,
                        tag, inroster, asked, shown, mirror, fault, race, raced>>
<1> DEFINE Goal == /\ ServerFits' /\ socket = "open"
                   /\ \E p \in Sendable : wire' = Append(wire, p) /\ Tells(Server, p, Server')
                   /\ UNCHANGED <<present, client, socket, entries, listening, reader, pinger,
                                  strays, main, tag, inroster, asked, shown, mirror, fault, race,
                                  raced>>
<1>1. ASSUME NEW p \in Sendable, Deliver(p), ServerFits', Tells(Server, p, Server')
      PROVE  Goal
  BY <1>1 DEF Deliver, jabber
<1>2. ASSUME NEW b \in Buddy, SendOnline(b)
      PROVE  Goal
  <2> DEFINE s == IF b \in online THEN NoSid ELSE UserId[b]
  <2>1. /\ b \in friends /\ friends' = friends /\ Deliver(Online(b, s))
        /\ online' = IF b \in online THEN online \ {b} ELSE online \union {b}
    BY <1>2 DEF SendOnline, Online
  <2>2. ServerFits'
    BY <2>1 DEF ServerFits
  <2>3. CASE b \in online
    <3>1. Server' = [has |-> friends, on |-> online \ {b}] /\ Deliver(Online(b, NoSid))
      BY <2>1, <2>3 DEF Server
    <3>2. Tells(Server, Online(b, NoSid), Server') /\ Online(b, NoSid) \in Sendable
      BY <2>1, <3>1, ServerIs DEF Tells, Sendable
    <3>. QED BY <1>1, <2>2, <3>1, <3>2
  <2>4. CASE b \notin online
    <3>1. Server' = [has |-> friends, on |-> online \union {b}] /\ Deliver(Online(b, UserId[b]))
      BY <2>1, <2>4 DEF Server
    <3>2. Tells(Server, Online(b, UserId[b]), Server') /\ Online(b, UserId[b]) \in Sendable
      BY <2>1, <3>1, ServerIs DEF Tells, Sendable
    <3>. QED BY <1>1, <2>2, <3>1, <3>2
  <2>. QED BY <2>3, <2>4
<1>3. ASSUME NEW b \in Buddy, SendMessage(b)
      PROVE  Goal
  <2>1. b \in online /\ friends' = friends /\ online' = online /\ Deliver(Message(b))
    BY <1>3 DEF SendMessage, Message
  <2>2. ServerFits' /\ Server' = Server /\ Message(b) \in Sendable
    BY <2>1 DEF ServerFits, Server, Sendable
  <2>3. Tells(Server, Message(b), Server')
    BY <2>1, <2>2, ServerIs DEF Tells
  <2>. QED BY <1>1, <2>1, <2>2, <2>3
<1>7. ASSUME NEW b \in Buddy, SendGame(b)
      PROVE  Goal
  <2>1. b \in online /\ friends' = friends /\ online' = online /\ Deliver(Games(b))
    BY <1>7 DEF SendGame, Games
  <2>2. ServerFits' /\ Server' = Server /\ Games(b) \in Sendable
    BY <2>1 DEF ServerFits, Server, Sendable
  <2>3. Tells(Server, Games(b), Server')
    BY <2>1, <2>2, ServerIs DEF Tells
  <2>. QED BY <1>1, <2>1, <2>2, <2>3
<1>4. ASSUME NEW b \in Buddy, SendRemoved(b)
      PROVE  Goal
  BY <1>4, FriendshipEnds DEF SendRemoved, jabber
<1>5. ASSUME NEW b \in Buddy, SendNames(b)
      PROVE  Goal
  <2>1. b \notin friends /\ friends' = friends \union {b} /\ online' = online
    BY <1>5 DEF SendNames
  <2>2. ServerFits'
    BY <2>1 DEF ServerFits
  <2>3. <<b>> \in Seq(Buddy) /\ Len(<<b>>) = 1 /\ <<b>>[1] = b
    OBVIOUS
  <2>4. NamesOf(<<b>>) = [kind |-> "names", items |-> <<[name |-> b, id |-> UserId[b], nick |-> b]>>]
    <3> DEFINE item(k) == [name |-> <<b>>[k], id |-> UserId[<<b>>[k]], nick |-> <<b>>[k]]
               r == [name |-> b, id |-> UserId[b], nick |-> b]
    <3>1. item(1) = r
      BY <2>3
    <3>. HIDE DEF item, r
    <3>2. [k \in 1..1 |-> item(k)] = <<r>>
      BY <3>1
    <3>3. [k \in 1..Len(<<b>>) |-> item(k)] = <<r>>
      BY <2>3, <3>2
    <3>. QED BY <3>3 DEF item, r, NamesOf
  <2>5. Deliver(NamesOf(<<b>>))
    BY <1>5, <2>4 DEF SendNames
  <2>6. NamesOf(<<b>>) \in Sendable
    BY <2>3 DEF Sendable
  <2>7. Listed(<<b>>) = {b}
    BY <2>3 DEF Listed, Contains
  <2>8. Server' = [has |-> friends \union {b}, on |-> online]
    BY <2>1 DEF Server
  <2>9. Tells(Server, NamesOf(<<b>>), Server')
    <3> DEFINE t == <<b>>
    <3>1. t \in Seq(Buddy) /\ Listed(t) = {b} /\ \A i, k \in 1..Len(t) : i # k => t[i] # t[k]
      BY <2>3, <2>7
    <3>. HIDE DEF t
    <3>2. /\ Server.has \intersect Listed(t) = {}
          /\ Server' = [has |-> Server.has \union Listed(t), on |-> Server.on]
      BY <2>1, <2>8, <3>1, ServerIs
    <3>3. Tells(Server, NamesOf(t), Server')
      BY <3>1, <3>2 DEF Tells
    <3>. QED BY <3>3 DEF t
  <2>. QED BY <1>1, <2>2, <2>5, <2>6, <2>9
<1>6. CASE SendOtherLogin
  <2>1. friends' = friends /\ online' = online /\ Deliver(OtherLoginPacket)
    BY <1>6 DEF SendOtherLogin, OtherLoginPacket
  <2>2. ServerFits' /\ Server' = Server /\ OtherLoginPacket \in Sendable
    BY <2>1 DEF ServerFits, Server, Sendable
  <2>3. Tells(Server, OtherLoginPacket, Server')
    BY <2>2 DEF Tells
  <2>. QED BY <1>1, <2>1, <2>2, <2>3
<1>. QED BY <1>2, <1>3, <1>4, <1>5, <1>6, <1>7 DEF Sends

\* Logging in starts the packets with the server's list.
LEMMA LogsIn ==
  ASSUME ServerFits, NEW P, NewClient(P), socket' = "open"
  PROVE  /\ reader' = Recv /\ online' = {} /\ friends' = friends /\ entries' = entries
         /\ \E t \in Seq(Buddy) :
              /\ wire' = <<NamesOf(t)>>
              /\ \A i, k \in 1..Len(t) : i # k => t[i] # t[k]
              /\ Listed(t) = friends
<1> DEFINE order == SetToSeq(friends)
<1>1. reader' = Recv /\ wire' = <<NamesOf(order)>>
  BY DEF NewClient, NamesOf, Recv
<1>2. /\ order \in Seq(Buddy)
      /\ \A i, k \in 1..Len(order) : i # k => order[i] # order[k]
      /\ Listed(order) = friends
  BY ServerList
<1>3. online' = {} /\ friends' = friends /\ entries' = entries
  BY DEF NewClient
<1>. HIDE DEF order
<1>. QED BY <1>1, <1>2, <1>3

LEMMA HoldingFacts ==
  /\ \A r \in Holding : (r.at = "list" /\ r.packet \in Sendable) \/ (r.at = "user" /\ r.packet \in Handed)
  /\ \A p \in Sendable : [at |-> "list", packet |-> p] \in Holding
  /\ \A p \in Handed : [at |-> "user", packet |-> p] \in Holding
  /\ Sendable \subseteq Handed
  /\ Idle.at = "none" /\ Recv.at = "recv" /\ Idle.packet = NoPacket /\ Recv.packet = NoPacket
<1>1. \A r \in Holding : (r.at = "list" /\ r.packet \in Sendable) \/ (r.at = "user" /\ r.packet \in Handed)
  BY DEF Holding
<1>2. /\ \A p \in Sendable : [at |-> "list", packet |-> p] \in Holding
      /\ \A p \in Handed : [at |-> "user", packet |-> p] \in Holding
  BY DEF Holding
<1>3. Sendable \subseteq Handed
  BY DEF Handed
<1>4. Idle.at = "none" /\ Recv.at = "recv" /\ Idle.packet = NoPacket /\ Recv.packet = NoPacket
  BY DEF Idle, Recv
<1>. QED BY <1>1, <1>2, <1>3, <1>4

\* Where the read thread is says what it holds.
LEMMA ReaderFacts ==
  ASSUME PacketsFit
  PROVE  /\ reader.at \in {"none", "recv", "list", "user"}
         /\ reader.at = "none" => reader = Idle
         /\ reader.at = "recv" => reader = Recv
         /\ reader.at = "list" => reader \in Holding /\ reader.packet \in Sendable
         /\ reader.at = "user" => reader \in Holding /\ reader.packet \in Handed
         /\ reader.at \in {"none", "recv"} => reader.packet = NoPacket
BY HoldingFacts DEF PacketsFit

\* What each step leaves alone.
Aside == UNCHANGED vars \/ Ping \/ Pinged \/ \E s \in strays : StrayEnds(s)
Serves == Attach \/ SendStatus \/ MirrorPresence \/ \E P : Served(P) \/ Unserved(P)

LEMMA AsideSteps ==
  ASSUME Aside
  PROVE  /\ strays' \subseteq strays
         /\ UNCHANGED <<present, client, socket, entries, listening, reader, main, tag, inroster,
                        asked, shown, mirror, friends, online, wire, race, raced>>
<1>1. CASE UNCHANGED vars
  BY <1>1 DEF vars, jabber, server
<1>2. CASE Ping \/ Pinged
  BY <1>2 DEF Ping, Pinged, jabber, server
<1>3. ASSUME NEW s \in strays, StrayEnds(s)
      PROVE  /\ strays' \subseteq strays
             /\ UNCHANGED <<present, client, socket, entries, listening, reader, main, tag, inroster,
                            asked, shown, mirror, friends, online, wire, race, raced>>
  BY <1>3 DEF StrayEnds, jabber, server
<1>. QED BY <1>1, <1>2, <1>3 DEF Aside

LEMMA MainSteps ==
  ASSUME Serves
  PROVE  /\ race \subseteq race'
         /\ main \in {"idle", "attach", "status", "mirror"} /\ main' \in {"idle", "status", "mirror"}
         /\ UNCHANGED <<client, socket, entries, reader, pinger, strays, tag, inroster, asked, shown,
                        friends, online, wire, raced>>
<1> DEFINE Goal == /\ race \subseteq race'
                   /\ main \in {"idle", "attach", "status", "mirror"} /\ main' \in {"idle", "status", "mirror"}
                   /\ UNCHANGED <<client, socket, entries, reader, pinger, strays, tag, inroster, asked,
                                  shown, friends, online, wire, raced>>
<1>1. CASE Attach
  BY <1>1 DEF Attach, jabber, server
<1>2. CASE SendStatus \/ MirrorPresence
  BY <1>2 DEF SendStatus, MirrorPresence, jabber, server
<1>3. ASSUME NEW P, Served(P) \/ Unserved(P)
      PROVE  Goal
  BY <1>3 DEF Served, Unserved, jabber, server
<1>. QED BY <1>1, <1>2, <1>3 DEF Serves

\* Another log-in ends the client, and its read thread becomes a stray.
LEMMA DeletedFacts ==
  ASSUME Deleted
  PROVE  /\ client # "null" /\ reader' = Idle /\ socket' \in {"closed", "none"}
         /\ "otherlogin" \in race' /\ race \subseteq race'
         /\ shown' = Unavailable(Reached)
         /\ raced' = raced \union Answered \union About(reader.packet)
         /\ \/ client' = "zombie" /\ entries' = entries /\ mirror' = mirror
            \/ client' = "null" /\ entries' = <<>> /\ mirror' = "off"
         /\ strays' \subseteq strays \union HeldByReader
         /\ UNCHANGED <<present, listening, main, tag, inroster, asked, friends, online, wire>>
BY DEF Deleted, DeletedByReader, server

LEMMA PacketsStep ==
  ASSUME PacketsFit, ServerFits, Control, entries \in Seq(Rows), ~fault', UNCHANGED vars \/ Steps
  PROVE  PacketsFit'
<1>1. ASSUME UNCHANGED <<reader, wire>>, strays' \subseteq strays
      PROVE  PacketsFit'
  BY <1>1 DEF PacketsFit, Idle, Recv
<1>2. ASSUME Aside
      PROVE  PacketsFit'
  BY <1>1, <1>2, AsideSteps
<1>3. ASSUME Serves
      PROVE  PacketsFit'
  BY <1>1, <1>3, MainSteps
<1>4. ASSUME NEW P, NewClient(P)
      PROVE  PacketsFit'
  <2>1. CASE socket' = "open"
    <3>1. PICK t \in Seq(Buddy) : wire' = <<NamesOf(t)>>
      BY <1>4, <2>1, LogsIn
    <3>2. NamesOf(t) \in Sendable
      BY DEF Sendable
    <3>3. wire' \in Seq(Sendable)
      BY <3>1, <3>2
    <3>4. reader' = Recv /\ strays' = strays
      BY <1>4, <2>1, LogsIn DEF NewClient
    <3>. QED BY <3>3, <3>4 DEF PacketsFit, Recv, Idle
  <2>2. CASE socket' # "open"
    <3>1. UNCHANGED <<reader, wire, strays>>
      BY <1>4, <2>2 DEF NewClient
    <3>. QED BY <1>1, <3>1
  <2>. QED BY <2>1, <2>2
<1>5. CASE (\E P : Goodbye(P)) \/ DeleteClient \/ Insert \/ SendTag \/ \E b \in Buddy : Subscribed(b)
  <2>1. UNCHANGED <<reader, wire, strays>>
    BY <1>5 DEF Goodbye, DeleteClient, Insert, SendTag, Subscribed, server
  <2>. QED BY <1>1, <2>1
<1>6. CASE Disconnect \/ Deleted
  <2>1. reader' = Idle /\ (wire' = <<>> \/ wire' = wire) /\ strays' \subseteq strays \union HeldByReader
    BY <1>6, DeletedFacts DEF Disconnect
  <2>2. HeldByReader \subseteq Holding
    BY ReaderFacts DEF HeldByReader
  <2>3. wire' \in Seq(Sendable)
    <3>1. wire \in Seq(Sendable) /\ <<>> \in Seq(Sendable)
      BY DEF PacketsFit
    <3>. QED BY <2>1, <3>1
  <2>4. strays' \subseteq Holding
    BY <2>1, <2>2 DEF PacketsFit
  <2>. QED BY <2>1, <2>3, <2>4 DEF PacketsFit, Idle, Recv
<1>7. ASSUME NEW b \in Buddy, Unsubscribe(b)
      PROVE  PacketsFit'
  <2>1. UNCHANGED <<reader, strays>> /\ (wire' = wire \/ (b \in friends /\ EndFriendship(b)))
    BY <1>7 DEF Unsubscribe, server
  <2>2. CASE wire' = wire
    BY <1>1, <2>1, <2>2
  <2>3. CASE b \in friends /\ EndFriendship(b)
    <3>1. wire' = Append(wire, Removed(b, Unnamed)) /\ Removed(b, Unnamed) \in Sendable
      BY <2>3, FriendshipEnds
    <3>2. wire' \in Seq(Sendable)
      BY <3>1, AppendProperties DEF PacketsFit
    <3>. QED BY <2>1, <3>2 DEF PacketsFit, Idle, Recv
  <2>. QED BY <2>1, <2>2, <2>3
<1>8. CASE Take
  <2>1. wire # <<>> /\ reader' = [at |-> "list", packet |-> Head(wire)] /\ wire' = Tail(wire)
        /\ strays' = strays
    BY <1>8 DEF Take
  <2>2. Head(wire) \in Sendable /\ Tail(wire) \in Seq(Sendable)
    BY <2>1, HeadTailProperties DEF PacketsFit
  <2>3. reader' \in Holding
    BY <2>1, <2>2, HoldingFacts
  <2>. QED BY <2>1, <2>2, <2>3 DEF PacketsFit, Idle, Recv
<1>9. CASE ListListener
  <2>1. reader.at = "list" /\ reader' = [at |-> "user", packet |-> Named(reader.packet)]
        /\ UNCHANGED <<wire, strays>>
    BY <1>9 DEF ListListener, server
  <2>2. Named(reader.packet) \in Handed
    BY <2>1, ReaderFacts, NamedFacts
  <2>3. reader' \in Holding
    BY <2>1, <2>2, HoldingFacts
  <2>. QED BY <2>1, <2>3 DEF PacketsFit, Idle, Recv
<1>10. CASE UserListener \/ Ignored \/ ReaderEnds
  <2>1. reader' \in {Idle, Recv} /\ UNCHANGED <<wire, strays>>
    <3>1. CASE UserListener
      BY <3>1 DEF UserListener, Recv, server
    <3>2. CASE Ignored
      BY <3>2 DEF Ignored, server
    <3>3. CASE ReaderEnds
      BY <3>3 DEF ReaderEnds, server
    <3>. QED BY <1>10, <3>1, <3>2, <3>3
  <2>. QED BY <2>1 DEF PacketsFit, Idle, Recv
<1>11. ASSUME NEW s \in strays, StrayListListener(s) \/ StrayUserListener(s)
       PROVE  PacketsFit'
  <2>1. s \in Holding
    BY DEF PacketsFit
  <2>2. CASE StrayUserListener(s)
    <3>1. strays' \subseteq strays /\ UNCHANGED <<reader, wire>>
      BY <2>2 DEF StrayUserListener, server
    <3>. QED BY <1>1, <3>1
  <2>3. CASE StrayListListener(s)
    <3>1. /\ s.at = "list" /\ UNCHANGED <<reader, wire>>
          /\ \/ strays' = (strays \ {s}) \union {[at |-> "user", packet |-> Named(s.packet)]}
             \/ strays' = (strays \ {s}) \union {[s EXCEPT !.at = "user"]}
      BY <2>3 DEF StrayListListener, server
    <3>2. s.packet \in Sendable /\ Named(s.packet) \in Handed
      BY <2>1, <3>1, HoldingFacts, NamedFacts
    <3>3. [at |-> "user", packet |-> Named(s.packet)] \in Holding
      BY <3>2, HoldingFacts
    <3>4. [s EXCEPT !.at = "user"] \in Holding
      <4>1. s \in [at : {"list"}, packet : Sendable]
        BY <2>1, <3>1 DEF Holding
      <4>2. [s EXCEPT !.at = "user"] = [at |-> "user", packet |-> s.packet]
        BY <4>1
      <4>. QED BY <3>2, <4>2, HoldingFacts
    <3>5. strays' \subseteq Holding
      BY <3>1, <3>3, <3>4 DEF PacketsFit
    <3>. QED BY <3>1, <3>5 DEF PacketsFit, Idle, Recv
  <2>. QED BY <1>11, <2>2, <2>3
<1>12. ASSUME Sends
       PROVE  PacketsFit'
  <2>1. UNCHANGED <<reader, strays>> /\ \E p \in Sendable : wire' = Append(wire, p)
    BY <1>12, ServerSends
  <2>2. wire' \in Seq(Sendable)
    BY <2>1, AppendProperties DEF PacketsFit
  <2>. QED BY <2>1, <2>2 DEF PacketsFit, Idle, Recv
<1>. QED BY <1>2, <1>3, <1>4, <1>5, <1>6, <1>7, <1>8, <1>9, <1>10, <1>11, <1>12, OtherLogins DEF Steps, Aside, Serves

LEMMA ServerStep ==
  ASSUME ServerFits, UNCHANGED vars \/ Steps
  PROVE  ServerFits'
<1>1. ASSUME UNCHANGED <<friends, online>>
      PROVE  ServerFits'
  BY <1>1 DEF ServerFits
<1>2. ASSUME Aside
      PROVE  ServerFits'
  BY <1>1, <1>2, AsideSteps
<1>3. ASSUME Serves
      PROVE  ServerFits'
  BY <1>1, <1>3, MainSteps
<1>4. ASSUME NEW P, NewClient(P)
      PROVE  ServerFits'
  BY <1>4 DEF NewClient, ServerFits
<1>5. CASE (\E P : Goodbye(P)) \/ Disconnect \/ DeleteClient \/ Insert \/ SendTag \/ \E b \in Buddy : Subscribed(b)
  <2>1. UNCHANGED <<friends, online>>
    BY <1>5 DEF Goodbye, Disconnect, DeleteClient, Insert, SendTag, Subscribed, server
  <2>. QED BY <1>1, <2>1
<1>6. ASSUME NEW b \in Buddy, Unsubscribe(b)
      PROVE  ServerFits'
  <2>1. UNCHANGED <<friends, online>> \/ (b \in friends /\ EndFriendship(b))
    BY <1>6 DEF Unsubscribe, server
  <2>. QED BY <1>1, <2>1, FriendshipEnds
<1>7. CASE Take \/ ListListener \/ UserListener \/ OtherLogin \/ ReaderEnds
  <2>1. UNCHANGED <<friends, online>>
    BY <1>7 DEF Take, ListListener, UserListener, OtherLogin, ReaderEnds, server
  <2>. QED BY <1>1, <2>1
<1>8. ASSUME NEW s \in strays, StrayListListener(s) \/ StrayUserListener(s) \/ StrayOtherLogin(s)
      PROVE  ServerFits'
  <2>1. UNCHANGED <<friends, online>>
    BY <1>8 DEF StrayListListener, StrayUserListener, StrayOtherLogin, server
  <2>. QED BY <1>1, <2>1
<1>9. ASSUME Sends
      PROVE  ServerFits'
  BY <1>9, ServerSends
<1>. QED BY <1>2, <1>3, <1>4, <1>5, <1>6, <1>7, <1>8, <1>9 DEF Steps, Aside, Serves

\* A look-up by name finds who is there.
LEMMA EntryFacts ==
  ASSUME NEW b \in Buddy, entries \in Seq(Rows)
  PROVE  /\ HasEntry(b) <=> b \in Has(entries)
         /\ Distinct(entries) /\ HasEntry(b) => (IsOnline(Entry(b)) <=> b \in On(entries))
<1> DEFINE i == IndexByName(entries, b)
<1>1. HasEntry(b) <=> i # 0
  BY DEF HasEntry
<1>2. Len(entries) \in Nat
  BY LenProperties
<1>3. CASE i = 0
  <2>1. i \notin 1..Len(entries)
    BY <1>2, <1>3
  <2>2. b \notin Has(entries)
    BY <2>1, IndexByNameFacts DEF Has
  <2>. QED BY <1>1, <1>3, <2>2
<1>4. CASE i # 0
  <2>1. i \in 1..Len(entries) /\ entries[i].username = b /\ Entry(b) = entries[i]
    BY <1>4, IndexByNameFacts DEF Entry
  <2>. HIDE DEF i
  <2>2. b \in Has(entries) /\ (IsOnline(entries[i]) => b \in On(entries))
    BY <2>1 DEF Has, On
  <2>3. Distinct(entries) /\ b \in On(entries) => IsOnline(entries[i])
    BY <2>1 DEF On, Distinct
  <2>. QED BY <1>1, <1>4, <2>1, <2>2, <2>3
<1>. QED BY <1>3, <1>4

LEMMA UnavailableFacts ==
  ASSUME entries \in Seq(Rows), shown \in [Buddy -> {"none", "on", "off"}]
  PROVE  /\ \A S : /\ Unavailable(S) \in [Buddy -> {"none", "on", "off"}]
                   /\ \A b \in Buddy : Unavailable(S)[b] = IF b \in S THEN "off" ELSE shown[b]
         /\ Reached \subseteq Buddy
         /\ \A b \in Buddy : b \in Reached <=> b \in Has(entries) /\ InRoster(b)
<1>1. \A b \in Buddy : HasEntry(b) <=> b \in Has(entries)
  BY EntryFacts
<1>2. Reached \subseteq Buddy /\ \A b \in Buddy : b \in Reached <=> b \in Has(entries) /\ InRoster(b)
  BY <1>1 DEF Reached
<1>3. ASSUME NEW S
      PROVE  /\ Unavailable(S) \in [Buddy -> {"none", "on", "off"}]
             /\ \A b \in Buddy : Unavailable(S)[b] = IF b \in S THEN "off" ELSE shown[b]
  BY DEF Unavailable
<1>. QED BY <1>2, <1>3

LEMMA InsertFacts ==
  ASSUME JabberFits, Insert
  PROVE  /\ inroster' \in Seq(Buddy) /\ shown' = shown /\ tag.to \in Buddy
         /\ main' \in {"idle", "tag"} /\ main \in {"insert", "accept"}
         /\ main' = "tag" => tag'.to = tag.to
         /\ \A c : InRoster(c)' <=> InRoster(c) \/ c = tag.to
         /\ \A c : c # tag.to => (c \in asked' <=> c \in asked)
<1> DEFINE b == tag.to
<1>1. /\ main' \in {"idle", "tag"} /\ main \in {"insert", "accept"}
      /\ b \in Buddy /\ inroster' = Append(inroster, b) /\ asked' = asked \ {b} /\ shown' = shown
  BY DEF Insert, JabberFits
<1>2. inroster \in Seq(Buddy) /\ Len(inroster) \in Nat
  BY LenProperties DEF JabberFits
<1>3. main' = "tag" => tag'.to = b
  <2>1. \A x, o : [to |-> x, on |-> o].to = x
    OBVIOUS
  <2>2. ASSUME main' = "tag"
        PROVE  \E o : tag' = [to |-> b, on |-> o]
    BY <2>2 DEF Insert
  <2>. QED BY <2>1, <2>2
<1>. HIDE DEF b
<1>4. /\ inroster' \in Seq(Buddy) /\ Len(inroster') = Len(inroster) + 1
      /\ \A i \in 1..Len(inroster) : inroster'[i] = inroster[i]
      /\ inroster'[Len(inroster) + 1] = b
  BY <1>1, <1>2, AppendProperties
<1>5. \A i \in 1..Len(inroster') : i \in 1..Len(inroster) \/ i = Len(inroster) + 1
  BY <1>2, <1>4
<1>6. \A c : InRoster(c)' <=> InRoster(c) \/ c = b
  <2>1. Len(inroster) + 1 \in 1..Len(inroster') /\ \A i \in 1..Len(inroster) : i \in 1..Len(inroster')
    BY <1>2, <1>4
  <2>. QED BY <1>4, <1>5, <2>1 DEF InRoster, Contains
<1>. HIDE DEF InRoster
<1>. QED BY <1>1, <1>3, <1>4, <1>6 DEF b

LEMMA JabberStep ==
  ASSUME JabberFits, PacketsFit, ServerFits, Control, entries \in Seq(Rows), ~fault',
         UNCHANGED vars \/ Steps
  PROVE  JabberFits'
<1>0. /\ inroster \in Seq(Buddy) /\ shown \in [Buddy -> {"none", "on", "off"}]
      /\ main \in {"insert", "accept", "tag"} => tag.to \in Buddy
  BY DEF JabberFits
<1>1. ASSUME inroster' \in Seq(Buddy), shown' \in [Buddy -> {"none", "on", "off"}],
             main' \notin {"insert", "accept", "tag"} \/ UNCHANGED <<main, tag>>
      PROVE  JabberFits'
  BY <1>0, <1>1 DEF JabberFits
<1>2. ASSUME Aside
      PROVE  JabberFits'
  BY <1>0, <1>1, <1>2, AsideSteps
<1>3. ASSUME Serves
      PROVE  JabberFits'
  BY <1>0, <1>1, <1>3, MainSteps
<1>4. CASE (\E P : NewClient(P)) \/ Disconnect \/ DeleteClient \/ Take \/ ListListener \/ ReaderEnds
  <2>1. UNCHANGED <<inroster, shown>> /\ (main' \in {"attach", "delete", "mirror"} \/ UNCHANGED <<main, tag>>)
    BY <1>4 DEF NewClient, Disconnect, DeleteClient, Take, ListListener, ReaderEnds, jabber
  <2>. QED BY <1>0, <1>1, <2>1
<1>5. ASSUME NEW P, Goodbye(P)
      PROVE  JabberFits'
  <2>1. inroster' = inroster /\ (\E S : shown' = Unavailable(S)) /\ main' = "goodbye"
    BY <1>5 DEF Goodbye
  <2>. QED BY <1>0, <1>1, <2>1, UnavailableFacts
<1>6. CASE Deleted \/ Ignored
  <2>1. inroster' = inroster /\ (shown' = shown \/ shown' = Unavailable(Reached)) /\ UNCHANGED <<main, tag>>
    BY <1>6, DeletedFacts DEF Ignored, jabber
  <2>. QED BY <1>0, <1>1, <2>1, UnavailableFacts
<1>7. CASE SendTag
  <2>1. inroster' = inroster /\ shown' = [shown EXCEPT ![tag.to] = OnOff(tag.on)] /\ main' = "idle"
    BY <1>7 DEF SendTag
  <2>2. OnOff(tag.on) \in {"none", "on", "off"}
    BY DEF OnOff
  <2>. QED BY <1>0, <1>1, <2>1, <2>2
<1>8. ASSUME NEW b \in Buddy, Subscribed(b)
      PROVE  JabberFits'
  <2>1. UNCHANGED <<inroster, shown>> /\ tag'.to = b
    BY <1>8 DEF Subscribed, jabber
  <2>. QED BY <1>0, <2>1 DEF JabberFits
<1>9. ASSUME NEW b \in Buddy, Unsubscribe(b)
      PROVE  JabberFits'
  <2>1. inroster' = inroster /\ shown' = [shown EXCEPT ![b] = "none"] /\ UNCHANGED <<main, tag>>
    BY <1>9 DEF Unsubscribe
  <2>. QED BY <1>0, <1>1, <2>1
<1>10. CASE UserListener
  <2>1. reader.at = "user" /\ reader.packet.kind # "otherlogin"
        /\ (UNCHANGED <<inroster, shown>> \/ Handle(reader.packet)) /\ UNCHANGED <<main, tag>>
    BY <1>10 DEF UserListener
  <2>2. reader.packet \in Handed /\ reader.packet # OtherLoginPacket
    BY <2>1, ReaderFacts, PacketKinds
  <2>. QED BY <1>0, <1>1, <2>1, <2>2, HandleFacts
<1>11. ASSUME NEW s \in strays, StrayListListener(s) \/ StrayUserListener(s)
       PROVE  JabberFits'
  <2>1. CASE StrayListListener(s)
    BY <1>0, <1>1, <2>1 DEF StrayListListener, jabber
  <2>2. CASE StrayUserListener(s)
    <3>1. s.at = "user" /\ s.packet.kind # "otherlogin" /\ Handle(s.packet) /\ UNCHANGED <<main, tag>>
      BY <2>2 DEF StrayUserListener
    <3>2. s.packet \in Handed /\ s.packet # OtherLoginPacket
      BY <3>1, HoldingFacts, PacketKinds DEF PacketsFit
    <3>. QED BY <1>1, <3>1, <3>2, HandleFacts
  <2>. QED BY <1>11, <2>1, <2>2
<1>12. ASSUME Sends
       PROVE  JabberFits'
  <2>1. UNCHANGED <<inroster, shown, main, tag>>
    BY <1>12, ServerSends
  <2>. QED BY <1>0, <1>1, <2>1
<1>13. CASE Insert
  <2>1. /\ inroster' \in Seq(Buddy) /\ shown' = shown /\ main' \in {"idle", "tag"} /\ tag.to \in Buddy
        /\ main' = "tag" => tag'.to = tag.to
    BY <1>13, InsertFacts
  <2>. QED BY <1>0, <2>1 DEF JabberFits
<1>. QED BY <1>2, <1>3, <1>4, <1>5, <1>6, <1>7, <1>8, <1>9, <1>10, <1>11, <1>12, <1>13, OtherLogins
        DEF Steps, Aside, Serves

-----------------------------------------------------------------------------
(* The packets on their way *)

\* What each packet tells.
LEMMA TellsWhat ==
  ASSUME NEW V \in Views, NEW p, NEW W, Tells(V, p, W), NEW b \in Buddy
  PROVE  /\ p = Message(b) => b \in V.on /\ W = V
         /\ p = Removed(b, Unnamed) => b \in V.has /\ b \notin W.has
<1>1. V.has \subseteq Buddy /\ V.on \subseteq Buddy
  BY DEF Views
<1>2. \A h, o : W = [has |-> h, on |-> o] => W.has = h
  OBVIOUS
<1>3. ASSUME p = Message(b)
      PROVE  b \in V.on /\ W = V
  <2>1. /\ p # OtherLoginPacket
        /\ \A c \in Buddy : \A n : p # Removed(c, n) /\ p # Online(c, n)
        /\ \A t : p # NamesOf(t)
        /\ \A c \in Buddy : p # Games(c) /\ (p = Message(c) => b = c)
    <3>1. p.kind = "message" /\ p.sid = UserId[b]
      BY <1>3, PacketKinds
    <3>2. \A c \in Buddy : Message(c).sid = UserId[c]
      BY PacketKinds
    <3>. QED BY <3>1, <3>2, PacketKinds, Ids
  <2>. QED BY <1>1, <2>1 DEF Tells
<1>4. ASSUME p = Removed(b, Unnamed)
      PROVE  b \in V.has /\ b \notin W.has
  <2>1. /\ p # OtherLoginPacket
        /\ \A c \in Buddy : p # Message(c) /\ p # Games(c) /\ \A s : p # Online(c, s)
        /\ \A t : p # NamesOf(t)
        /\ \A c \in Buddy : p = Removed(c, Unnamed) => b = c
    <3>1. p.kind = "removed" /\ p.id = UserId[b]
      BY <1>4, PacketKinds
    <3>2. \A c \in Buddy : Removed(c, Unnamed).id = UserId[c]
      BY PacketKinds
    <3>3. p # OtherLoginPacket
      BY <3>1, PacketKinds
    <3>4. \A c \in Buddy : p # Message(c) /\ p # Games(c)
      BY <3>1, PacketKinds
    <3>5. \A c \in Buddy : \A s : p # Online(c, s)
      BY <3>1, PacketKinds
    <3>6. \A t : p # NamesOf(t)
      BY <3>1, PacketKinds
    <3>7. \A c \in Buddy : p = Removed(c, Unnamed) => b = c
      BY <3>1, <3>2, Ids
    <3>. QED BY <3>3, <3>4, <3>5, <3>6, <3>7
  <2>2. b \in V.has /\ W = [has |-> V.has \ {b}, on |-> V.on \ {b}]
    BY <1>1, <2>1 DEF Tells
  <2>. QED BY <1>2, <2>2
<1>. QED BY <1>3, <1>4

LEMMA PathSame ==
  ASSUME NEW V, NEW W, NEW q, NEW r, Len(q) = Len(r), \A n \in 1..Len(q) : q[n] = r[n],
         Path(V, q, W)
  PROVE  Path(V, r, W)
<1>1. PICK v \in [0..Len(q) -> Views] :
        /\ v[0] = V /\ v[Len(q)] = W
        /\ \A n \in 1..Len(q) : Tells(v[n - 1], q[n], v[n])
  BY DEF Path
<1>2. \A n \in 1..Len(r) : Tells(v[n - 1], r[n], v[n])
  BY <1>1
<1>. QED BY <1>1, <1>2 DEF Path

LEMMA PendingOfFacts ==
  ASSUME NEW r, NEW w \in Seq(Sendable), r.at = "list" => r.packet \in Sendable
  PROVE  /\ Len(w) \in Nat /\ Len(PendingOf(r, w)) \in Nat
         /\ r.at # "list" => PendingOf(r, w) = w
         /\ r.at = "list" =>
              /\ Len(PendingOf(r, w)) = Len(w) + 1 /\ PendingOf(r, w)[1] = r.packet
              /\ \A n \in 1..Len(w) : PendingOf(r, w)[n + 1] = w[n]
<1>1. Len(w) \in Nat
  BY LenProperties
<1>2. r.at # "list" => PendingOf(r, w) = w
  BY DEF PendingOf
<1>3. ASSUME r.at = "list"
      PROVE  /\ Len(PendingOf(r, w)) = Len(w) + 1 /\ PendingOf(r, w)[1] = r.packet
             /\ \A n \in 1..Len(w) : PendingOf(r, w)[n + 1] = w[n]
  <2> DEFINE p == r.packet
             q == PendingOf(r, w)
  <2>1. p \in Sendable /\ q = <<p>> \o w
    BY <1>3 DEF PendingOf
  <2>. HIDE DEF p, q
  <2>2. <<p>> \in Seq(Sendable) /\ Len(<<p>>) = 1 /\ <<p>>[1] = p
    BY <2>1
  <2>3. /\ Len(q) = 1 + Len(w)
        /\ \A i \in 1..(1 + Len(w)) : q[i] = IF i <= 1 THEN <<p>>[i] ELSE w[i - 1]
    BY <1>1, <2>1, <2>2, ConcatProperties
  <2>4. q[1] = p
    <3>1. 1 \in 1..(1 + Len(w)) /\ 1 <= 1
      BY <1>1
    <3>. QED BY <2>2, <2>3, <3>1
  <2>5. ASSUME NEW n \in 1..Len(w)
        PROVE  q[n + 1] = w[n]
    <3>1. n + 1 \in 1..(1 + Len(w)) /\ ~(n + 1 <= 1) /\ (n + 1) - 1 = n
      BY <1>1
    <3>. QED BY <2>3, <3>1
  <2>. QED BY <1>1, <2>3, <2>4, <2>5 DEF p, q
<1>. QED BY <1>1, <1>2, <1>3

LEMMA PendingFacts ==
  ASSUME PacketsFit
  PROVE  /\ Len(wire) \in Nat /\ Len(Pending) \in Nat
         /\ reader.at # "list" => Pending = wire
         /\ reader.at = "list" =>
              /\ Len(Pending) = Len(wire) + 1 /\ Pending[1] = reader.packet
              /\ \A n \in 1..Len(wire) : Pending[n + 1] = wire[n]
<1>1. wire \in Seq(Sendable) /\ (reader.at = "list" => reader.packet \in Sendable)
  BY ReaderFacts DEF PacketsFit
<1>. QED BY <1>1, PendingOfFacts DEF Pending

LEMMA PendingGrows ==
  ASSUME PacketsFit, NEW p \in Sendable, wire' = Append(wire, p),
         reader' = reader
  PROVE  /\ Len(Pending') = Len(Pending) + 1
         /\ \A n \in 1..Len(Pending) : Pending'[n] = Pending[n]
         /\ Pending'[Len(Pending) + 1] = p
<1>1. /\ wire \in Seq(Sendable) /\ Len(wire) \in Nat /\ wire' \in Seq(Sendable)
      /\ Len(wire') = Len(wire) + 1
      /\ \A n \in 1..Len(wire) : wire'[n] = wire[n]
      /\ wire'[Len(wire) + 1] = p
  BY LenProperties, AppendProperties DEF PacketsFit
<1>2. Pending' = PendingOf(reader, wire')
  BY DEF Pending
<1>3. CASE reader.at # "list"
  <2>1. Pending = wire /\ Pending' = wire'
    BY <1>3 DEF Pending, PendingOf
  <2>. QED BY <1>1, <2>1
<1>4. CASE reader.at = "list"
  <2>1. /\ Len(Pending) = Len(wire) + 1 /\ Pending[1] = reader.packet
        /\ \A n \in 1..Len(wire) : Pending[n + 1] = wire[n]
    BY <1>4, PendingFacts
  <2>2. /\ Len(Pending') = Len(wire') + 1 /\ Pending'[1] = reader.packet
        /\ \A n \in 1..Len(wire') : Pending'[n + 1] = wire'[n]
    <3>1. reader.packet \in Sendable
      BY <1>4, ReaderFacts
    <3>. QED BY <1>1, <1>2, <1>4, <3>1, PendingOfFacts
  <2>3. /\ Len(Pending') = Len(Pending) + 1
        /\ Pending'[Len(Pending) + 1] = p
    <3>1. Len(wire) + 1 \in 1..Len(wire') /\ (Len(wire) + 1) + 1 = Len(Pending) + 1
      BY <1>1, <2>1
    <3>. QED BY <1>1, <2>1, <2>2, <3>1
  <2>4. ASSUME NEW n \in 1..Len(Pending)
        PROVE  Pending'[n] = Pending[n]
    <3>1. CASE n = 1
      BY <2>1, <2>2, <3>1
    <3>2. CASE n # 1
      <4>1. n - 1 \in 1..Len(wire) /\ n - 1 \in 1..Len(wire') /\ (n - 1) + 1 = n
        BY <1>1, <2>1, <3>2
      <4>. QED BY <1>1, <2>1, <2>2, <4>1
    <3>. QED BY <3>1, <3>2
  <2>. QED BY <2>3, <2>4
<1>. QED BY <1>3, <1>4

\* What the buddy list makes of the packet in the read thread's hands.
LEMMA ListStep ==
  ASSUME Fits, Pipeline, ListListener, ~fault'
  PROVE  /\ entries' \in Seq(Rows) /\ Distinct(entries') /\ race' = race
         /\ Tells(View(entries), reader.packet, View(entries'))
         /\ Path(View(entries'), wire, Server)
<1>1. /\ reader.at = "list" /\ entries' \in Results(entries, reader.packet) /\ race' = race
      /\ reader.packet.kind = "games" => Len(entries') = Len(entries)
  BY DEF ListListener, ListTurn, Strikes
<1>2. main # "delete" /\ socket = "open" /\ entries \in Seq(Rows) /\ Distinct(entries)
  BY <1>1 DEF Fits, Control, RowsFit
<1>3. Path(View(entries), Pending, Server)
  BY <1>2 DEF Pipeline
<1>4. /\ Len(wire) \in Nat /\ Len(Pending) = Len(wire) + 1 /\ Pending[1] = reader.packet
      /\ \A n \in 1..Len(wire) : Pending[n + 1] = wire[n]
  BY <1>1, PendingFacts DEF Fits
<1>5. PICK U \in Views : Tells(View(entries), Pending[1], U) /\ Path(U, wire, Server)
  <2>1. \A n \in 1..Len(wire) : wire[n] = Pending[n + 1]
    BY <1>4
  <2>. QED BY <1>3, <1>4, <2>1, PathHead
<1>6. Tells(View(entries), reader.packet, U)
  BY <1>4, <1>5
<1>7. entries' \in Seq(Rows) /\ Distinct(entries') /\ View(entries') = U
  BY <1>1, <1>2, <1>6, ListDoesAsTold
<1>. QED BY <1>1, <1>5, <1>6, <1>7

LEMMA RowsStep ==
  ASSUME Fits, Pipeline, ~fault', UNCHANGED vars \/ Steps
  PROVE  RowsFit'
<1>0. PacketsFit /\ RowsFit /\ Control
  BY DEF Fits
<1>1. ASSUME entries' = entries, main' # "delete" => main # "delete"
      PROVE  RowsFit'
  BY <1>0, <1>1 DEF RowsFit
<1>2. ASSUME Aside
      PROVE  RowsFit'
  BY <1>1, <1>2, AsideSteps
<1>3. ASSUME Serves
      PROVE  RowsFit'
  BY <1>1, <1>3, MainSteps
<1>4. CASE (\E P : NewClient(P) \/ Goodbye(P)) \/ Disconnect \/ Insert \/ SendTag
           \/ (\E b \in Buddy : Subscribed(b) \/ Unsubscribe(b))
  <2>1. entries' = entries /\ main # "delete"
    BY <1>4 DEF NewClient, Goodbye, Disconnect, Insert, SendTag, Subscribed, Unsubscribe
  <2>. QED BY <1>1, <2>1
<1>5. ASSUME entries' = <<>>
      PROVE  RowsFit'
  <2>1. entries' = <<>>
    BY <1>5
  <2>2. <<>> \in Seq(Rows) /\ Distinct(<<>>)
    BY DEF Distinct
  <2>. QED BY <2>1, <2>2 DEF RowsFit
<1>6. CASE ListListener
  BY <1>6, ListStep DEF RowsFit
<1>7. CASE Take \/ UserListener \/ Ignored \/ ReaderEnds
  <2>1. entries' = entries /\ main' = main
    BY <1>7 DEF Take, UserListener, Ignored, ReaderEnds
  <2>. QED BY <1>1, <2>1
<1>8. ASSUME NEW s \in strays, StrayUserListener(s)
      PROVE  RowsFit'
  BY <1>1, <1>8 DEF StrayUserListener
<1>9. ASSUME NEW s \in strays, StrayListListener(s)
      PROVE  RowsFit'
  <2>1. CASE entries' = entries
    BY <1>1, <1>9, <2>1 DEF StrayListListener
  <2>2. CASE entries' # entries
    <3>1. s.at = "list" /\ main' = main /\ main = "delete" /\ entries' \in Results(entries, s.packet)
      BY <1>9, <2>2 DEF StrayListListener, ListTurn
    <3>2. s.packet \in Sendable
      BY <1>0, <3>1, HoldingFacts DEF PacketsFit
    <3>3. entries' \in Seq(Rows)
      BY <1>0, <3>1, <3>2, ResultsFit DEF RowsFit
    <3>. QED BY <3>1, <3>3 DEF RowsFit
  <2>. QED BY <2>1, <2>2
<1>10. ASSUME Sends
       PROVE  RowsFit'
  <2>1. UNCHANGED <<entries, main>>
    BY <1>0, <1>10, ServerSends DEF Fits
  <2>. QED BY <1>1, <2>1
<1>11. CASE Deleted
  BY <1>1, <1>5, <1>11, DeletedFacts
<1>12. DeleteClient => entries' = <<>>
  BY DEF DeleteClient
<1>. QED BY <1>0, <1>2, <1>3, <1>4, <1>5, <1>6, <1>7, <1>8, <1>9, <1>10, <1>11, <1>12, OtherLogins
        DEF Steps, Aside, Serves

LEMMA FitsStep ==
  ASSUME Fits, Pipeline, ~fault', UNCHANGED vars \/ Steps
  PROVE  Fits'
<1>1. PacketsFit /\ ServerFits /\ JabberFits /\ Control /\ entries \in Seq(Rows)
  BY DEF Fits, RowsFit
<1>. QED BY <1>1, PacketsStep, ServerStep, JabberStep, RowsStep, ControlStep DEF Fits

\* The name the buddy list writes into a packet is all it changes.
LEMMA NamedBack ==
  ASSUME NEW p \in Sendable, entries \in Seq(Rows), NEW b \in Buddy
  PROVE  /\ Named(p).kind = p.kind
         /\ Named(p) = Message(b) => p = Message(b)
         /\ Named(p) = Removed(b, b) => p = Removed(b, Unnamed)
<1>1. CASE p.kind # "removed"
  <2>1. Named(p) = p
    BY <1>1, NamedFacts
  <2>2. Removed(b, b).kind = "removed"
    BY PacketKinds
  <2>. QED BY <1>1, <2>1, <2>2
<1>2. CASE p.kind = "removed"
  <2>1. PICK c \in Buddy : p = Removed(c, Unnamed)
    BY <1>2, SendableKinds
  <2>2. PICK n : Named(p) = Removed(c, n)
    BY <2>1, NamedFacts
  <2>3. Named(p).kind = "removed" /\ Named(p).id = UserId[c]
    BY ONLY <2>2, PacketKinds
  <2>4. Message(b).kind = "message" /\ Removed(b, b).id = UserId[b]
    BY PacketKinds
  <2>5. Named(p) = Removed(b, b) => c = b
    BY <2>3, <2>4, Ids
  <2>6. Named(p) # Message(b)
    BY <2>3, <2>4
  <2>. HIDE DEF Named
  <2>. QED BY <1>2, <2>1, <2>3, <2>5, <2>6
<1>. QED BY <1>1, <1>2

LEMMA NamedTells ==
  ASSUME NEW V \in Views, NEW p \in Sendable, NEW W, Tells(V, p, W), entries \in Seq(Rows),
         NEW b \in Buddy
  PROVE  /\ Named(p) = Message(b) => b \in W.on
         /\ Named(p) = Removed(b, b) => b \notin W.has
<1>1. Named(p) = Message(b) => b \in V.on /\ W = V
  BY NamedBack, TellsWhat
<1>2. ASSUME Named(p) = Removed(b, b)
      PROVE  b \notin W.has
  <2>1. p = Removed(b, Unnamed)
    BY <1>2, NamedBack
  <2>. QED BY ONLY <2>1, Tells(V, p, W), V \in Views, b \in Buddy, TellsWhat
<1>. QED BY <1>1, <1>2

LEMMA ReachesUser ==
  ASSUME Fits, Pipeline, ListListener, ~fault', NEW b \in Buddy
  PROVE  /\ reader'.at = "user" /\ reader'.packet = Named(reader.packet)
         /\ reader'.packet = Message(b) => b \in On(entries')
         /\ reader'.packet = Removed(b, b) => b \notin Has(entries')
<1>1. /\ reader.at = "list" /\ reader'.at = "user" /\ reader'.packet = Named(reader.packet)
      /\ reader.packet \in Sendable /\ entries \in Seq(Rows)
  BY ReaderFacts DEF ListListener, Fits, RowsFit
<1>2. /\ View(entries) \in Views /\ Tells(View(entries), reader.packet, View(entries'))
      /\ View(entries').has = Has(entries') /\ View(entries').on = On(entries')
  BY ViewType, ListStep
<1>3. /\ Named(reader.packet) = Message(b) => b \in View(entries').on
      /\ Named(reader.packet) = Removed(b, b) => b \notin View(entries').has
  BY <1>1, <1>2, NamedTells
<1>. QED BY <1>1, <1>2, <1>3

LEMMA PipelineStep ==
  ASSUME Fits, Pipeline, ~fault', UNCHANGED vars \/ Steps
  PROVE  Pipeline'
<1>0. PacketsFit /\ ServerFits /\ Control /\ PacketsFit'
  BY FitsStep DEF Fits
<1>1. ASSUME UNCHANGED <<socket, entries, reader, wire, friends, online>>
      PROVE  Pipeline'
  BY <1>1 DEF Pipeline, Pending, Server
<1>2. ASSUME Aside
      PROVE  Pipeline'
  BY <1>1, <1>2, AsideSteps
<1>3. ASSUME Serves
      PROVE  Pipeline'
  BY <1>1, <1>3, MainSteps
<1>4. ASSUME socket' # "open", reader'.at # "user"
      PROVE  Pipeline'
  BY <1>4 DEF Pipeline
<1>5. ASSUME NEW P, NewClient(P)
      PROVE  Pipeline'
  <2>1. CASE socket' = "open"
    <3>1. PICK t \in Seq(Buddy) :
            /\ wire' = <<NamesOf(t)>>
            /\ \A i, k \in 1..Len(t) : i # k => t[i] # t[k]
            /\ Listed(t) = friends
      BY <1>0, <1>5, <2>1, LogsIn
    <3>2. reader' = Recv /\ online' = {} /\ friends' = friends /\ entries' = entries
      BY <1>0, <1>5, <2>1, LogsIn
    <3>3. entries' = <<>>
      BY <1>0, <1>5, <3>2 DEF NewClient, Control
    <3>4. Has(entries') = {} /\ On(entries') = {}
      BY <3>3 DEF Has, On
    <3> DEFINE V == View(entries')
               W == Server'
               p == NamesOf(t)
    <3>5. V \in Views /\ V.has = {} /\ V.on = {} /\ W = [has |-> friends, on |-> {}] /\ W \in Views
      BY <1>0, <3>2, <3>4, ViewType DEF Server, ServerFits, Views
    <3>6. Pending' = <<p>>
      <4>1. reader'.at = "recv"
        BY <3>2 DEF Recv
      <4>. QED BY <3>1, <4>1 DEF Pending, PendingOf
    <3>. HIDE DEF V, W
    <3>7. Tells(V, p, W)
      BY <3>1, <3>5 DEF Tells
    <3>. HIDE DEF p
    <3>8. Path(V, <<>>, V)
      BY <3>5, NoPath
    <3>9. Path(V, <<p>>, W)
      <4> DEFINE q == <<>>
                 r == <<p>>
      <4>1. /\ Len(q) \in Nat /\ Len(r) = Len(q) + 1 /\ r[Len(q) + 1] = p
            /\ \A n \in 1..Len(q) : r[n] = q[n]
        OBVIOUS
      <4>2. Path(V, q, V)
        BY <3>8
      <4>. HIDE DEF q, r
      <4>3. Tells(V, r[Len(q) + 1], W)
        BY <3>7, <4>1
      <4>4. Path(V, r, W)
        BY <3>5, <4>1, <4>2, <4>3, PathLast
      <4>. QED BY <4>4 DEF r
    <3>10. reader'.at # "user"
      BY <3>2 DEF Recv
    <3>. QED BY <3>6, <3>9, <3>10 DEF Pipeline, V, W
  <2>2. CASE socket' # "open"
    <3>1. reader' = reader /\ reader.at = "none"
      BY <1>0, <1>5, <2>2 DEF NewClient, Control
    <3>. QED BY <1>4, <2>2, <3>1
  <2>. QED BY <2>1, <2>2
<1>6. CASE Disconnect \/ DeleteClient \/ ReaderEnds \/ Deleted
  <2>1. CASE Deleted
    BY <1>4, <2>1, DeletedFacts DEF Idle
  <2>2. CASE Disconnect \/ DeleteClient \/ ReaderEnds
    <3>1. Disconnect \/ ReaderEnds => socket' # "open" /\ reader'.at # "user"
      BY DEF Disconnect, ReaderEnds, Idle
    <3>2. DeleteClient => socket' = "none" /\ reader' = reader /\ main = "delete"
      BY DEF DeleteClient
    <3>3. main = "delete" => reader.at = "none"
      BY <1>0 DEF Control
    <3>. QED BY <1>4, <2>2, <3>1, <3>2, <3>3
  <2>. QED BY <1>6, <2>1, <2>2
<1>7. CASE (\E P : Goodbye(P)) \/ Insert \/ SendTag \/ \E b \in Buddy : Subscribed(b)
  <2>1. UNCHANGED <<socket, entries, reader, wire, friends, online>>
    BY <1>7 DEF Goodbye, Insert, SendTag, Subscribed, server
  <2>. QED BY <1>1, <2>1
<1>8. ASSUME NEW p \in Sendable, wire' = Append(wire, p), Tells(Server, p, Server'), ServerFits',
             UNCHANGED <<socket, entries, reader>>
      PROVE  Pipeline'
  <2>1. ASSUME socket = "open"
        PROVE  Path(View(entries), Pending', Server')
    <3>1. Path(View(entries), Pending, Server)
      BY <2>1 DEF Pipeline
    <3>2. /\ Len(Pending) \in Nat /\ Len(Pending') = Len(Pending) + 1
          /\ \A n \in 1..Len(Pending) : Pending'[n] = Pending[n]
          /\ Pending'[Len(Pending) + 1] = p
      BY <1>0, <1>8, PendingFacts, PendingGrows
    <3>3. Server' \in Views
      BY <1>8 DEF Server, ServerFits, Views
    <3>. QED BY <1>8, <3>1, <3>2, <3>3, PathLast
  <2>. QED BY <1>8, <2>1 DEF Pipeline
<1>9. ASSUME NEW b \in Buddy, Unsubscribe(b)
      PROVE  Pipeline'
  <2>1. UNCHANGED <<socket, entries, reader>>
        /\ (UNCHANGED <<wire, friends, online>> \/ (b \in friends /\ EndFriendship(b)))
    BY <1>9 DEF Unsubscribe, server
  <2>. QED BY <1>0, <1>1, <1>8, <2>1, FriendshipEnds
<1>10. CASE Take
  <2>1. /\ reader.at = "recv" /\ wire # <<>> /\ reader' = [at |-> "list", packet |-> Head(wire)]
        /\ wire' = Tail(wire) /\ UNCHANGED <<socket, entries, friends, online>>
    BY <1>10 DEF Take
  <2>2. /\ wire \in Seq(Sendable) /\ Head(wire) \in Sendable /\ wire' \in Seq(Sendable)
        /\ Len(wire') = Len(wire) - 1 /\ Len(wire) \in Nat
        /\ \A i \in 1..Len(wire') : wire'[i] = wire[i + 1]
        /\ Head(wire) = wire[1]
    BY <1>0, <2>1, HeadTailProperties, LenProperties DEF PacketsFit
  <2>3. /\ Len(Pending') = Len(wire') + 1 /\ Pending'[1] = wire[1]
        /\ \A n \in 1..Len(wire') : Pending'[n + 1] = wire'[n]
    <3>1. Pending' = PendingOf(reader', wire') /\ reader'.at = "list" /\ reader'.packet = wire[1]
          /\ wire[1] \in Sendable
      BY <2>1, <2>2 DEF Pending
    <3>. QED BY <2>2, <3>1, PendingOfFacts
  <2>4. Pending = wire
    BY <1>0, <2>1, PendingFacts
  <2>5. \A n \in 1..Len(wire) : wire[n] = Pending'[n]
    <3>. TAKE n \in 1..Len(wire)
    <3>1. CASE n = 1
      BY <2>3, <3>1
    <3>2. CASE n # 1
      <4>1. n - 1 \in 1..Len(wire') /\ (n - 1) + 1 = n
        BY <2>2, <3>2
      <4>. QED BY <2>2, <2>3, <4>1
    <3>. QED BY <3>1, <3>2
  <2>6. Len(wire) = Len(Pending')
    BY <2>2, <2>3
  <2>7. socket = "open" => Path(View(entries), Pending', Server)
    BY <2>4, <2>5, <2>6, PathSame DEF Pipeline
  <2>8. View(entries') = View(entries) /\ Server' = Server /\ reader'.at # "user" /\ socket' = socket
    BY <2>1 DEF Server
  <2>. QED BY <2>7, <2>8 DEF Pipeline
<1>11. CASE ListListener
  <2>1. reader'.at = "user" /\ UNCHANGED <<socket, wire, friends, online>>
    BY <1>11 DEF ListListener, server
  <2>2. Pending' = wire /\ Server' = Server
    BY <2>1 DEF Pending, PendingOf, Server
  <2>3. Path(View(entries'), wire, Server)
    BY <1>11, ListStep
  <2>4. \A b \in Buddy :
          /\ reader'.packet = Message(b) => b \in On(entries')
          /\ reader'.packet = Removed(b, b) => b \notin Has(entries')
    BY <1>11, ReachesUser
  <2>. QED BY <2>2, <2>3, <2>4 DEF Pipeline
<1>12. CASE UserListener \/ Ignored
  <2>1. reader.at = "user" /\ reader' = Recv /\ UNCHANGED <<socket, entries, wire, friends, online>>
    <3>1. CASE UserListener
      BY <3>1 DEF UserListener, Recv, server
    <3>2. CASE Ignored
      BY <3>2 DEF Ignored, server
    <3>. QED BY <1>12, <3>1, <3>2
  <2>2. reader'.at \in {"none", "recv"}
    BY <2>1, HoldingFacts
  <2>3. Pending' = Pending /\ Server' = Server
    BY <2>1, <2>2 DEF Pending, PendingOf, Server
  <2>. QED BY <2>1, <2>2, <2>3 DEF Pipeline
<1>13. ASSUME NEW s \in strays, StrayListListener(s) \/ StrayUserListener(s)
       PROVE  Pipeline'
  <2>1. UNCHANGED <<socket, reader, wire, friends, online>> /\ (entries' = entries \/ main = "delete")
    BY <1>13 DEF StrayListListener, StrayUserListener, server
  <2>2. main = "delete" => reader.at = "none" /\ socket # "open"
    BY <1>0 DEF Control
  <2>. QED BY <1>1, <1>4, <2>1, <2>2
<1>14. ASSUME Sends
       PROVE  Pipeline'
  <2>1. /\ ServerFits' /\ UNCHANGED <<socket, entries, reader>>
        /\ \E p \in Sendable : wire' = Append(wire, p) /\ Tells(Server, p, Server')
    BY <1>0, <1>14, ServerSends
  <2>. QED BY <1>8, <2>1
<1>. QED BY <1>0, <1>2, <1>3, <1>5, <1>6, <1>7, <1>9, <1>10, <1>11, <1>12, <1>13, <1>14, OtherLogins DEF Steps, Aside, Serves

-----------------------------------------------------------------------------
(* When a pointer can be wild *)

LEMMA FollowingSafe ==
  ASSUME Windows, client = "null" => race # {}
  PROVE  /\ \A f \in Following : f => race # {}
         /\ \A f \in Sending : f => race # {}
<1>1. client = "zombie" => race # {}
  BY DEF Windows
<1>2. socket = "wild" => race # {}
  BY DEF Windows
<1>3. \A f \in Following : f => race # {}
  <2>1. CASE client \in {"zombie", "null"}
    BY <1>1, <2>1
  <2>2. CASE client \notin {"zombie", "null"}
    <3>1. Following = {FALSE}
      BY <2>2 DEF Following
    <3>. QED BY <3>1
  <2>. QED BY <2>1, <2>2
<1>. HIDE DEF Following
<1>4. \A f \in Sending : f => race # {}
  BY <1>2, <1>3 DEF Sending
<1>. QED BY <1>3, <1>4

LEMMA MeetingFacts ==
  ASSUME NEW both \in BOOLEAN, NEW f \in Meeting(both)
  PROVE  both
BY DEF Meeting

\* What the User does with a packet of the wire is safe: a message comes from
\* a buddy whose session the list knows.
LEMMA HandleSafe ==
  ASSUME Fits, Pipeline, Windows, reader.at = "user", reader.packet.kind # "otherlogin",
         Handle(reader.packet), fault'
  PROVE  fault \/ race # {}
<1> DEFINE p == reader.packet
<1>1. /\ p \in Handed /\ p # OtherLoginPacket /\ entries \in Seq(Rows) /\ JabberFits
      /\ client # "null"
  BY ReaderFacts, PacketKinds DEF Fits, RowsFit, Control
<1>2. fault' \in Following => race # {}
  BY <1>1, FollowingSafe
<1>3. ASSUME NEW t \in Seq(Buddy), p = NamesOf(t)
      PROVE  fault \/ race # {}
  BY <1>1, <1>2, <1>3, HandleNames
<1>4. ASSUME NEW b \in Buddy, NEW s, p = Online(b, s)
      PROVE  fault \/ race # {}
  BY <1>1, <1>2, <1>4, HandleOnline DEF JabberFits
<1>5. ASSUME NEW b \in Buddy, p = Message(b)
      PROVE  fault \/ race # {}
  <2>1. b \in On(entries)
    BY <1>5 DEF Pipeline
  <2>. QED BY <1>1, <1>2, <1>5, <2>1, HandleMessage
<1>6. ASSUME NEW b \in Buddy, NEW n, p = Removed(b, n)
      PROVE  fault \/ race # {}
  <2>1. fault' = fault
    BY <1>1, <1>6, HandleRemoved
  <2>. QED BY <2>1
<1>7. ASSUME NEW b \in Buddy, p = Games(b)
      PROVE  fault \/ race # {}
  BY <1>1, <1>2, <1>7, HandleGames DEF JabberFits
<1>. QED BY <1>1, <1>3, <1>4, <1>5, <1>6, <1>7, HandedCases

LEMMA WindowsStep ==
  ASSUME Fits, Pipeline, Windows, UNCHANGED vars \/ Steps
  PROVE  Windows'
<1>0. /\ socket = "wild" => "refused" \in race
      /\ client = "zombie" => "otherlogin" \in race
      /\ strays # {} => "cancel" \in race
      /\ fault => race # {}
      /\ Control
  BY DEF Windows, FaultsNeedARace, Fits
<1>1. ASSUME race \subseteq race', fault' => fault \/ race' # {},
             strays' \subseteq strays, socket' = "wild" => socket = "wild",
             client' = "zombie" => client = "zombie"
      PROVE  Windows'
  BY <1>0, <1>1 DEF Windows, FaultsNeedARace
<1>a. ASSUME client = "null" => main \in {"goodbye", "delete"} \/ present # {}
      PROVE  /\ \A f \in Following : f => race # {}
             /\ \A f \in Sending : f => race # {}
  <2>1. client = "null" => race # {}
    BY <1>0, <1>a DEF Control
  <2>. QED BY <2>1, FollowingSafe
<1>2. CASE UNCHANGED vars \/ Ping
  <2>1. UNCHANGED <<race, fault, strays, socket, client>>
    BY <1>2 DEF vars, Ping
  <2>. QED BY <1>1, <2>1
<1>3. ASSUME NEW P, NewClient(P)
      PROVE  Windows'
  <2>1. /\ race \subseteq race' \union {"attach"} /\ strays' = strays /\ fault' = fault /\ ~fault
        /\ client' = "live" /\ (socket' = "wild" => "refused" \in race')
    BY <1>3 DEF NewClient, Event
  <2>. QED BY <1>0, <2>1 DEF Windows, FaultsNeedARace
<1>4. CASE Attach
  <2>1. /\ UNCHANGED <<strays, socket, client>> /\ race \subseteq race' /\ present # {}
        /\ fault' \in Following \union Meeting(HeldByReader # {})
        /\ HeldByReader # {} => race' # {}
    BY <1>0, <1>4 DEF Attach, Control
  <2>2. fault' \in Following \/ HeldByReader # {}
    BY <2>1, MeetingFacts
  <2>3. fault' => race' # {}
    BY <1>a, <2>1, <2>2
  <2>. QED BY <1>1, <2>1, <2>3
<1>5. CASE SendStatus
  <2>1. UNCHANGED <<strays, socket, client, race>> /\ fault' \in Sending /\ present # {}
    BY <1>0, <1>5 DEF SendStatus, Control
  <2>2. fault' => race # {}
    BY <1>a, <2>1
  <2>. QED BY <1>1, <2>1, <2>2
<1>6. CASE MirrorPresence \/ SendTag \/ Take \/ ReaderEnds \/ \E P : Served(P) \/ Unserved(P)
  <2>1. UNCHANGED <<race, fault, strays, client>> /\ (socket' = socket \/ socket' = "closed")
    <3>1. CASE MirrorPresence \/ SendTag \/ Take \/ ReaderEnds
      BY <3>1 DEF MirrorPresence, SendTag, Take, ReaderEnds
    <3>2. CASE \E P : Served(P) \/ Unserved(P)
      BY <3>2 DEF Served, Unserved
    <3>. QED BY <1>6, <3>1, <3>2
  <2>. QED BY <1>1, <2>1
<1>7. ASSUME NEW both \in BOOLEAN, Met(both), UNCHANGED <<strays, socket, client>>, client # "null",
             fault' \in Following \union Meeting(both) \/ fault' \in Sending \union Meeting(both)
      PROVE  Windows'
  <2>1. race \subseteq race' /\ (both => race' # {})
    BY <1>7 DEF Met
  <2>2. fault' \in Following \/ fault' \in Sending \/ both
    BY <1>7, MeetingFacts
  <2>3. fault' => race' # {}
    BY <1>a, <1>7, <2>1, <2>2
  <2>. QED BY <1>1, <1>7, <2>1, <2>3
<1>8. ASSUME NEW P, Goodbye(P)
      PROVE  Windows'
  <2> DEFINE both == ListMoves \/ RosterMoves
  <2>1. /\ UNCHANGED <<strays, socket, client>> /\ client # "null" /\ both \in BOOLEAN
        /\ fault' \in Following \union Meeting(both) /\ Met(both)
    BY <1>8 DEF Goodbye, ListMoves, RosterMoves
  <2>. HIDE DEF both
  <2>. QED BY <1>7, <2>1
<1>9. ASSUME NEW b \in Buddy, Subscribed(b)
      PROVE  Windows'
  <2> DEFINE both == ListMoves \/ RosterMoves
  <2>1. /\ UNCHANGED <<strays, socket, client>> /\ client # "null" /\ both \in BOOLEAN
        /\ fault' \in Following \union Meeting(both) /\ Met(both)
    BY <1>9 DEF Subscribed, ListMoves, RosterMoves
  <2>. HIDE DEF both
  <2>. QED BY <1>7, <2>1
<1>10. ASSUME NEW b \in Buddy, Unsubscribe(b)
       PROVE  Windows'
  <2>1. /\ UNCHANGED <<strays, socket, client>> /\ client # "null" /\ ListMoves \in BOOLEAN
        /\ fault' \in Sending \union Meeting(ListMoves) /\ Met(ListMoves)
    BY <1>10 DEF Unsubscribe, ListMoves
  <2>. QED BY <1>7, <2>1
<1>11. CASE Insert
  <2> DEFINE both == RosterRead \/ GameMoves
  <2>1. /\ UNCHANGED <<strays, socket, client>> /\ present # {}
        /\ Met(both)
        /\ \/ fault' \in {FALSE} \union Meeting(client # "live" \/ both)
           \/ fault' \in Sending \union Meeting(RosterRead)
    BY <1>0, <1>11 DEF Insert, Control
  <2>2. race \subseteq race' /\ (both => race' # {})
    BY <2>1 DEF Met
  <2>3. ASSUME fault'
        PROVE  client # "live" \/ both \/ fault' \in Sending
    <3>1. fault' \notin {FALSE}
      BY <2>3
    <3>2. (client # "live" \/ both) \in BOOLEAN /\ RosterRead \in BOOLEAN
      BY DEF RosterRead, GameMoves
    <3>3. CASE fault' \in Meeting(client # "live" \/ both)
      BY <3>2, <3>3, MeetingFacts
    <3>4. CASE fault' \in Meeting(RosterRead)
      <4>1. RosterRead
        BY <3>2, <3>4, MeetingFacts
      <4>. QED BY <4>1
    <3>. HIDE DEF both
    <3>. QED BY <2>1, <3>1, <3>3, <3>4
  <2>4. client # "live" => race # {}
    BY <1>0, <2>1 DEF Control
  <2>5. fault' => race' # {}
    BY <1>a, <2>1, <2>2, <2>3, <2>4
  <2>. QED BY <1>1, <2>1, <2>2, <2>5
<1>12. CASE Disconnect
  <2>1. /\ socket' = "null" /\ client' = client /\ main = "goodbye"
        /\ fault' \in Sending \union IF pinger = "sending" THEN BOOLEAN ELSE {}
        /\ race' = race \union IF HeldByReader # {} \/ pinger = "sending" THEN {"cancel"} ELSE {}
        /\ strays' = strays \union HeldByReader
    BY <1>12 DEF Disconnect
  <2>2. fault' => race' # {}
    BY <1>a, <2>1
  <2>. QED BY <1>0, <2>1, <2>2 DEF Windows, FaultsNeedARace
<1>13. CASE DeleteClient
  <2>1. /\ UNCHANGED <<strays, race>> /\ socket' = "none" /\ client' = "null" /\ main = "delete"
        /\ (fault' \in Following \/ ~fault')
    BY <1>13 DEF DeleteClient
  <2>2. fault' => race # {}
    BY <1>a, <2>1
  <2>. QED BY <1>1, <2>1, <2>2
<1>14. CASE UserListener
  <2>1. /\ UNCHANGED <<strays, socket, client>> /\ race \subseteq race'
        /\ reader.at = "user" /\ reader.packet.kind # "otherlogin"
        /\ (fault' = fault \/ Handle(reader.packet))
    BY <1>14 DEF UserListener
  <2>2. fault' => fault \/ race # {}
    BY <2>1, HandleSafe
  <2>. QED BY <1>1, <2>1, <2>2
<1>15. CASE ListListener
  <2>1. /\ UNCHANGED <<strays, socket, client>> /\ race \subseteq race'
        /\ fault' => race' # {}
    BY <1>15 DEF ListListener, ListTurn
  <2>. QED BY <1>1, <2>1
<1>16. CASE OtherLogin
  <2>1. \/ UNCHANGED <<strays, socket, client, fault, race>>
        \/ strays' = strays /\ socket' \in {"closed", "none"} /\ race' = race \union {"otherlogin"}
    BY <1>16 DEF OtherLogin, DeletedByReader
  <2>. QED BY <1>0, <1>1, <2>1 DEF Windows, FaultsNeedARace
<1>17. ASSUME NEW s \in strays, StrayEnds(s) \/ StrayListListener(s) \/ StrayUserListener(s)
       PROVE  Windows'
  <2>1. UNCHANGED <<socket, client>> /\ race \subseteq race'
    BY <1>17 DEF StrayEnds, StrayListListener, ListTurn, StrayUserListener
  <2>2. "cancel" \in race
    BY <1>0
  <2>. QED BY <1>0, <2>1, <2>2 DEF Windows, FaultsNeedARace
<1>18. ASSUME NEW s \in strays, StrayOtherLogin(s)
       PROVE  Windows'
  <2>1. \/ UNCHANGED <<socket, client, strays, race>>
        \/ socket' \in {"closed", "none"} /\ race' = race \union {"otherlogin"}
    BY <1>18 DEF StrayOtherLogin, DeletedByReader
  <2>2. "cancel" \in race
    BY <1>0
  <2>. QED BY <1>0, <2>1, <2>2 DEF Windows, FaultsNeedARace
<1>19. CASE Pinged
  <2>1. /\ UNCHANGED <<socket, client, strays, race>> /\ pinger = "sending"
        /\ fault' \in {FALSE} \union Meeting(client # "live")
    BY <1>19 DEF Pinged
  <2>2. fault' => client # "live"
    BY <2>1, MeetingFacts
  <2>3. fault' => race # {}
    BY <1>0, <2>1, <2>2 DEF Control
  <2>. QED BY <1>1, <2>1, <2>3
<1>20. ASSUME Sends
       PROVE  Windows'
  <2>1. UNCHANGED <<socket, client, strays, fault, race>>
    BY <1>20, ServerSends DEF Fits
  <2>. QED BY <1>1, <2>1
<1>. QED BY <1>2, <1>3, <1>4, <1>5, <1>6, <1>8, <1>9, <1>10, <1>11, <1>12, <1>13, <1>14, <1>15,
        <1>16, <1>17, <1>18, <1>19, <1>20 DEF Steps

-----------------------------------------------------------------------------
(* Whom Jabber believes online *)

LEMMA AboutNames ==
  ASSUME NEW t \in Seq(Buddy)
  PROVE  About(NamesOf(t)) = Listed(t)
<1> DEFINE p == NamesOf(t)
<1>1. p.kind = "names" /\ Len(t) \in Nat
  BY PacketKinds, LenProperties
<1>2. Len(p.items) = Len(t) /\ \A k \in 1..Len(t) : p.items[k].name = t[k]
  BY <1>1 DEF NamesOf
<1>. HIDE DEF p
<1>3. About(p) = {b \in Buddy : \E k \in 1..Len(p.items) : p.items[k].name = b}
  BY <1>1 DEF About
<1>. QED BY <1>2, <1>3 DEF Listed, Contains, p

\* A packet leaves the view of a buddy it is not about.
LEMMA TellsAside ==
  ASSUME NEW V \in Views, NEW p, NEW W, Tells(V, p, W), NEW c \in Buddy, c \notin About(p)
  PROVE  (c \in W.has <=> c \in V.has) /\ (c \in W.on <=> c \in V.on)
<1>0. \A h, o : W = [has |-> h, on |-> o] => W.has = h /\ W.on = o
  OBVIOUS
<1>1. V.has \subseteq Buddy /\ V.on \subseteq Buddy
  BY DEF Views
<1>2. ASSUME NEW b \in Buddy, NEW n, NEW s,
             p = Removed(b, n) \/ p = Message(b) \/ p = Games(b) \/ p = Online(b, s)
      PROVE  c # b
  BY <1>2, PacketsAreAbout
<1>3. ASSUME NEW b \in V.has, p = Removed(b, Unnamed), W = [has |-> V.has \ {b}, on |-> V.on \ {b}]
      PROVE  (c \in W.has <=> c \in V.has) /\ (c \in W.on <=> c \in V.on)
  BY <1>0, <1>1, <1>2, <1>3
<1>4. ASSUME NEW b \in V.has, p = Online(b, NoSid), W = [has |-> V.has, on |-> V.on \ {b}]
      PROVE  (c \in W.has <=> c \in V.has) /\ (c \in W.on <=> c \in V.on)
  BY <1>0, <1>1, <1>2, <1>4
<1>5. ASSUME NEW b \in V.has, p = Online(b, UserId[b]), W = [has |-> V.has, on |-> V.on \union {b}]
      PROVE  (c \in W.has <=> c \in V.has) /\ (c \in W.on <=> c \in V.on)
  BY <1>0, <1>1, <1>2, <1>5
<1>6. ASSUME NEW t \in Seq(Buddy), p = NamesOf(t), W = [has |-> V.has \union Listed(t), on |-> V.on]
      PROVE  (c \in W.has <=> c \in V.has) /\ (c \in W.on <=> c \in V.on)
  <2>1. c \notin Listed(t)
    BY <1>6, AboutNames
  <2>. QED BY <1>0, <1>6, <2>1
<1>7. W = V => (c \in W.has <=> c \in V.has) /\ (c \in W.on <=> c \in V.on)
  OBVIOUS
<1>. QED BY <1>3, <1>4, <1>5, <1>6, <1>7 DEF Tells

LEMMA NamedIsAbout ==
  ASSUME NEW p \in Sendable, entries \in Seq(Rows)
  PROVE  About(Named(p)) = About(p)
<1>1. CASE p.kind # "removed"
  BY <1>1, NamedFacts
<1>2. CASE p.kind = "removed"
  <2>1. PICK b \in Buddy : p = Removed(b, Unnamed)
    BY <1>2, SendableKinds
  <2>2. PICK n : Named(p) = Removed(b, n)
    BY <2>1, NamedFacts
  <2>3. About(Removed(b, n)) = {b} /\ About(p) = {b}
    BY <2>1, PacketsAreAbout
  <2>. QED BY <2>2, <2>3
<1>. QED BY <1>1, <1>2

LEMMA ReadyKept ==
  ASSUME Ready, UNCHANGED <<main, tag>>, raced \subseteq raced', Answered \subseteq Buddy,
         \A b \in Answered \ raced' :
            /\ InRoster(b) => InRoster(b)'
            /\ b \in Has(entries)' <=> b \in Has(entries)
            /\ b \in On(entries)' <=> b \in On(entries)
  PROVE  Ready'
<1>1. CASE main \in {"insert", "accept"}
  <2>1. Chosen /\ Answered = {tag.to} /\ main' = main /\ main # "tag" /\ tag'.to = tag.to
    BY <1>1 DEF Ready, Answered
  <2>2. Chosen'
    BY <2>1 DEF Chosen
  <2>. QED BY <2>1, <2>2 DEF Ready
<1>2. CASE main = "tag"
  <2>1. Tagged /\ Answered = {tag.to} /\ main' = main /\ tag' = tag
    BY <1>2 DEF Ready, Answered
  <2>2. InRoster(tag.to)' <=> Contains(inroster', tag.to)
    BY <2>1 DEF InRoster
  <2>3. tag.to \notin raced' => (InRoster(tag.to) => InRoster(tag.to)')
    <3>1. \A b : InRoster(b)' <=> Contains(inroster', b)
      BY DEF InRoster
    <3>. QED BY <2>1, <2>2, <3>1
  <2>4. Tagged'
    BY <2>1, <2>3 DEF Tagged
  <2>. QED BY <1>2, <2>1, <2>4 DEF Ready
<1>3. CASE main \notin {"insert", "accept", "tag"}
  BY <1>3 DEF Ready
<1>. QED BY <1>1, <1>2, <1>3

LEMMA HiddenFrame ==
  ASSUME Hidden, JabberFits, UNCHANGED <<entries, reader, inroster, shown>>, raced \subseteq raced',
         main' \notin {"goodbye", "delete", "insert", "accept", "tag"} \/ UNCHANGED <<main, tag>>
  PROVE  Hidden'
<1>1. \A b : (InRoster(b)' <=> InRoster(b)) /\ (Leaving(b)' <=> Leaving(b))
  BY DEF InRoster, Leaving
<1>2. Has(entries)' = Has(entries) /\ On(entries)' = On(entries) /\ About(reader.packet)' = About(reader.packet)
  BY DEF Has, On, About
<1>3. \A b \in Buddy : Excused(b) => Excused(b)'
  BY <1>1, <1>2 DEF Excused
<1>4. \A b \in Buddy : shown'[b] = "on" => Excused(b)'
  BY <1>3 DEF Hidden
<1>5. CASE main' \notin {"goodbye", "delete", "insert", "accept", "tag"}
  <2>1. Answered' = {} /\ Ready'
    BY <1>5 DEF Answered, Ready
  <2>. QED BY <1>4, <1>5, <2>1 DEF Hidden
<1>6. CASE UNCHANGED <<main, tag>>
  <2>1. Answered' = Answered /\ Answered \subseteq Buddy
    BY <1>6 DEF Answered, JabberFits
  <2>2. Ready'
    BY <1>1, <1>2, <1>6, <2>1, ReadyKept DEF Hidden
  <2>3. main' \in {"goodbye", "delete"} => \A b \in Buddy : shown'[b] = "on" => b \in raced'
    BY <1>6 DEF Hidden
  <2>4. main' = "goodbye" => About(reader.packet)' \subseteq raced'
    BY <1>2, <1>6 DEF Hidden
  <2>5. Answered' \intersect About(reader.packet)' \subseteq raced'
    BY <1>2, <2>1 DEF Hidden
  <2>. QED BY <1>4, <2>2, <2>3, <2>4, <2>5 DEF Hidden
<1>. QED BY <1>5, <1>6

\* A step of the Jabber thread.
LEMMA HiddenMain ==
  ASSUME Fits, Hidden,
         \/ \E P : NewClient(P) \/ Goodbye(P)
         \/ Disconnect \/ DeleteClient \/ Insert \/ SendTag
         \/ \E b \in Buddy : Subscribed(b) \/ Unsubscribe(b)
  PROVE  Hidden'
<1>0. /\ PacketsFit /\ ServerFits /\ JabberFits /\ Control /\ entries \in Seq(Rows)
      /\ (main # "delete" => Distinct(entries))
      /\ shown \in [Buddy -> {"none", "on", "off"}]
  BY DEF Fits, RowsFit, JabberFits
<1>a. /\ \A b \in Buddy : shown[b] = "on" => Excused(b)
      /\ main \in {"goodbye", "delete"} => \A b \in Buddy : shown[b] = "on" => b \in raced
      /\ Answered \intersect About(reader.packet) \subseteq raced
      /\ Ready
  BY DEF Hidden
<1>b. ASSUME main' \notin {"goodbye", "delete", "insert", "accept", "tag"},
             \A b \in Buddy : shown'[b] = "on" => Excused(b)'
      PROVE  Hidden'
  BY <1>b DEF Hidden, Ready, Answered
<1>1. ASSUME NEW P, NewClient(P)
      PROVE  Hidden'
  <2>1. /\ UNCHANGED <<entries, inroster, shown, raced>> /\ main' = "attach" /\ reader.at = "none"
    BY <1>0, <1>1 DEF NewClient, Control
  <2>2. ASSUME NEW b \in Buddy, Excused(b)
        PROVE  Excused(b)'
    <3>1. b \in raced \/ (InRoster(b) /\ b \in Has(entries))
      BY <2>1, <2>2 DEF Excused, Leaving
    <3>2. (InRoster(b)' <=> InRoster(b)) /\ Has(entries)' = Has(entries)
      BY <2>1 DEF InRoster, Has
    <3>. QED BY <2>1, <3>1, <3>2 DEF Excused
  <2>. QED BY <1>a, <1>b, <2>1, <2>2
<1>2. ASSUME NEW P, Goodbye(P)
      PROVE  Hidden'
  <2>1. PICK told \in SUBSET Reached :
          /\ UNCHANGED <<entries, inroster, reader>> /\ main' = "goodbye" /\ shown' = Unavailable(told)
          /\ raced' = (raced \ told) \union (Reached \ told) \union About(reader.packet)
    BY <1>2 DEF Goodbye
  <2>2. ASSUME NEW b \in Buddy, shown'[b] = "on"
        PROVE  b \in raced'
    <3>1. shown[b] = "on" /\ b \notin told
      BY <1>0, <2>1, <2>2, UnavailableFacts
    <3>2. b \in raced \/ b \in Reached \/ Leaving(b)
      BY <1>0, <1>a, <3>1, UnavailableFacts DEF Excused
    <3>3. Leaving(b) => b \in About(reader.packet)
      BY PacketsAreAbout DEF Leaving
    <3>. QED BY <2>1, <3>1, <3>2, <3>3
  <2>3. About(reader.packet)' \subseteq raced' /\ Answered' = {} /\ Ready'
    BY <2>1 DEF About, Answered, Ready
  <2>4. \A b \in Buddy : shown'[b] = "on" => Excused(b)'
    BY <2>2 DEF Excused
  <2>. QED BY <2>1, <2>2, <2>3, <2>4 DEF Hidden
<1>3. CASE Disconnect
  <2>1. UNCHANGED <<shown, raced>> /\ main' = "delete" /\ main = "goodbye"
    BY <1>3 DEF Disconnect, jabber
  <2>2. \A b \in Buddy : shown'[b] = "on" => b \in raced'
    BY <1>a, <2>1
  <2>3. \A b \in Buddy : shown'[b] = "on" => Excused(b)'
    BY <2>2 DEF Excused
  <2>4. Answered' = {} /\ Ready'
    BY <2>1 DEF Answered, Ready
  <2>. QED BY <2>1, <2>2, <2>3, <2>4 DEF Hidden
<1>4. CASE DeleteClient
  <2>1. UNCHANGED <<shown, raced>> /\ main' = "mirror" /\ main = "delete"
    BY <1>4 DEF DeleteClient, jabber
  <2>2. \A b \in Buddy : shown'[b] = "on" => Excused(b)'
    BY <1>a, <2>1 DEF Excused
  <2>. QED BY <1>b, <2>1, <2>2
<1>5. CASE SendTag
  <2>1. /\ UNCHANGED <<entries, inroster, reader, raced>> /\ main' = "idle" /\ main = "tag"
        /\ shown' = [shown EXCEPT ![tag.to] = OnOff(tag.on)]
    BY <1>5 DEF SendTag
  <2>2. \A b \in Buddy : Excused(b)' <=> Excused(b)
    <3>1. \A b \in Buddy : (InRoster(b)' <=> InRoster(b)) /\ (Leaving(b)' <=> Leaving(b))
      BY <2>1 DEF InRoster, Leaving
    <3>2. Has(entries)' = Has(entries)
      BY <2>1 DEF Has
    <3>. QED BY <2>1, <3>1, <3>2 DEF Excused
  <2>3. tag.to \in Buddy /\ Excused(tag.to)
    BY <1>0, <1>a, <2>1 DEF Ready, Tagged, Excused, JabberFits
  <2>4. \A b \in Buddy : b # tag.to => shown'[b] = shown[b]
    BY <1>0, <2>1
  <2>. QED BY <1>a, <1>b, <2>1, <2>2, <2>3, <2>4
<1>6. ASSUME NEW b \in Buddy, Subscribed(b)
      PROVE  Hidden'
  <2> DEFINE meets == ListMoves \/ RosterMoves
  <2>1. /\ UNCHANGED <<entries, reader, inroster, shown>> /\ main' \in {"insert", "accept"} /\ tag'.to = b
        /\ raced' = raced \union IF meets THEN {b} ELSE {b} \intersect About(reader.packet)
        /\ ~ListMoves => (main' = "insert" <=> HasEntry(b))
    BY <1>6 DEF Subscribed, jabber
  <2>2. /\ Has(entries)' = Has(entries)
        /\ About(reader.packet)' = About(reader.packet)
        /\ \A c \in Buddy : (Leaving(c)' <=> Leaving(c)) /\ (InRoster(c)' <=> InRoster(c))
    BY <2>1 DEF Has, About, Leaving, InRoster
  <2>3. \A c \in Buddy : shown'[c] = "on" => Excused(c)'
    BY <1>a, <2>1, <2>2 DEF Excused
  <2>4. HasEntry(b) <=> b \in Has(entries)
    BY <1>0, EntryFacts
  <2>5. Chosen'
    BY <2>1, <2>2, <2>4 DEF Chosen
  <2>6. Answered' = {b}
    BY <2>1 DEF Answered
  <2>7. {b} \intersect About(reader.packet) \subseteq raced'
    BY <2>1
  <2>. QED BY <2>1, <2>2, <2>3, <2>5, <2>6, <2>7 DEF Hidden, Ready
<1>7. CASE Insert
  <2>1. /\ UNCHANGED <<entries, reader, shown, raced>> /\ main \in {"insert", "accept"}
        /\ \/ main' = "idle"
           \/ /\ main = "insert" /\ main' = "tag"
              /\ \E on \in IF HasEntry(tag.to) THEN {IsOnline(Entry(tag.to))} ELSE BOOLEAN :
                   tag' = [to |-> tag.to, on |-> on]
    BY <1>7 DEF Insert
  <2>2. tag.to \in Buddy /\ \A c : InRoster(c)' <=> InRoster(c) \/ c = tag.to
    BY <1>0, <1>7, InsertFacts
  <2>3. /\ Has(entries)' = Has(entries) /\ On(entries)' = On(entries)
        /\ About(reader.packet)' = About(reader.packet)
        /\ \A c \in Buddy : Leaving(c)' <=> Leaving(c)
    BY <2>1 DEF Has, On, About, Leaving
  <2>4. \A c \in Buddy : shown'[c] = "on" => Excused(c)'
    BY <1>a, <2>1, <2>2, <2>3 DEF Excused
  <2>5. CASE main' = "idle"
    BY <1>b, <2>4, <2>5
  <2>6. CASE main' = "tag"
    <3>1. main = "insert"
      BY <2>1, <2>6
    <3>2. PICK on \in IF HasEntry(tag.to) THEN {IsOnline(Entry(tag.to))} ELSE BOOLEAN :
            tag' = [to |-> tag.to, on |-> on]
      BY <2>1, <2>6
    <3>3. tag'.to = tag.to /\ (tag'.on <=> on)
      BY <3>2
    <3>4. ASSUME tag.to \notin raced
          PROVE  Contains(inroster', tag.to) /\ tag.to \in Has(entries) /\ (tag'.on <=> tag.to \in On(entries))
      <4>1. tag.to \in Has(entries)
        BY <1>a, <3>1, <3>4 DEF Ready, Chosen
      <4>2. HasEntry(tag.to) /\ (IsOnline(Entry(tag.to)) <=> tag.to \in On(entries))
        BY <1>0, <2>2, <3>1, <4>1, EntryFacts
      <4>3. on <=> IsOnline(Entry(tag.to))
        BY <4>2
      <4>4. Contains(inroster', tag.to)
        BY <2>2 DEF InRoster
      <4>. QED BY <3>3, <4>1, <4>2, <4>3, <4>4
    <3>5. Tagged'
      BY <2>1, <2>3, <3>3, <3>4 DEF Tagged, InRoster
    <3>6. Answered' = Answered
      BY <2>1, <2>6, <3>3 DEF Answered
    <3>. QED BY <1>a, <2>1, <2>3, <2>4, <2>6, <3>5, <3>6 DEF Hidden, Ready
  <2>. QED BY <2>1, <2>5, <2>6
<1>8. ASSUME NEW b \in Buddy, Unsubscribe(b)
      PROVE  Hidden'
  <2>1. UNCHANGED <<entries, reader, inroster, raced, main>> /\ main = "idle"
        /\ shown' = [shown EXCEPT ![b] = "none"]
    BY <1>8 DEF Unsubscribe
  <2>2. \A c \in Buddy : shown'[c] = "on" => shown[c] = "on"
    BY <1>0, <2>1
  <2>3. \A c \in Buddy : Excused(c)' <=> Excused(c)
    <3>1. \A c \in Buddy : (InRoster(c)' <=> InRoster(c)) /\ (Leaving(c)' <=> Leaving(c))
      BY <2>1 DEF InRoster, Leaving
    <3>2. Has(entries)' = Has(entries)
      BY <2>1 DEF Has
    <3>. QED BY <2>1, <3>1, <3>2 DEF Excused
  <2>. QED BY <1>a, <1>b, <2>1, <2>2, <2>3
<1>. QED BY <1>1, <1>2, <1>3, <1>4, <1>5, <1>6, <1>7, <1>8

\* A step of the read thread.
LEMMA HiddenReader ==
  ASSUME Fits, Pipeline, Hidden, ~fault',
         Take \/ ListListener \/ UserListener \/ Ignored \/ Deleted \/ ReaderEnds
  PROVE  Hidden'
<1>0. /\ PacketsFit /\ JabberFits /\ Control /\ entries \in Seq(Rows)
      /\ (main # "delete" => Distinct(entries))
      /\ shown \in [Buddy -> {"none", "on", "off"}] /\ Answered \subseteq Buddy
  BY DEF Fits, RowsFit, JabberFits, Answered
<1>a. /\ \A b \in Buddy : shown[b] = "on" => Excused(b)
      /\ main \in {"goodbye", "delete"} => \A b \in Buddy : shown[b] = "on" => b \in raced
      /\ main = "goodbye" => About(reader.packet) \subseteq raced
      /\ Answered \intersect About(reader.packet) \subseteq raced
      /\ Ready
  BY DEF Hidden
<1>b. About(NoPacket) = {}
  BY PacketsAreAbout
<1>c. ASSUME reader' \in {Idle, Recv}
      PROVE  About(reader.packet)' = {} /\ \A b \in Buddy : ~Leaving(b)'
  <2>1. reader'.packet = NoPacket /\ reader'.at # "user"
    BY <1>c, HoldingFacts
  <2>2. About(reader.packet)' = About(NoPacket)
    BY <2>1 DEF About
  <2>. QED BY <1>b, <2>1, <2>2 DEF Leaving
\* The read thread lets go of a packet that was not about to take a buddy away.
<1>d. ASSUME UNCHANGED <<entries, inroster, shown, raced, tag, main>>, reader' \in {Idle, Recv},
             \A b \in Buddy : ~Leaving(b)
      PROVE  Hidden'
  <2>1. /\ Has(entries)' = Has(entries) /\ On(entries)' = On(entries) /\ Answered' = Answered
        /\ \A b \in Buddy : InRoster(b)' <=> InRoster(b)
    BY <1>d DEF Has, On, InRoster, Answered
  <2>2. \A b \in Buddy : shown'[b] = "on" => Excused(b)'
    BY <1>a, <1>d, <2>1 DEF Excused
  <2>3. Ready'
    BY <1>0, <1>a, <1>d, <2>1, ReadyKept
  <2>4. main' \in {"goodbye", "delete"} => \A b \in Buddy : shown'[b] = "on" => b \in raced'
    BY <1>a, <1>d
  <2>. QED BY <1>c, <1>d, <2>1, <2>2, <2>3, <2>4 DEF Hidden
<1>1. CASE Take
  <2>1. /\ UNCHANGED <<entries, inroster, shown, tag, main>> /\ reader.at = "recv"
        /\ reader' = [at |-> "list", packet |-> Head(wire)] /\ raced \subseteq raced'
        /\ main = "goodbye" => About(Head(wire)) \intersect Buddy \subseteq raced'
        /\ main # "goodbye" => About(Head(wire)) \intersect Answered \subseteq raced'
    BY <1>1 DEF Take, jabber
  <2>2. /\ Has(entries)' = Has(entries) /\ On(entries)' = On(entries) /\ Answered' = Answered
        /\ main = "goodbye" => Answered = {}
        /\ \A b \in Buddy : InRoster(b)' <=> InRoster(b)
        /\ \A b \in Buddy : ~Leaving(b)
    BY <2>1 DEF Has, On, InRoster, Leaving, Answered
  <2>3. About(reader.packet)' = About(Head(wire)) /\ About(Head(wire)) \subseteq Buddy
    BY <2>1 DEF About
  <2>4. \A b \in Buddy : shown'[b] = "on" => Excused(b)'
    BY <1>a, <2>1, <2>2 DEF Excused
  <2>5. Ready'
    BY <1>0, <1>a, <2>1, <2>2, ReadyKept
  <2>6. main' \in {"goodbye", "delete"} => \A b \in Buddy : shown'[b] = "on" => b \in raced'
    BY <1>a, <2>1
  <2>7. main' = "goodbye" => About(reader.packet)' \subseteq raced'
    BY <2>1, <2>3
  <2>8. Answered' \intersect About(reader.packet)' \subseteq raced'
    BY <2>1, <2>2, <2>3
  <2>. QED BY <2>4, <2>5, <2>6, <2>7, <2>8 DEF Hidden
<1>2. CASE ListListener
  <2> DEFINE p == reader.packet
  <2>1. /\ UNCHANGED <<inroster, shown, tag, main, raced>> /\ reader.at = "list"
        /\ reader' = [at |-> "user", packet |-> Named(p)]
    BY <1>2 DEF ListListener, jabber
  <2>2. p \in Sendable
    BY <1>0, <2>1, ReaderFacts
  <2>3. About(reader.packet)' = About(p)
    <3>1. About(reader.packet)' = About(Named(p))
      BY <2>1 DEF About
    <3>2. About(Named(p)) = About(p)
      BY <1>0, <2>2, NamedIsAbout
    <3>. QED BY <3>1, <3>2
  <2>4. /\ \A b \in Buddy : InRoster(b)' <=> InRoster(b)
        /\ \A b \in Buddy : ~Leaving(b)
        /\ Answered' = Answered
    BY <2>1 DEF InRoster, Leaving, Answered
  <2> DEFINE V == View(entries)
             W == View(entries')
  <2>5. /\ V \in Views /\ V.has = Has(entries) /\ V.on = On(entries)
        /\ W.has = Has(entries)' /\ W.on = On(entries)' /\ Tells(V, p, W)
    BY <1>2, ViewType, ListStep
  <2>. HIDE DEF V, W
  <2>6. \A b \in Buddy \ About(p) :
          (b \in Has(entries)' <=> b \in Has(entries)) /\ (b \in On(entries)' <=> b \in On(entries))
    <3>. TAKE b \in Buddy \ About(p)
    <3>1. (b \in W.has <=> b \in V.has) /\ (b \in W.on <=> b \in V.on)
      BY <2>5, TellsAside
    <3>. QED BY <2>5, <3>1
  <2>7. \A b \in Buddy : b \in Has(entries) /\ b \notin Has(entries)' => Leaving(b)'
    <3>. SUFFICES ASSUME NEW b \in Buddy, b \in Has(entries), b \notin Has(entries)'
                  PROVE  Leaving(b)'
      OBVIOUS
    <3>1. b \in V.has /\ b \notin W.has
      BY <2>5
    <3>2. p = Removed(b, Unnamed)
      BY ONLY <2>5, <3>1, TellsGone
    <3>3. Named(p) = Removed(b, b)
      BY <1>0, <2>2, <3>2, NamedFacts
    <3>. QED BY <2>1, <3>3 DEF Leaving
  <2>8. \A b \in Buddy : shown'[b] = "on" => Excused(b)'
    BY <1>a, <2>1, <2>4, <2>7 DEF Excused
  <2>9. Ready'
    <3>1. Answered \ raced' \subseteq Buddy \ About(p)
      BY <1>0, <1>a, <2>1
    <3>. HIDE DEF p
    <3>. QED BY <1>0, <1>a, <2>1, <2>4, <2>6, <3>1, ReadyKept
  <2>10. main = "goodbye" => About(reader.packet)' \subseteq raced'
    BY <1>a, <2>1, <2>3
  <2>11. main' \in {"goodbye", "delete"} => \A b \in Buddy : shown'[b] = "on" => b \in raced'
    BY <1>a, <2>1
  <2>12. Answered' \intersect About(reader.packet)' \subseteq raced'
    BY <1>a, <2>1, <2>3, <2>4
  <2>. HIDE DEF p
  <2>. QED BY <2>1, <2>8, <2>9, <2>10, <2>11, <2>12 DEF Hidden
<1>3. CASE UserListener
  <2> DEFINE p == reader.packet
  <2>1. /\ UNCHANGED <<entries, tag, main>> /\ reader.at = "user" /\ p.kind # "otherlogin"
        /\ reader' = Recv
        /\ \/ Handle(p) /\ raced' = raced
           \/ UNCHANGED <<inroster, shown>> /\ raced' = raced \union About(p)
    BY <1>3 DEF UserListener, Recv
  <2>2. p \in Handed /\ p # OtherLoginPacket
    BY <1>0, <2>1, ReaderFacts, PacketKinds
  <2>3. About(reader.packet)' = {} /\ \A b \in Buddy : ~Leaving(b)'
    BY <1>c, <2>1
  <2>4. Has(entries)' = Has(entries) /\ On(entries)' = On(entries) /\ Answered' = Answered
    BY <2>1 DEF Has, On, Answered
  <2>5. \A b \in Buddy : Leaving(b) => p = Removed(b, b) /\ b \in About(p)
    BY PacketsAreAbout DEF Leaving
  <2>6. CASE UNCHANGED <<inroster, shown>> /\ raced' = raced \union About(p)
    <3>1. \A b \in Buddy : InRoster(b)' <=> InRoster(b)
      BY <2>6 DEF InRoster
    <3>. HIDE DEF p
    <3>2. \A b \in Buddy : shown'[b] = "on" => Excused(b)'
      BY <1>a, <2>4, <2>5, <2>6, <3>1 DEF Excused
    <3>3. Ready'
      BY <1>0, <1>a, <2>1, <2>4, <2>6, <3>1, ReadyKept
    <3>4. main' \in {"goodbye", "delete"} => \A b \in Buddy : shown'[b] = "on" => b \in raced'
      BY <1>a, <2>1, <2>6
    <3>. QED BY <2>3, <3>2, <3>3, <3>4 DEF Hidden
  <2>7. CASE Handle(p) /\ raced' = raced
    <3>1. /\ \A b \in Buddy \ About(p) : InRoster(b)' <=> InRoster(b)
          /\ \A b \in Buddy : shown'[b] = "on" =>
               shown[b] = "on" \/ (InRoster(b) /\ b \in Has(entries) /\ b \in About(p))
          /\ \A b \in Buddy : shown'[b] = "on" => (InRoster(b)' <=> InRoster(b))
      BY <1>0, <2>2, <2>7, HandleFacts
    <3>2. \A b \in Buddy : Leaving(b) => shown'[b] # "on"
      <4>. SUFFICES ASSUME NEW b \in Buddy, p = Removed(b, b) PROVE shown'[b] # "on"
        BY <2>5
      <4>1. Handle(Removed(b, b))
        BY <2>7
      <4>2. shown'[b] = "none"
        BY <1>0, <4>1, HandleRemoved
      <4>. QED BY <4>2
    <3>5. main' \in {"goodbye", "delete"} => \A b \in Buddy : shown'[b] = "on" => b \in raced'
      <4>1. main # "delete"
        BY <1>0, <2>1 DEF Control
      <4>2. main = "goodbye" => About(p) \subseteq raced
        BY <1>a DEF p
      <4>. QED BY <1>a, <2>1, <2>7, <3>1, <4>1, <4>2
    <3>6. Answered \ raced' \subseteq Buddy \ About(p)
      BY <1>0, <1>a, <2>7
    <3>. HIDE DEF p
    <3>3. \A b \in Buddy : shown'[b] = "on" => Excused(b)'
      BY <1>a, <2>4, <2>7, <3>1, <3>2 DEF Excused
    <3>4. Ready'
      BY <1>0, <1>a, <2>1, <2>4, <2>7, <3>1, <3>6, ReadyKept
    <3>. QED BY <2>3, <3>3, <3>4, <3>5 DEF Hidden
  <2>. HIDE DEF p
  <2>. QED BY <2>1, <2>6, <2>7
<1>4. CASE Ignored
  <2>1. UNCHANGED <<entries, inroster, raced, tag, main, shown>> /\ reader' = Recv
        /\ reader.at = "user" /\ reader.packet.kind = "otherlogin"
    BY <1>4 DEF Ignored, jabber
  <2>2. \A b \in Buddy : ~Leaving(b)
    BY <2>1, PacketKinds DEF Leaving
  <2>. QED BY <1>d, <2>1, <2>2
<1>5. CASE ReaderEnds
  <2>1. UNCHANGED <<entries, inroster, raced, tag, main, shown>> /\ reader' = Idle /\ reader.at = "recv"
    BY <1>5 DEF ReaderEnds, jabber
  <2>2. \A b \in Buddy : ~Leaving(b)
    BY <2>1 DEF Leaving
  <2>. QED BY <1>d, <2>1, <2>2
<1>6. CASE Deleted
  <2>1. /\ UNCHANGED <<inroster, tag, main>> /\ reader' = Idle /\ shown' = Unavailable(Reached)
        /\ raced' = raced \union Answered \union About(reader.packet)
    BY <1>6, DeletedFacts
  <2>2. ASSUME NEW b \in Buddy, shown'[b] = "on"
        PROVE  shown[b] = "on" /\ b \in raced'
    <3>1. shown[b] = "on" /\ b \notin Reached
      BY <1>0, <2>1, <2>2, UnavailableFacts
    <3>2. b \in raced \/ Leaving(b)
      BY <1>0, <1>a, <3>1, UnavailableFacts DEF Excused
    <3>3. Leaving(b) => b \in About(reader.packet)
      BY PacketsAreAbout DEF Leaving
    <3>. QED BY <2>1, <3>1, <3>2, <3>3
  <2>3. \A b \in Buddy : shown'[b] = "on" => Excused(b)'
    BY <2>2 DEF Excused
  <2>4. Answered' = Answered
    BY <2>1 DEF Answered
  <2>5. Ready'
    BY <1>0, <1>a, <2>1, ReadyKept
  <2>. QED BY <1>c, <2>1, <2>2, <2>3, <2>4, <2>5 DEF Hidden
<1>. QED BY <1>1, <1>2, <1>3, <1>4, <1>5, <1>6

\* A step of a stray.
LEMMA HiddenStrays ==
  ASSUME Fits, Hidden, ~fault', NEW s \in strays, StrayListListener(s) \/ StrayUserListener(s)
  PROVE  Hidden'
<1>0. /\ PacketsFit /\ JabberFits /\ entries \in Seq(Rows) /\ s \in Holding /\ Answered \subseteq Buddy
      /\ \A b \in Buddy : shown[b] = "on" => Excused(b)
      /\ main \in {"goodbye", "delete"} => \A b \in Buddy : shown[b] = "on" => b \in raced
      /\ main = "goodbye" => About(reader.packet) \subseteq raced
      /\ Answered \intersect About(reader.packet) \subseteq raced
      /\ Ready
  BY DEF Fits, RowsFit, PacketsFit, Hidden, Answered, JabberFits
<1>1. CASE StrayListListener(s)
  <2>1. UNCHANGED <<reader, inroster, shown, tag, main, raced>> /\ (entries' = entries \/ main = "delete")
    BY <1>1 DEF StrayListListener, jabber
  <2>2. CASE entries' = entries
    BY <1>0, <2>1, <2>2, HiddenFrame
  <2>3. CASE main = "delete"
    <3>1. \A b \in Buddy : shown'[b] = "on" => b \in raced'
      BY <1>0, <2>1, <2>3
    <3>2. \A b \in Buddy : shown'[b] = "on" => Excused(b)'
      BY <3>1 DEF Excused
    <3>3. Answered' = {} /\ Ready'
      BY <2>1, <2>3 DEF Answered, Ready
    <3>. QED BY <2>1, <2>3, <3>1, <3>2, <3>3 DEF Hidden
  <2>. QED BY <2>1, <2>2, <2>3
<1>2. CASE StrayUserListener(s)
  <2> DEFINE p == s.packet
  <2>1. /\ UNCHANGED <<entries, reader, tag, main>> /\ s.at = "user" /\ p.kind # "otherlogin"
        /\ Handle(p) /\ raced' = raced \union About(p)
    BY <1>2 DEF StrayUserListener
  <2>2. p \in Handed /\ p # OtherLoginPacket
    BY <1>0, <2>1, HoldingFacts, PacketKinds
  <2>3. /\ \A b \in Buddy \ About(p) : shown'[b] = shown[b] /\ (InRoster(b)' <=> InRoster(b))
    BY <1>0, <2>1, <2>2, HandleFacts
  <2>4. /\ Has(entries)' = Has(entries) /\ On(entries)' = On(entries) /\ Answered' = Answered
        /\ About(reader.packet)' = About(reader.packet)
        /\ \A b \in Buddy : Leaving(b)' <=> Leaving(b)
    BY <2>1 DEF Has, On, About, Leaving, Answered
  <2>. HIDE DEF p
  <2>5. \A b \in Buddy : shown'[b] = "on" => Excused(b)'
    <3>. SUFFICES ASSUME NEW b \in Buddy, shown'[b] = "on" PROVE Excused(b)'
      OBVIOUS
    <3>1. CASE b \in About(p)
      BY <2>1, <3>1 DEF Excused
    <3>2. CASE b \notin About(p)
      BY <1>0, <2>1, <2>3, <2>4, <3>2 DEF Excused
    <3>. QED BY <3>1, <3>2
  <2>6. main' \in {"goodbye", "delete"} => \A b \in Buddy : shown'[b] = "on" => b \in raced'
    <3>. SUFFICES ASSUME main \in {"goodbye", "delete"}, NEW b \in Buddy, shown'[b] = "on"
                  PROVE  b \in raced'
      BY <2>1
    <3>1. CASE b \in About(p)
      BY <2>1, <3>1
    <3>2. CASE b \notin About(p)
      BY <1>0, <2>1, <2>3, <3>2
    <3>. QED BY <3>1, <3>2
  <2>7. Ready'
    BY <1>0, <2>1, <2>3, <2>4, ReadyKept
  <2>8. main' = "goodbye" => About(reader.packet)' \subseteq raced'
    BY <1>0, <2>1, <2>4
  <2>9. Answered' \intersect About(reader.packet)' \subseteq raced'
    BY <1>0, <2>1, <2>4
  <2>. QED BY <2>5, <2>6, <2>7, <2>8, <2>9 DEF Hidden
<1>. QED BY <1>1, <1>2

LEMMA HiddenStep ==
  ASSUME Fits, Pipeline, Hidden, ~fault', UNCHANGED vars \/ Steps
  PROVE  Hidden'
<1>0. JabberFits /\ Control
  BY DEF Fits
<1>1. ASSUME Aside
      PROVE  Hidden'
  <2>1. UNCHANGED <<entries, reader, inroster, shown, tag, raced, main>>
    BY <1>1, AsideSteps
  <2>. QED BY <1>0, <2>1, HiddenFrame
<1>2. ASSUME Serves
      PROVE  Hidden'
  <2>1. /\ UNCHANGED <<entries, reader, inroster, shown, tag, raced>>
        /\ main' \notin {"goodbye", "delete", "insert", "accept", "tag"}
    BY <1>2, MainSteps
  <2>. QED BY <1>0, <2>1, HiddenFrame
<1>3. ASSUME Sends
      PROVE  Hidden'
  <2>1. UNCHANGED <<entries, reader, inroster, shown, tag, raced, main>>
    BY <1>3, ServerSends DEF Fits
  <2>. QED BY <1>0, <2>1, HiddenFrame
<1>. QED BY <1>0, <1>1, <1>2, <1>3, HiddenMain, HiddenReader, HiddenStrays, OtherLogins
        DEF Steps, Aside, Serves

-----------------------------------------------------------------------------
(* Who is on his way out *)

LEMMA GoingSame ==
  ASSUME UNCHANGED <<reader, wire>>
  PROVE  \A b : Going(b)' <=> Going(b)
BY DEF Going, Pending, PendingOf

LEMMA GoingGrows ==
  ASSUME PacketsFit, NEW p \in Sendable, wire' = Append(wire, p), reader' = reader
  PROVE  /\ \A b : Going(b) => Going(b)'
         /\ \A b : p = Removed(b, Unnamed) => Going(b)'
<1> DEFINE L == Len(Pending)
           M == Len(Pending)'
<1>1. /\ L \in Nat /\ M = L + 1
      /\ \A n \in 1..L : Pending'[n] = Pending[n]
      /\ Pending'[L + 1] = p
  BY PendingFacts, PendingGrows
<1>2. \A b : Going(b) <=> \E n \in 1..L : Pending[n] = Removed(b, Unnamed)
  BY DEF Going
<1>3. \A b : Going(b)' <=> \E n \in 1..M : Pending'[n] = Removed(b, Unnamed)
  BY DEF Going, Removed
<1>. HIDE DEF L, M, Going, Pending
<1>4. L + 1 \in 1..M /\ \A n \in 1..L : n \in 1..M
  BY <1>1
<1>. QED BY <1>1, <1>2, <1>3, <1>4

LEMMA GoingTaken ==
  ASSUME PacketsFit, Take
  PROVE  \A b : Going(b) => Going(b)'
<1> DEFINE L == Len(Pending)
<1>1. wire \in Seq(Sendable) /\ wire # <<>> /\ reader.at = "recv"
      /\ reader' = [at |-> "list", packet |-> Head(wire)] /\ wire' = Tail(wire)
  BY DEF Take, PacketsFit
<1>2. Pending = wire /\ Pending' = <<Head(wire)>> \o Tail(wire)
  BY <1>1 DEF Pending, PendingOf
<1>3. wire = <<Head(wire)>> \o Tail(wire)
  BY <1>1
<1>4. Pending' = Pending
  BY <1>2, <1>3
<1>. QED BY <1>4 DEF Going, Removed

\* The read thread goes on, or stops, without a packet of the buddy list's.
LEMMA GoingLet ==
  ASSUME reader.at # "list", reader'.at # "list", wire' = wire
  PROVE  \A b : Going(b)' <=> Going(b)
<1>1. Pending = wire /\ Pending' = wire
  BY DEF Pending, PendingOf
<1>. QED BY <1>1 DEF Going, Removed

LEMMA GoingListed ==
  ASSUME PacketsFit, ListListener, NEW b, Going(b), reader.packet # Removed(b, Unnamed)
  PROVE  Going(b)'
<1> DEFINE L == Len(wire)
<1>1. /\ reader.at = "list" /\ reader'.at = "user" /\ wire' = wire
  BY DEF ListListener, server
<1>2. /\ L \in Nat /\ Len(Pending) = L + 1 /\ Pending[1] = reader.packet
      /\ \A n \in 1..L : Pending[n + 1] = wire[n]
  BY <1>1, PendingFacts
<1>3. Pending' = wire
  BY <1>1 DEF Pending, PendingOf
<1>4. PICK n \in 1..Len(Pending) : Pending[n] = Removed(b, Unnamed)
  BY DEF Going
<1>. HIDE DEF L, Pending
<1>5. n # 1
  BY <1>2, <1>4
<1>6. n - 1 \in 1..L /\ n = (n - 1) + 1
  BY <1>2, <1>4, <1>5
<1>7. wire[n - 1] = Removed(b, Unnamed)
  BY <1>2, <1>4, <1>6
<1>8. \E m \in 1..Len(Pending') : Pending'[m] = Removed(b, Unnamed)
  BY <1>3, <1>6, <1>7 DEF L
<1>. QED BY <1>8 DEF Going, Removed

\* A friend whose end the server knows of, and the buddy list does not.
LEMMA GoingFriend ==
  ASSUME Fits, Pipeline, socket = "open", NEW b \in Has(entries), b \notin friends
  PROVE  Going(b)
<1> DEFINE V == View(entries)
           S == Server
<1>1. Path(V, Pending, S) /\ b \in V.has /\ b \notin S.has
  BY ViewType, ServerIs DEF Pipeline
<1>2. Len(Pending) \in Nat
  BY PendingFacts DEF Fits
<1>. HIDE DEF V, S, Pending
<1>3. \E n \in 1..Len(Pending) : Pending[n] = Removed(b, Unnamed)
  BY <1>1, <1>2, PathWithout
<1>. QED BY <1>3 DEF Going

-----------------------------------------------------------------------------
(* Who has been offered to the Jabber user *)

LEMMA AccountedSame ==
  ASSUME UNCHANGED <<inroster, asked, reader, wire>>, raced \subseteq raced'
  PROVE  \A b : Accounted(b) => Accounted(b)'
<1>1. \A b : Going(b)' <=> Going(b)
  BY GoingSame
<1>2. \A b : InRoster(b)' <=> InRoster(b)
  BY RosterSame
<1>. HIDE DEF Going, InRoster
<1>. QED BY <1>1, <1>2 DEF Accounted

\* A name is new in the buddy list: the packet was a list of names.
LEMMA TellsNew ==
  ASSUME NEW V \in Views, NEW p, NEW W, Tells(V, p, W), NEW b \in W.has, b \notin V.has
  PROVE  p.kind = "names"
<1>1. \A h, o : W = [has |-> h, on |-> o] => W.has = h
  OBVIOUS
<1>2. W # V
  OBVIOUS
<1>3. ~ \E c \in V.has : p = Removed(c, Unnamed) /\ W = [has |-> V.has \ {c}, on |-> V.on \ {c}]
  BY <1>1
<1>4. ~ \E c \in V.has : p = Online(c, NoSid) /\ W = [has |-> V.has, on |-> V.on \ {c}]
  BY <1>1
<1>5. ~ \E c \in V.has : p = Online(c, UserId[c]) /\ W = [has |-> V.has, on |-> V.on \union {c}]
  BY <1>1
<1>6. \E t \in Seq(Buddy) : p = NamesOf(t)
  BY ONLY Tells(V, p, W), <1>2, <1>3, <1>4, <1>5 DEF Tells
<1>. QED BY <1>6, PacketKinds

\* A step of the Jabber thread.
LEMMA OfferedMain ==
  ASSUME Fits, Pipeline, Offered,
         \/ \E P : NewClient(P) \/ Goodbye(P)
         \/ Disconnect \/ DeleteClient \/ Insert \/ SendTag
         \/ \E b \in Buddy : Subscribed(b) \/ Unsubscribe(b)
  PROVE  Offered'
<1>0. /\ PacketsFit /\ ServerFits /\ JabberFits /\ Control /\ entries \in Seq(Rows)
      /\ Has(entries) \subseteq Buddy
      /\ "attach" \notin race /\ socket = "open" => \A b \in Has(entries) : Accounted(b)
  BY DEF Fits, RowsFit, Offered, Has
<1>1. ASSUME NEW P, NewClient(P)
      PROVE  Offered'
  <2>1. entries' = <<>>
    BY <1>0, <1>1 DEF NewClient, Control
  <2>2. Has(entries') = {}
    BY <2>1 DEF Has
  <2>. QED BY <2>2 DEF Offered
<1>2. ASSUME NEW P, Goodbye(P)
      PROVE  Offered'
  <2>1. UNCHANGED <<entries, inroster, asked, reader, wire, socket>> /\ race \subseteq race'
    BY <1>2 DEF Goodbye, Met, server
  <2>2. /\ \A b : InRoster(b)' <=> InRoster(b)
        /\ \A b : Going(b)' <=> Going(b)
    BY <2>1, RosterSame, GoingSame
  <2>3. \A b \in Buddy : b \in raced => b \in raced' \/ InRoster(b)
    <3>1. PICK told \in SUBSET Reached :
            raced' = (raced \ told) \union (Reached \ told) \union About(reader.packet)
      BY <1>2 DEF Goodbye
    <3>2. \A b \in told : InRoster(b)
      BY <3>1 DEF Reached
    <3>. QED BY <3>1, <3>2
  <2>. HIDE DEF InRoster, Going
  <2>4. \A b \in Buddy : Accounted(b) => Accounted(b)'
    BY <2>1, <2>2, <2>3 DEF Accounted
  <2>. HIDE DEF Accounted
  <2>. QED BY <1>0, <2>1, <2>4 DEF Offered
<1>3. CASE Disconnect \/ DeleteClient
  <2>1. socket' # "open"
    BY <1>3 DEF Disconnect, DeleteClient
  <2>. QED BY <2>1 DEF Offered
<1>4. CASE SendTag
  <2>1. UNCHANGED <<entries, inroster, asked, reader, wire, race, socket, raced>>
    BY <1>4 DEF SendTag, server
  <2>2. \A b : Accounted(b) => Accounted(b)'
    BY <2>1, AccountedSame
  <2>. HIDE DEF Accounted
  <2>. QED BY <1>0, <2>1, <2>2 DEF Offered
<1>5. ASSUME NEW b \in Buddy, Subscribed(b)
      PROVE  Offered'
  <2>1. /\ UNCHANGED <<entries, inroster, asked, reader, wire, socket>> /\ race \subseteq race'
        /\ raced \subseteq raced'
    BY <1>5 DEF Subscribed, Met, jabber, server
  <2>2. \A c : Accounted(c) => Accounted(c)'
    BY <2>1, AccountedSame
  <2>. HIDE DEF Accounted
  <2>. QED BY <1>0, <2>1, <2>2 DEF Offered
<1>7. CASE Insert
  <2>1. UNCHANGED <<entries, reader, wire, socket, raced>> /\ race \subseteq race'
    BY <1>7 DEF Insert, Met, server
  <2>2. \A c : (InRoster(c) \/ c = tag.to => InRoster(c)') /\ (c # tag.to => (c \in asked' <=> c \in asked))
    BY <1>0, <1>7, InsertFacts
  <2>3. \A c : Going(c)' <=> Going(c)
    BY <2>1, GoingSame
  <2>. HIDE DEF InRoster, Going
  <2>4. \A c \in Buddy : Accounted(c) => Accounted(c)'
    BY <2>1, <2>2, <2>3 DEF Accounted
  <2>. HIDE DEF Accounted
  <2>. QED BY <1>0, <2>1, <2>4 DEF Offered
<1>6. ASSUME NEW b \in Buddy, Unsubscribe(b)
      PROVE  Offered'
  <2>1. /\ UNCHANGED <<entries, reader, inroster, raced, socket>> /\ asked' = asked \ {b}
        /\ race \subseteq race'
    BY <1>6 DEF Unsubscribe, Met
  <2>2. \A c : InRoster(c)' <=> InRoster(c)
    BY <2>1, RosterSame
  <2>3. HasEntry(b) <=> b \in Has(entries)
    BY <1>0, EntryFacts
  <2>4. CASE HasEntry(b) /\ b \in friends /\ socket = "open"
    <3>1. wire' = Append(wire, Removed(b, Unnamed)) /\ Removed(b, Unnamed) \in Sendable
      BY <1>0, <1>6, <2>4, FriendshipEnds DEF Unsubscribe
    <3>2. Going(b)' /\ \A c : Going(c) => Going(c)'
      BY <1>0, <2>1, <3>1, GoingGrows
    <3>. HIDE DEF InRoster, Going, HasEntry
    <3>3. \A c \in Buddy : Accounted(c) => Accounted(c)'
      BY <2>1, <2>2, <3>2 DEF Accounted
    <3>. QED BY <1>0, <2>1, <3>3 DEF Offered
  <2>5. CASE ~(HasEntry(b) /\ b \in friends /\ socket = "open")
    <3>1. wire' = wire
      BY <1>6, <2>5 DEF Unsubscribe, server
    <3>2. \A c : Going(c)' <=> Going(c)
      BY <2>1, <3>1, GoingSame
    <3>3. b \in Has(entries) /\ socket = "open" => Going(b)
      BY <2>3, <2>5, GoingFriend
    <3>. HIDE DEF InRoster, Going, HasEntry
    <3>4. \A c \in Has(entries) : Accounted(c) /\ socket = "open" => Accounted(c)'
      BY <1>0, <2>1, <2>2, <3>2, <3>3 DEF Accounted
    <3>. QED BY <1>0, <2>1, <3>4 DEF Offered
  <2>. QED BY <2>4, <2>5
<1>. QED BY <1>1, <1>2, <1>3, <1>4, <1>5, <1>6, <1>7

\* The buddy list's turn with a packet.
LEMMA OfferedList ==
  ASSUME Fits, Pipeline, Offered, ListListener, ~fault'
  PROVE  Offered'
<1> DEFINE p == reader.packet
           V == View(entries)
           W == View(entries')
<1>1. /\ UNCHANGED <<inroster, asked, raced, race, socket>> /\ reader.at = "list"
      /\ reader' = [at |-> "user", packet |-> Named(p)]
  BY ListStep DEF ListListener, jabber
<1>2. /\ V \in Views /\ V.has = Has(entries) /\ W.has = Has(entries') /\ Tells(V, p, W)
      /\ Has(entries') \subseteq Buddy
  BY ViewType, ListStep DEF Has
<1>3. p \in Sendable /\ entries \in Seq(Rows) /\ PacketsFit
  BY <1>1, ReaderFacts DEF Fits, RowsFit
<1>. HIDE DEF V, W, p
<1>. SUFFICES ASSUME "attach" \notin race', socket' = "open", NEW b \in Has(entries')
              PROVE  Accounted(b)'
  BY DEF Offered
<1>4. CASE b \notin Has(entries)
  <2>1. p.kind = "names"
    BY ONLY <1>2, <1>4, b \in Has(entries'), TellsNew
  <2>2. Named(p).kind = "names"
    BY <1>2, <1>3, <2>1, NamedBack
  <2>3. reader'.at = "user" /\ reader'.packet.kind = "names"
    BY <1>1, <2>2
  <2>. QED BY <2>3 DEF Accounted
<1>5. CASE b \in Has(entries)
  <2>1. Accounted(b)
    BY <1>1, <1>5 DEF Offered
  <2>2. p # Removed(b, Unnamed)
    BY <1>2, TellsWhat
  <2>3. Going(b) => Going(b)'
    BY <1>3, <2>2, GoingListed DEF p
  <2>4. InRoster(b)' <=> InRoster(b)
    BY <1>1, RosterSame
  <2>. HIDE DEF InRoster, Going
  <2>. QED BY <1>1, <2>1, <2>3, <2>4 DEF Accounted
<1>. QED BY <1>4, <1>5

\* What the User does of a packet keeps the buddies of the list.
LEMMA HandleKeeps ==
  ASSUME Fits, Pipeline, reader.at = "user", reader.packet.kind # "otherlogin",
         Handle(reader.packet), NEW b \in Has(entries)
  PROVE  /\ InRoster(b)' <=> InRoster(b)
         /\ b \in asked => b \in asked'
         /\ reader.packet.kind = "names" => InRoster(b)' \/ b \in asked'
<1> DEFINE p == reader.packet
<1>0. /\ p \in Handed /\ p # OtherLoginPacket /\ entries \in Seq(Rows) /\ JabberFits
      /\ b \in Buddy
  BY ReaderFacts, PacketKinds DEF Fits, RowsFit, Has
<1>1. ASSUME NEW t \in Seq(Buddy), p = NamesOf(t)
      PROVE  inroster' = inroster /\ asked \subseteq asked' /\ (InRoster(b) \/ b \in asked')
  BY <1>0, <1>1, HandleNames
<1>2. ASSUME NEW c \in Buddy, NEW s, p = Online(c, s)
      PROVE  inroster' = inroster /\ asked' = asked /\ p.kind # "names"
  <2>1. p.kind = "online"
    BY <1>2, PacketKinds
  <2>2. Handle(Online(c, s)) /\ shown \in [Buddy -> {"none", "on", "off"}]
    BY <1>0, <1>2 DEF JabberFits
  <2>3. inroster' = inroster /\ asked' = asked
    BY <1>0, <2>2, HandleOnline
  <2>. QED BY <2>1, <2>3
<1>3. ASSUME NEW c \in Buddy, p = Message(c)
      PROVE  inroster' = inroster /\ asked' = asked /\ p.kind # "names"
  <2>1. p.kind = "message"
    BY <1>3, PacketKinds
  <2>2. Handle(Message(c))
    BY <1>3
  <2>3. inroster' = inroster /\ asked' = asked
    BY <1>0, <2>2, HandleMessage
  <2>. QED BY <2>1, <2>3
<1>4. ASSUME NEW c \in Buddy, NEW n, n = Unnamed \/ n = c, p = Removed(c, n)
      PROVE  (InRoster(b)' <=> InRoster(b)) /\ (b \in asked' <=> b \in asked) /\ p.kind # "names"
  <2>1. p.kind = "removed"
    BY <1>4, PacketKinds
  <2>2. Handle(Removed(c, n))
    BY <1>4
  <2>3. b # n
    <3>1. Unnamed \notin Buddy
      BY GatewayUserAssumption DEF Unnamed
    <3>2. n = c => c \notin Has(entries)
      BY <1>4 DEF Pipeline
    <3>. QED BY <1>0, <1>4, <3>1, <3>2
  <2>4. (InRoster(b)' <=> InRoster(b)) /\ (b \in asked' <=> b \in asked)
    BY <1>0, <2>2, <2>3, HandleRemoved
  <2>. QED BY <2>1, <2>4
<1>8. ASSUME NEW c \in Buddy, p = Games(c)
      PROVE  inroster' = inroster /\ asked' = asked /\ p.kind # "names"
  <2>1. p.kind = "games"
    BY <1>8, PacketKinds
  <2>2. Handle(Games(c)) /\ shown \in [Buddy -> {"none", "on", "off"}]
    BY <1>0, <1>8 DEF JabberFits
  <2>3. inroster' = inroster /\ asked' = asked
    BY <1>0, <2>2, HandleGames
  <2>. QED BY <2>1, <2>3
<1>5. \/ \E c \in Buddy : p = Removed(c, Unnamed)
      \/ \E c \in Buddy : p = Removed(c, c)
      \/ \E c \in Buddy : p = Message(c)
      \/ \E c \in Buddy : \E s : p = Online(c, s)
      \/ \E c \in Buddy : p = Games(c)
      \/ \E t \in Seq(Buddy) : p = NamesOf(t)
  BY <1>0, HandedCases
<1>6. inroster' = inroster => (InRoster(b)' <=> InRoster(b))
  BY RosterSame
<1>. HIDE DEF p, InRoster
<1>7. (InRoster(b)' <=> InRoster(b)) /\ (b \in asked => b \in asked')
      /\ (p.kind = "names" => InRoster(b)' \/ b \in asked')
  BY ONLY <1>1, <1>2, <1>3, <1>4, <1>5, <1>6, <1>8
<1>. QED BY <1>7 DEF p

\* A step of the read thread.
LEMMA OfferedReader ==
  ASSUME Fits, Pipeline, Offered, Take \/ UserListener \/ Deleted \/ Ignored \/ ReaderEnds
  PROVE  Offered'
<1>0. /\ PacketsFit /\ Has(entries) \subseteq Buddy
      /\ "attach" \notin race /\ socket = "open" => \A b \in Has(entries) : Accounted(b)
  BY DEF Fits, Offered, Has
<1>1. CASE Take
  <2>1. /\ UNCHANGED <<entries, inroster, asked, race, socket>> /\ reader.at = "recv"
        /\ raced \subseteq raced'
    BY <1>1 DEF Take, jabber
  <2>2. /\ \A b : InRoster(b)' <=> InRoster(b)
        /\ \A b : Going(b) => Going(b)'
    BY <1>0, <1>1, <2>1, RosterSame, GoingTaken
  <2>. HIDE DEF InRoster, Going
  <2>3. \A b : Accounted(b) => Accounted(b)'
    BY <2>1, <2>2 DEF Accounted
  <2>. HIDE DEF Accounted
  <2>. QED BY <1>0, <2>1, <2>3 DEF Offered
<1>2. CASE UserListener
  <2>1. /\ UNCHANGED <<entries, socket, wire>> /\ reader.at = "user"
        /\ reader.packet.kind # "otherlogin" /\ reader' = Recv
        /\ \/ Handle(reader.packet) /\ raced' = raced /\ race' = race
           \/ "attach" \in race'
    BY <1>2 DEF UserListener, Recv, server
  <2>2. CASE "attach" \in race'
    BY <2>2 DEF Offered
  <2>3. CASE Handle(reader.packet) /\ raced' = raced /\ race' = race
    <3>1. \A b \in Has(entries) :
            /\ InRoster(b)' <=> InRoster(b)
            /\ b \in asked => b \in asked'
            /\ reader.packet.kind = "names" => InRoster(b)' \/ b \in asked'
      BY <2>1, <2>3, HandleKeeps
    <3>2. \A b : Going(b)' <=> Going(b)
      BY <2>1, GoingLet, HoldingFacts
    <3>. HIDE DEF InRoster, Going
    <3>3. \A b \in Has(entries) : Accounted(b) => Accounted(b)'
      BY <2>3, <3>1, <3>2 DEF Accounted
    <3>. QED BY <1>0, <2>1, <2>3, <3>3 DEF Offered
  <2>. QED BY <2>1, <2>2, <2>3
<1>3. CASE Deleted
  <2>1. socket' # "open"
    BY <1>3, DeletedFacts
  <2>. QED BY <2>1 DEF Offered
<1>5. CASE Ignored
  <2>1. /\ reader.at = "user" /\ reader.packet.kind = "otherlogin" /\ reader' = Recv
        /\ UNCHANGED <<entries, inroster, asked, raced, race, socket, wire>>
    BY <1>5 DEF Ignored, jabber, server
  <2>2. /\ \A b : InRoster(b)' <=> InRoster(b)
        /\ \A b : Going(b)' <=> Going(b)
    BY <2>1, RosterSame, GoingLet, HoldingFacts
  <2>. HIDE DEF InRoster, Going
  <2>3. \A b : Accounted(b) => Accounted(b)'
    BY <2>1, <2>2 DEF Accounted
  <2>. HIDE DEF Accounted
  <2>. QED BY <1>0, <2>1, <2>3 DEF Offered
<1>4. CASE ReaderEnds
  <2>1. socket' # "open"
    BY <1>4 DEF ReaderEnds
  <2>. QED BY <2>1 DEF Offered
<1>. QED BY <1>1, <1>2, <1>3, <1>4, <1>5

LEMMA OfferedStep ==
  ASSUME Fits, Pipeline, Offered, ~fault', UNCHANGED vars \/ Steps
  PROVE  Offered'
<1>0. /\ PacketsFit /\ ServerFits /\ JabberFits /\ Control /\ entries \in Seq(Rows)
      /\ Has(entries) \subseteq Buddy
      /\ "attach" \notin race /\ socket = "open" => \A b \in Has(entries) : Accounted(b)
  BY DEF Fits, RowsFit, Offered, Has
<1>a. ASSUME UNCHANGED <<entries, socket>>, race \subseteq race', \A b \in Has(entries) : Accounted(b) => Accounted(b)'
      PROVE  Offered'
  <2>. HIDE DEF Accounted
  <2>. QED BY <1>0, <1>a DEF Offered
<1>1. ASSUME Aside
      PROVE  Offered'
  <2>1. UNCHANGED <<entries, reader, inroster, asked, raced, race, socket, wire>>
    BY <1>1, AsideSteps
  <2>. QED BY <1>a, <2>1, AccountedSame
<1>2. ASSUME Serves
      PROVE  Offered'
  <2>1. UNCHANGED <<entries, reader, inroster, asked, raced, socket, wire>> /\ race \subseteq race'
    BY <1>2, MainSteps
  <2>. QED BY <1>a, <2>1, AccountedSame
<1>3. ASSUME Sends
      PROVE  Offered'
  <2>1. /\ UNCHANGED <<entries, reader, inroster, asked, raced, race, socket>>
        /\ \E p \in Sendable : wire' = Append(wire, p)
    BY <1>0, <1>3, ServerSends
  <2>2. /\ \A b : InRoster(b)' <=> InRoster(b)
        /\ \A b : Going(b) => Going(b)'
    BY <1>0, <2>1, RosterSame, GoingGrows
  <2>. HIDE DEF InRoster, Going
  <2>3. \A b : Accounted(b) => Accounted(b)'
    BY <2>1, <2>2 DEF Accounted
  <2>. QED BY <1>a, <2>1, <2>3
<1>4. ASSUME NEW s \in strays, StrayListListener(s)
      PROVE  Offered'
  <2>1. /\ UNCHANGED <<reader, inroster, asked, raced, socket, wire>>
        /\ ((entries' = entries /\ race' = race) \/ main = "delete")
    BY <1>4 DEF StrayListListener, jabber, server
  <2>2. main = "delete" => socket # "open"
    BY <1>0 DEF Control
  <2>3. CASE main = "delete"
    BY <2>1, <2>2, <2>3 DEF Offered
  <2>4. CASE entries' = entries /\ race' = race
    BY <1>a, <2>1, <2>4, AccountedSame
  <2>. QED BY <2>1, <2>3, <2>4
<1>5. ASSUME NEW s \in strays, StrayUserListener(s)
      PROVE  Offered'
  <2> DEFINE p == s.packet
  <2>1. /\ UNCHANGED <<entries, reader, race, socket, wire>> /\ s.at = "user" /\ p.kind # "otherlogin"
        /\ Handle(p) /\ raced' = raced \union About(p)
    BY <1>5 DEF StrayUserListener, server
  <2>2. p \in Handed /\ p # OtherLoginPacket
    BY <1>0, <2>1, HoldingFacts, PacketKinds DEF PacketsFit
  <2>3. \A b \in Buddy \ About(p) : (InRoster(b)' <=> InRoster(b)) /\ (b \in asked => b \in asked')
    BY <1>0, <2>1, <2>2, HandleFacts
  <2>4. \A b : Going(b)' <=> Going(b)
    BY <2>1, GoingSame
  <2>. HIDE DEF InRoster, Going, p
  <2>5. \A b \in Buddy : Accounted(b) => Accounted(b)'
    BY <2>1, <2>3, <2>4 DEF Accounted
  <2>. QED BY <1>0, <1>a, <2>1, <2>5
<1>. QED BY <1>0, <1>1, <1>2, <1>3, <1>4, <1>5, OfferedMain, OfferedList, OfferedReader, OtherLogins
        DEF Steps, Aside, Serves

-----------------------------------------------------------------------------
(* Jabber has the buddies as the buddy list has them *)

LEMMA ToldSame ==
  ASSUME entries' = entries, reader' = reader \/ reader.at # "user",
         main # "tag" \/ (main' = main /\ tag' = tag)
  PROVE  \A b : (Going(b) => Going(b)') /\ shown'[b] = shown[b] /\ Told(b) => Told(b)'
<1>1. On(entries)' = On(entries)
  BY DEF On
<1>. HIDE DEF Going
<1>. QED BY <1>1 DEF Told

\* A step of the Jabber thread.
LEMMA AgreesMain ==
  ASSUME Fits, Pipeline, Hidden, Agrees,
         \/ \E P : NewClient(P) \/ Goodbye(P)
         \/ Disconnect \/ DeleteClient \/ Insert \/ SendTag
         \/ \E b \in Buddy : Subscribed(b) \/ Unsubscribe(b)
  PROVE  Agrees'
<1>0. /\ PacketsFit /\ ServerFits /\ JabberFits /\ Control /\ entries \in Seq(Rows)
      /\ Has(entries) \subseteq Buddy /\ shown \in [Buddy -> {"none", "on", "off"}]
  BY DEF Fits, RowsFit, JabberFits, Has
<1>a. ASSUME socket = "open", main \notin {"goodbye", "delete"}, NEW b \in Has(entries), InRoster(b),
             b \notin raced
      PROVE  Told(b)
  BY <1>a DEF Agrees
<1>1. ASSUME NEW P, NewClient(P)
      PROVE  Agrees'
  <2>1. entries' = <<>>
    BY <1>0, <1>1 DEF NewClient, Control
  <2>2. Has(entries') = {}
    BY <2>1 DEF Has
  <2>. QED BY <2>2 DEF Agrees
<1>2. CASE Disconnect \/ DeleteClient \/ \E P : Goodbye(P)
  <2>1. socket' # "open" \/ main' = "goodbye"
    BY <1>2 DEF Disconnect, DeleteClient, Goodbye
  <2>. QED BY <2>1 DEF Agrees
<1>3. CASE SendTag
  <2>1. /\ UNCHANGED <<entries, inroster, reader, wire, socket, raced>> /\ main = "tag"
        /\ shown' = [shown EXCEPT ![tag.to] = OnOff(tag.on)]
    BY <1>3 DEF SendTag, server
  <2>2. /\ \A b : InRoster(b)' <=> InRoster(b)
        /\ \A b : Going(b)' <=> Going(b)
        /\ Has(entries)' = Has(entries) /\ On(entries)' = On(entries)
    BY <2>1, RosterSame, GoingSame DEF Has, On
  <2>3. Tagged
    BY <2>1 DEF Hidden, Ready
  <2>. SUFFICES ASSUME socket = "open", NEW b \in Has(entries), InRoster(b), b \notin raced
                PROVE  Told(b)'
    BY <2>1, <2>2 DEF Agrees
  <2>4. Told(b)
    BY <1>a, <2>1
  <2>. HIDE DEF InRoster, Going
  <2>5. CASE b = tag.to
    <3>1. tag.on <=> b \in On(entries)
      BY <2>3, <2>5 DEF Tagged
    <3>2. shown'[b] = OnOff(tag.on) /\ (OnOff(tag.on) = "on" <=> tag.on)
      BY <1>0, <2>1, <2>5 DEF OnOff
    <3>3. shown'[b] = "on" <=> b \in On(entries)
      BY <3>1, <3>2
    <3>. QED BY <2>2, <3>3 DEF Told
  <2>6. CASE b # tag.to
    <3>1. shown'[b] = shown[b]
      BY <1>0, <2>1, <2>6
    <3>. QED BY <2>1, <2>2, <2>4, <2>6, <3>1 DEF Told
  <2>. QED BY <2>5, <2>6
<1>4. ASSUME NEW b \in Buddy, Subscribed(b)
      PROVE  Agrees'
  <2>1. /\ UNCHANGED <<entries, reader, wire, socket, inroster, shown>> /\ raced \subseteq raced'
        /\ main = "idle"
    BY <1>4 DEF Subscribed, jabber, server
  <2>2. /\ \A c : InRoster(c)' <=> InRoster(c)
        /\ \A c : Going(c)' <=> Going(c)
        /\ Has(entries)' = Has(entries)
    BY <2>1, RosterSame, GoingSame DEF Has
  <2>3. \A c : Told(c) => Told(c)'
    BY <2>1, <2>2, ToldSame
  <2>. HIDE DEF InRoster, Told
  <2>. QED BY <1>a, <2>1, <2>2, <2>3 DEF Agrees
<1>6. CASE Insert
  <2> DEFINE b == tag.to
  <2>1. UNCHANGED <<entries, reader, wire, socket, raced>>
    BY <1>6 DEF Insert, server
  <2>2. /\ shown' = shown /\ main \in {"insert", "accept"} /\ main' \in {"idle", "tag"}
        /\ main' = "tag" => tag'.to = b
        /\ \A c : InRoster(c)' <=> InRoster(c) \/ c = b
    BY <1>0, <1>6, InsertFacts
  <2>3. (\A c : Going(c)' <=> Going(c)) /\ Has(entries)' = Has(entries)
    BY <2>1, GoingSame DEF Has
  <2>4. b \in raced \/ (main = "insert" <=> b \in Has(entries))
    BY <2>2 DEF Hidden, Ready, Chosen
  <2>5. main = "insert" => main' = "tag"
    BY <1>6 DEF Insert
  <2>. SUFFICES ASSUME socket = "open", NEW c \in Has(entries), InRoster(c)', c \notin raced
                PROVE  Told(c)'
    BY <2>1, <2>3 DEF Agrees
  <2>. HIDE DEF b
  <2>6. CASE c = b
    <3>1. main' = "tag" /\ tag'.to = c
      BY <2>2, <2>4, <2>5, <2>6
    <3>. QED BY <3>1 DEF Told
  <2>7. CASE c # b
    <3>1. Told(c)
      BY <1>a, <2>1, <2>2, <2>7
    <3>. QED BY <2>1, <2>2, <2>3, <3>1, ToldSame
  <2>. QED BY <2>6, <2>7
<1>5. ASSUME NEW b \in Buddy, Unsubscribe(b)
      PROVE  Agrees'
  <2>1. /\ UNCHANGED <<entries, reader, inroster, raced, socket, main>> /\ main = "idle"
        /\ shown' = [shown EXCEPT ![b] = "none"]
    BY <1>5 DEF Unsubscribe
  <2>2. (\A c : InRoster(c)' <=> InRoster(c)) /\ Has(entries)' = Has(entries)
    BY <2>1, RosterSame DEF Has
  <2>. SUFFICES ASSUME socket = "open", NEW c \in Has(entries), InRoster(c), c \notin raced
                PROVE  Told(c)'
    BY <2>1, <2>2 DEF Agrees
  <2>3. Told(c)
    BY <1>a, <2>1
  <2>4. HasEntry(b) <=> b \in Has(entries)
    BY <1>0, EntryFacts
  <2>5. (c = b => Going(b)') /\ (Going(c) => Going(c)')
    <3>1. CASE HasEntry(b) /\ b \in friends
      <4>1. wire' = Append(wire, Removed(b, Unnamed)) /\ Removed(b, Unnamed) \in Sendable
        BY <1>0, <1>5, <3>1, FriendshipEnds DEF Unsubscribe
      <4>. QED BY <1>0, <2>1, <4>1, GoingGrows
    <3>2. CASE ~(HasEntry(b) /\ b \in friends)
      <4>1. wire' = wire
        BY <1>5, <3>2 DEF Unsubscribe, server
      <4>2. \A d : Going(d)' <=> Going(d)
        BY <2>1, <4>1, GoingSame
      <4>3. c = b => Going(b)
        BY <2>4, <3>2, GoingFriend
      <4>. QED BY <4>2, <4>3
    <3>. QED BY <3>1, <3>2
  <2>6. c # b => shown'[c] = shown[c]
    BY <1>0, <2>1
  <2>7. CASE c = b
    BY <2>5, <2>7 DEF Told
  <2>8. CASE c # b
    BY <2>1, <2>3, <2>5, <2>6, <2>8, ToldSame
  <2>. QED BY <2>7, <2>8
<1>. QED BY <1>1, <1>2, <1>3, <1>4, <1>5, <1>6

\* The buddy list's turn with a packet.
LEMMA AgreesList ==
  ASSUME Fits, Pipeline, Hidden, Agrees, ListListener, ~fault'
  PROVE  Agrees'
<1> DEFINE p == reader.packet
           V == View(entries)
           W == View(entries')
<1>1. /\ UNCHANGED <<inroster, shown, raced, main, tag, socket>> /\ reader.at = "list"
      /\ reader' = [at |-> "user", packet |-> Named(p)]
  BY DEF ListListener, jabber
<1>2. /\ V \in Views /\ V.has = Has(entries) /\ W.has = Has(entries')
      /\ V.on = On(entries) /\ W.on = On(entries') /\ Tells(V, p, W)
      /\ Has(entries') \subseteq Buddy /\ On(entries) \subseteq Has(entries)
  BY ViewType, ListStep DEF Has, On
<1>3. p \in Sendable /\ entries \in Seq(Rows) /\ PacketsFit
  BY <1>1, ReaderFacts DEF Fits, RowsFit
<1>. HIDE DEF V, W, p
<1>. SUFFICES ASSUME socket = "open", main \notin {"goodbye", "delete"}, NEW b \in Has(entries'),
                     InRoster(b), b \notin raced
              PROVE  Told(b)'
  BY <1>1, RosterSame DEF Agrees
<1>4. b \in Has(entries) => Told(b)
  BY DEF Agrees
<1>5. b \in Buddy /\ On(entries)' = On(entries')
  BY <1>2 DEF On
<1>6. ASSUME b \in Has(entries), b \in On(entries) <=> b \in On(entries'), p # Removed(b, Unnamed)
      PROVE  Told(b)'
  <2>1. Told(b)
    BY <1>4, <1>6
  <2>2. Going(b) => Going(b)'
    BY <1>3, <1>6, GoingListed DEF p
  <2>. HIDE DEF Going
  <2>. QED BY <1>1, <1>5, <1>6, <2>1, <2>2 DEF Told
<1>7. CASE b \notin About(p)
  <2>1. (b \in W.has <=> b \in V.has) /\ (b \in W.on <=> b \in V.on)
    BY ONLY <1>2, <1>5, <1>7, TellsAside
  <2>2. p # Removed(b, Unnamed)
    BY <1>5, <1>7, PacketsAreAbout
  <2>. QED BY <1>2, <1>6, <2>1, <2>2
<1>8. CASE b \in About(p)
  <2>1. ASSUME NEW c \in Buddy, NEW n, NEW s,
               p = Removed(c, n) \/ p = Message(c) \/ p = Games(c) \/ p = Online(c, s)
        PROVE  c = b
    BY <1>8, <2>1, PacketsAreAbout
  <2>2. p # OtherLoginPacket
    BY <1>8, PacketsAreAbout
  <2>3. p # Removed(b, Unnamed)
    BY <1>2, <1>5, TellsWhat
  <2>4. CASE p = Message(b)
    <3>1. W = V
      BY <1>2, <1>5, <2>4, TellsWhat
    <3>. QED BY <1>2, <1>6, <2>3, <3>1
  <2>8. CASE p = Games(b)
    <3>1. p.kind = "games"
      BY <2>8, PacketKinds
    <3>2. /\ \A c \in Buddy : p # Removed(c, Unnamed) /\ p # Online(c, NoSid) /\ p # Online(c, UserId[c])
          /\ \A t : p # NamesOf(t)
      BY <3>1, PacketKinds
    <3>3. V.has \subseteq Buddy /\ V.on \subseteq Buddy
      BY <1>2 DEF Views
    <3>4. W = V
      BY ONLY <1>2, <2>2, <3>2, <3>3 DEF Tells
    <3>. QED BY <1>2, <1>6, <2>3, <3>4
  <2>5. ASSUME NEW s \in {NoSid, UserId[b]}, p = Online(b, s)
        PROVE  Told(b)'
    <3>1. p.kind = "online"
      BY <2>5, PacketKinds
    <3>2. Named(p) = p
      BY <1>3, <3>1, NamedFacts
    <3>3. reader'.at = "user" /\ reader'.packet = Online(b, s)
      BY <1>1, <2>5, <3>2
    <3>4. (\E r \in {NoSid, UserId[b]} : reader.packet = Online(b, r))'
      BY <3>3 DEF Online
    <3>. QED BY <3>3, <3>4 DEF Told
  <2>6. CASE \E t \in Seq(Buddy) : p = NamesOf(t)
    <3>1. p.kind = "names"
      BY <2>6, PacketKinds
    <3>2. PICK t \in Seq(Buddy) : p = NamesOf(t) /\ V.has \intersect Listed(t) = {}
                                  /\ W = [has |-> V.has \union Listed(t), on |-> V.on]
      <4>1. /\ p # OtherLoginPacket
            /\ \A c \in Buddy : p # Message(c) /\ p # Games(c) /\ p # Removed(c, Unnamed)
            /\ \A c \in Buddy : p # Online(c, NoSid) /\ p # Online(c, UserId[c])
        BY <3>1, PacketKinds
      <4>2. V.has \subseteq Buddy /\ V.on \subseteq Buddy
        BY <1>2 DEF Views
      <4>. QED BY ONLY <1>2, <4>1, <4>2 DEF Tells
    <3>3. b \in Listed(t)
      BY <1>8, <3>2, AboutNames
    <3>4. b \notin Has(entries) /\ W.on = V.on
      BY <1>2, <3>2, <3>3
    <3>5. shown[b] # "on"
      BY <1>1, <1>5, <3>4 DEF Hidden, Excused, Leaving
    <3>6. b \notin On(entries') /\ shown'[b] # "on"
      BY <1>1, <1>2, <3>4, <3>5
    <3>. QED BY <1>5, <3>6 DEF Told
  <2>7. \/ \E c \in Buddy : p = Removed(c, Unnamed)
        \/ \E c \in Buddy : p = Message(c)
        \/ \E c \in Buddy : p = Games(c)
        \/ \E c \in Buddy : p = Online(c, NoSid)
        \/ \E c \in Buddy : p = Online(c, UserId[c])
        \/ \E t \in Seq(Buddy) : p = NamesOf(t)
    BY <1>3, <2>2, SendableCases
  <2>. HIDE DEF Told
  <2>. QED BY <2>1, <2>3, <2>4, <2>5, <2>6, <2>7, <2>8
<1>. QED BY <1>7, <1>8

\* What the User tells Jabber of a buddy of the list: nothing, unless the
\* packet is about his session, and then what the list says.
LEMMA HandleTells ==
  ASSUME Fits, Pipeline, reader.at = "user", reader.packet.kind # "otherlogin",
         Handle(reader.packet), NEW b \in Has(entries), InRoster(b)
  PROVE  \/ shown'[b] = "on" <=> b \in On(entries)
         \/ /\ shown'[b] = shown[b]
            /\ \A s : reader.packet # Online(b, s)
<1> DEFINE p == reader.packet
<1>0. /\ p \in Handed /\ p # OtherLoginPacket /\ entries \in Seq(Rows) /\ JabberFits
      /\ b \in Buddy /\ Distinct(entries) /\ shown \in [Buddy -> {"none", "on", "off"}]
  BY ReaderFacts, PacketKinds DEF Fits, RowsFit, Has, Control, JabberFits
<1>1. ASSUME NEW t \in Seq(Buddy), p = NamesOf(t)
      PROVE  shown' = shown /\ p.kind = "names"
  BY <1>0, <1>1, HandleNames, PacketKinds
<1>2. ASSUME NEW c \in Buddy, NEW s, p = Online(c, s)
      PROVE  IF c = b THEN shown'[b] = "on" <=> b \in On(entries)
                      ELSE shown'[b] = shown[b] /\ \A r : p # Online(b, r)
  <2>1. Handle(Online(c, s))
    BY <1>2
  <2>2. CASE c = b
    <3>1. shown'[b] = "on" <=> b \in On(entries)
      BY <1>0, <2>1, <2>2, HandleOnline
    <3>. QED BY <2>2, <3>1
  <2>3. CASE c # b
    <3>1. shown'[b] = shown[b]
      BY <1>0, <2>1, <2>3, HandleOnline
    <3>2. About(p) = {c} /\ \A r : About(Online(b, r)) = {b}
      BY <1>0, <1>2, PacketsAreAbout
    <3>. QED BY <2>3, <3>1, <3>2
  <2>. QED BY <2>2, <2>3
<1>3. ASSUME NEW c \in Buddy, p = Message(c)
      PROVE  shown' = shown /\ p.kind = "message"
  <2>1. Handle(Message(c))
    BY <1>3
  <2>. QED BY <1>0, <1>3, <2>1, HandleMessage, PacketKinds
<1>4. ASSUME NEW c \in Buddy, NEW n, n = Unnamed \/ n = c, p = Removed(c, n)
      PROVE  shown'[b] = shown[b] /\ p.kind = "removed"
  <2>1. p.kind = "removed"
    BY <1>4, PacketKinds
  <2>2. Handle(Removed(c, n))
    BY <1>4
  <2>3. b # n
    <3>1. Unnamed \notin Buddy
      BY GatewayUserAssumption DEF Unnamed
    <3>2. n = c => c \notin Has(entries)
      BY <1>4 DEF Pipeline
    <3>. QED BY <1>0, <1>4, <3>1, <3>2
  <2>4. shown'[b] = shown[b]
    BY <1>0, <2>2, <2>3, HandleRemoved
  <2>. QED BY <2>1, <2>4
<1>9. ASSUME NEW c \in Buddy, p = Games(c)
      PROVE  /\ p.kind = "games"
             /\ shown'[b] = shown[b] \/ (shown'[b] = "on" /\ b \in On(entries))
  <2>1. p.kind = "games"
    BY <1>9, PacketKinds
  <2>2. Handle(Games(c))
    BY <1>9
  <2>3. /\ c # b => shown'[b] = shown[b]
        /\ shown'[c] = shown[c] \/ (shown'[c] = "on" /\ c \in On(entries))
    BY <1>0, <2>2, HandleGames
  <2>. QED BY <2>1, <2>3
<1>5. \/ \E c \in Buddy : p = Removed(c, Unnamed)
      \/ \E c \in Buddy : p = Removed(c, c)
      \/ \E c \in Buddy : p = Message(c)
      \/ \E c \in Buddy : \E s : p = Online(c, s)
      \/ \E c \in Buddy : p = Games(c)
      \/ \E t \in Seq(Buddy) : p = NamesOf(t)
  BY <1>0, HandedCases
<1>6. p.kind \in {"names", "message", "removed", "games"} => \A r : p # Online(b, r)
  BY PacketKinds
<1>. HIDE DEF p
<1>7. CASE \E c \in Buddy : \E s : p = Online(c, s)
  BY <1>2, <1>7 DEF p
<1>8. CASE ~ \E c \in Buddy : \E s : p = Online(c, s)
  <2>1. /\ shown'[b] = shown[b] \/ (shown'[b] = "on" /\ b \in On(entries))
        /\ p.kind \in {"names", "message", "removed", "games"}
    BY ONLY <1>1, <1>3, <1>4, <1>5, <1>8, <1>9
  <2>. QED BY <1>6, <2>1 DEF p
<1>. QED BY <1>7, <1>8

\* A step of the read thread.
LEMMA AgreesReader ==
  ASSUME Fits, Pipeline, Agrees, Take \/ UserListener \/ Deleted \/ Ignored \/ ReaderEnds
  PROVE  Agrees'
<1>0. PacketsFit /\ Has(entries) \subseteq Buddy /\ JabberFits
  BY DEF Fits, Has
<1>a. ASSUME socket = "open", main \notin {"goodbye", "delete"}, NEW b \in Has(entries), InRoster(b),
             b \notin raced
      PROVE  Told(b)
  BY <1>a DEF Agrees
<1>1. CASE Take
  <2>1. /\ UNCHANGED <<entries, inroster, shown, tag, main, socket>> /\ reader.at = "recv"
        /\ raced \subseteq raced'
    BY <1>1 DEF Take, jabber
  <2>2. /\ \A b : InRoster(b)' <=> InRoster(b)
        /\ \A b : Going(b) => Going(b)'
        /\ Has(entries)' = Has(entries)
    BY <1>0, <1>1, <2>1, RosterSame, GoingTaken DEF Has
  <2>3. \A b : Told(b) => Told(b)'
    BY <2>1, <2>2, ToldSame
  <2>. HIDE DEF InRoster, Told
  <2>. QED BY <1>a, <2>1, <2>2, <2>3 DEF Agrees
<1>2. CASE UserListener
  <2>1. /\ UNCHANGED <<entries, socket, wire, tag, main>> /\ reader.at = "user"
        /\ reader.packet.kind # "otherlogin" /\ reader' = Recv
        /\ \/ Handle(reader.packet) /\ raced' = raced
           \/ UNCHANGED <<inroster, shown>> /\ raced' = raced \union About(reader.packet)
    BY <1>2 DEF UserListener, Recv, server
  <2>2. /\ \A b : Going(b)' <=> Going(b)
        /\ Has(entries)' = Has(entries) /\ On(entries)' = On(entries)
    BY <2>1, GoingLet, HoldingFacts DEF Has, On
  <2>. SUFFICES ASSUME socket = "open", main \notin {"goodbye", "delete"}, NEW b \in Has(entries),
                       InRoster(b)', b \notin raced'
                PROVE  Told(b)'
    BY <2>1, <2>2 DEF Agrees
  <2>3. CASE UNCHANGED <<inroster, shown>> /\ raced' = raced \union About(reader.packet)
    <3>1. InRoster(b) /\ b \notin raced /\ b \notin About(reader.packet)
      BY <2>3, RosterSame
    <3>2. Told(b)
      BY <1>a, <3>1
    <3>3. \A s : reader.packet # Online(b, s)
      BY <1>0, <3>1, PacketsAreAbout
    <3>. HIDE DEF Going
    <3>. QED BY <2>1, <2>2, <2>3, <3>2, <3>3 DEF Told
  <2>4. CASE Handle(reader.packet) /\ raced' = raced
    <3>1. InRoster(b)
      BY <2>1, <2>4, HandleKeeps
    <3>2. Told(b)
      BY <1>a, <2>4, <3>1
    <3>3. \/ shown'[b] = "on" <=> b \in On(entries)
          \/ shown'[b] = shown[b] /\ \A s : reader.packet # Online(b, s)
      BY <2>1, <2>4, <3>1, HandleTells
    <3>. HIDE DEF Going
    <3>. QED BY <2>1, <2>2, <3>2, <3>3 DEF Told
  <2>. QED BY <2>1, <2>3, <2>4
<1>3. CASE Deleted
  <2>1. socket' # "open"
    BY <1>3, DeletedFacts
  <2>. QED BY <2>1 DEF Agrees
<1>5. CASE Ignored
  <2>1. /\ reader.at = "user" /\ reader.packet.kind = "otherlogin" /\ reader' = Recv
        /\ UNCHANGED <<entries, inroster, shown, raced, socket, wire, tag, main>>
    BY <1>5 DEF Ignored, jabber, server
  <2>2. /\ \A b : InRoster(b)' <=> InRoster(b)
        /\ \A b : Going(b)' <=> Going(b)
        /\ Has(entries)' = Has(entries) /\ On(entries)' = On(entries)
    BY <2>1, RosterSame, GoingLet, HoldingFacts DEF Has, On
  <2>3. \A b, s : reader.packet # Online(b, s)
    BY <2>1, PacketKinds
  <2>. HIDE DEF InRoster, Going
  <2>4. \A b : Told(b) => Told(b)'
    BY <2>1, <2>2, <2>3 DEF Told
  <2>. HIDE DEF Told
  <2>. QED BY <1>a, <2>1, <2>2, <2>4 DEF Agrees
<1>4. CASE ReaderEnds
  <2>1. socket' # "open"
    BY <1>4 DEF ReaderEnds
  <2>. QED BY <2>1 DEF Agrees
<1>. QED BY <1>1, <1>2, <1>3, <1>4, <1>5

LEMMA AgreesStep ==
  ASSUME Fits, Pipeline, Hidden, Agrees, ~fault', UNCHANGED vars \/ Steps
  PROVE  Agrees'
<1>0. /\ PacketsFit /\ ServerFits /\ JabberFits /\ Control /\ entries \in Seq(Rows)
      /\ Has(entries) \subseteq Buddy
  BY DEF Fits, RowsFit, Has
<1>a. ASSUME UNCHANGED <<entries, socket, reader, shown>>, raced \subseteq raced',
             main # "tag" \/ (main' = main /\ tag' = tag),
             main' \notin {"goodbye", "delete"} => main \notin {"goodbye", "delete"},
             \A b \in Buddy : InRoster(b)' => InRoster(b),
             \A b \in Buddy : Going(b) => Going(b)'
      PROVE  Agrees'
  <2>1. \A b \in Buddy : Told(b) => Told(b)'
    BY <1>a, ToldSame
  <2>2. Has(entries)' = Has(entries)
    BY <1>a DEF Has
  <2>. HIDE DEF InRoster, Told
  <2>. QED BY <1>0, <1>a, <2>1, <2>2 DEF Agrees
<1>1. ASSUME Aside
      PROVE  Agrees'
  <2>1. UNCHANGED <<entries, reader, inroster, shown, raced, socket, wire, main, tag>>
    BY <1>1, AsideSteps
  <2>. QED BY <1>a, <2>1, RosterSame, GoingSame
<1>2. ASSUME Serves
      PROVE  Agrees'
  <2>1. /\ UNCHANGED <<entries, reader, inroster, shown, raced, socket, wire>>
        /\ main \notin {"goodbye", "delete", "tag"}
    BY <1>2, MainSteps
  <2>. QED BY <1>a, <2>1, RosterSame, GoingSame
<1>3. ASSUME Sends
      PROVE  Agrees'
  <2>1. /\ UNCHANGED <<entries, reader, inroster, shown, raced, socket, main, tag>>
        /\ \E p \in Sendable : wire' = Append(wire, p)
    BY <1>0, <1>3, ServerSends
  <2>2. \A b : Going(b) => Going(b)'
    BY <1>0, <2>1, GoingGrows
  <2>. QED BY <1>a, <2>1, <2>2, RosterSame
<1>4. ASSUME NEW s \in strays, StrayListListener(s)
      PROVE  Agrees'
  <2>1. /\ UNCHANGED <<reader, inroster, shown, raced, socket, wire, main, tag>>
        /\ (entries' = entries \/ main = "delete")
    BY <1>4 DEF StrayListListener, jabber, server
  <2>2. CASE main = "delete"
    BY <2>1, <2>2 DEF Agrees
  <2>3. CASE entries' = entries
    BY <1>a, <2>1, <2>3, RosterSame, GoingSame
  <2>. QED BY <2>1, <2>2, <2>3
<1>5. ASSUME NEW s \in strays, StrayUserListener(s)
      PROVE  Agrees'
  <2> DEFINE p == s.packet
  <2>1. /\ UNCHANGED <<entries, reader, socket, wire, main, tag>> /\ s.at = "user"
        /\ p.kind # "otherlogin" /\ Handle(p) /\ raced' = raced \union About(p)
    BY <1>5 DEF StrayUserListener, server
  <2>2. p \in Handed /\ p # OtherLoginPacket
    BY <1>0, <2>1, HoldingFacts, PacketKinds DEF PacketsFit
  <2>3. \A b \in Buddy \ About(p) : (InRoster(b)' <=> InRoster(b)) /\ shown'[b] = shown[b]
    BY <1>0, <2>1, <2>2, HandleFacts
  <2>4. (\A b : Going(b)' <=> Going(b)) /\ Has(entries)' = Has(entries)
    BY <2>1, GoingSame DEF Has
  <2>5. \A b \in Buddy \ About(p) : Told(b) => Told(b)'
    BY <2>1, <2>3, <2>4, ToldSame
  <2>. HIDE DEF InRoster, Told, p
  <2>. QED BY <1>0, <2>1, <2>3, <2>4, <2>5 DEF Agrees
<1>. QED BY <1>0, <1>1, <1>2, <1>3, <1>4, <1>5, AgreesMain, AgreesList, AgreesReader, OtherLogins
        DEF Steps, Aside, Serves

-----------------------------------------------------------------------------
(* The theorems *)

LEMMA InvStarts == Init => IInv
<1>. SUFFICES ASSUME Init PROVE IInv
  OBVIOUS
<1>1. /\ client = "null" /\ socket = "none" /\ entries = <<>> /\ reader = Idle /\ strays = {}
      /\ main = "idle" /\ inroster = <<>> /\ shown = [b \in Buddy |-> "none"] /\ fault = FALSE
      /\ friends \in SUBSET Buddy /\ online = {} /\ wire = <<>> /\ reader.at = "none"
  BY DEF Init, Idle
<1>2. PacketsFit
  BY <1>1, EmptySeq DEF PacketsFit
<1>3. RowsFit
  BY <1>1, EmptySeq DEF RowsFit, Distinct
<1>4. ServerFits
  BY <1>1 DEF ServerFits
<1>5. JabberFits
  BY <1>1, EmptySeq DEF JabberFits
<1>6. Control
  BY InitControl
<1>7. Pipeline /\ Windows /\ Hidden /\ Offered /\ Agrees
  <2>1. Windows
    BY <1>1 DEF Windows, FaultsNeedARace
  <2>2. Answered = {} /\ Ready
    BY <1>1 DEF Answered, Ready
  <2>3. Hidden
    BY <1>1, <2>2 DEF Hidden
  <2>. QED BY <1>1, <2>1, <2>3 DEF Pipeline, Offered, Agrees
<1>. QED BY <1>2, <1>3, <1>4, <1>5, <1>6, <1>7 DEF IInv, Sound, Fits

LEMMA InvStep == IInv /\ [Next]_vars => IInv'
<1>. SUFFICES ASSUME IInv, [Next]_vars PROVE IInv'
  OBVIOUS
<1>1. UNCHANGED vars \/ Steps
  BY NextSteps
<1>2. CASE fault
  <2>1. UNCHANGED vars
    BY <1>1, <1>2, NoFaultYet
  <2>2. Windows' /\ fault'
    BY <1>2, <2>1 DEF IInv, Windows, FaultsNeedARace, vars
  <2>. QED BY <2>2 DEF IInv
<1>3. CASE ~fault
  <2>1. Windows /\ Fits /\ Pipeline /\ Hidden /\ Offered /\ Agrees
    BY <1>3 DEF IInv, Sound
  <2>2. Windows'
    BY <1>1, <2>1, WindowsStep
  <2>3. ASSUME ~fault'
        PROVE  Sound'
    <3>1. Fits'
      BY <1>1, <2>1, <2>3, FitsStep
    <3>2. Pipeline'
      BY <1>1, <2>1, <2>3, PipelineStep
    <3>3. Hidden'
      BY <1>1, <2>1, <2>3, HiddenStep
    <3>4. Offered'
      BY <1>1, <2>1, <2>3, OfferedStep
    <3>5. Agrees'
      BY <1>1, <2>1, <2>3, AgreesStep
    <3>. QED BY <3>1, <3>2, <3>3, <3>4, <3>5 DEF Sound
  <2>. QED BY <2>2, <2>3 DEF IInv
<1>. QED BY <1>2, <1>3

(* The invariant holds in every reachable state of the gateway user, his     *)
(* client and its threads.                                                   *)
THEOREM InvHolds == Spec => []IInv
BY InvStarts, InvStep, PTL DEF Spec

(* No thread of the user's follows a wild, a null or a freed pointer, or     *)
(* walks a vector another one moves, before one of the six unguarded windows *)
(* has been entered, whatever the buddies, the resources and the traffic.    *)
THEOREM FaultsAreRaces == Spec => []FaultsNeedARace
<1>1. IInv => FaultsNeedARace
  BY DEF IInv, Windows
<1>. QED BY <1>1, InvHolds, PTL

(* A Jabber user who is offline is left believing nobody of his roster       *)
(* online but the buddies of a packet handled, or missed by a walk, while    *)
(* the goodbyes were said.                                                   *)
THEOREM OfflineSeesNobody == Spec => []OfflineHidesBuddies
<1>1. IInv => OfflineHidesBuddies
  <2>. SUFFICES ASSUME IInv, ~fault, client = "null", NEW b \in ToSet(inroster), shown[b] = "on"
                PROVE  b \in raced
    BY DEF OfflineHidesBuddies
  <2>1. entries = <<>> /\ reader.at = "none" /\ inroster \in Seq(Buddy)
    BY DEF IInv, Sound, Fits, Control, JabberFits
  <2>2. b \in Buddy
    BY <2>1 DEF ToSet
  <2>3. Excused(b)
    BY <2>2 DEF IInv, Sound, Hidden
  <2>4. b \notin Has(entries) /\ ~Leaving(b)
    BY <2>1 DEF Has, Leaving
  <2>. QED BY <2>3, <2>4 DEF Excused
<1>. QED BY <1>1, InvHolds, PTL

\* At rest there is a connection, and nobody is on his way out.
LEMMA QuietFacts ==
  ASSUME IInv, Quiet
  PROVE  /\ socket = "open" /\ main = "idle" /\ reader.at = "recv" /\ entries \in Seq(Rows)
         /\ Distinct(entries) /\ inroster \in Seq(Buddy) /\ (\A b : ~Going(b)) /\ Sound
<1>0. Sound
  BY DEF IInv, Quiet
<1>1. main = "idle" /\ reader.at = "recv" /\ wire = <<>>
  BY DEF Quiet
<1>2. socket = "open" /\ entries \in Seq(Rows) /\ Distinct(entries) /\ inroster \in Seq(Buddy)
  BY <1>0, <1>1 DEF Sound, Fits, Control, RowsFit, JabberFits
<1>3. Pending = <<>>
  BY <1>1 DEF Pending, PendingOf
<1>4. Len(Pending) = 0
  BY <1>3
<1>5. \A b : ~Going(b)
  BY <1>4 DEF Going
<1>. QED BY <1>0, <1>1, <1>2, <1>5

(* With both threads at rest, Jabber was last told of every buddy of the     *)
(* roster what the buddy list holds, unless both threads were about to send  *)
(* his presence or he came online before the User was listening.             *)
THEOREM JabberAgrees == Spec => []ShownAsListed
<1>1. IInv => ShownAsListed
  <2>. SUFFICES ASSUME IInv, Quiet, NEW b \in ToSet(inroster) \ raced, HasEntry(b)
                PROVE  shown[b] = "on" <=> IsOnline(Entry(b))
    BY DEF ShownAsListed
  <2>1. /\ socket = "open" /\ main = "idle" /\ reader.at = "recv" /\ entries \in Seq(Rows)
        /\ Distinct(entries) /\ inroster \in Seq(Buddy) /\ ~Going(b) /\ Sound
    BY QuietFacts
  <2>2. b \in Buddy /\ InRoster(b)
    BY <2>1 DEF ToSet, InRoster, Contains
  <2>3. b \in Has(entries) /\ (IsOnline(Entry(b)) <=> b \in On(entries))
    BY <2>1, <2>2, EntryFacts
  <2>4. Told(b)
    BY <2>1, <2>2, <2>3 DEF Sound, Agrees
  <2>5. shown[b] = "on" <=> b \in On(entries)
    BY <2>1, <2>4 DEF Told
  <2>. QED BY <2>3, <2>5
<1>. QED BY <1>1, InvHolds, PTL

(* With both threads at rest, every buddy of the buddy list is in the roster *)
(* or the Jabber user was asked to subscribe to him, unless the list arrived *)
(* before the User was listening.                                            *)
THEOREM BuddiesAreOffered == Spec => []EveryBuddyOffered
<1>1. IInv => EveryBuddyOffered
  <2>. SUFFICES ASSUME IInv, Quiet, "attach" \notin race, NEW i \in 1..Len(entries)
                PROVE  entries[i].username \in ToSet(inroster) \union asked \union raced
    BY DEF EveryBuddyOffered
  <2> DEFINE b == entries[i].username
  <2>1. /\ socket = "open" /\ reader.at = "recv" /\ entries \in Seq(Rows)
        /\ inroster \in Seq(Buddy) /\ ~Going(b) /\ Sound
    BY QuietFacts
  <2>2. entries[i] \in Rows
    BY <2>1
  <2>3. b \in Buddy
    BY <2>2, RowsFacts
  <2>4. b \in Has(entries)
    BY <2>3 DEF Has
  <2>5. Accounted(b)
    BY <2>1, <2>4 DEF Sound, Offered
  <2>. HIDE DEF b
  <2>6. InRoster(b) => b \in ToSet(inroster)
    BY <2>1 DEF InRoster, Contains, ToSet
  <2>7. b \in ToSet(inroster) \union asked \union raced
    BY <2>1, <2>5, <2>6 DEF Accounted
  <2>. QED BY <2>7 DEF b
<1>. QED BY <1>1, InvHolds, PTL

(* Between two stanzas there is a client exactly while a resource is         *)
(* present, and that is what Jabber was told of the gateway, unless another  *)
(* log-in took the client away.                                              *)
THEOREM PresenceIsServed == Spec => []ServedWhilePresent
<1>1. IInv => ServedWhilePresent
  <2>1. ~fault /\ IInv => Control
    BY DEF IInv, Sound, Fits
  <2>2. fault => ServedWhilePresent
    BY DEF ServedWhilePresent
  <2>. QED BY <2>1, <2>2, ControlSuffices
<1>. QED BY <1>1, InvHolds, PTL

(* With both threads at rest, Jabber was last told of no roster buddy that   *)
(* he is online who is not in the buddy list, whenever he was removed, but   *)
(* of one whose packet raced with the answer to his subscription.            *)
THEOREM GoneStayHidden == Spec => []GoneAreHidden
<1>1. IInv => GoneAreHidden
  <2>. SUFFICES ASSUME IInv, Quiet, NEW b \in ToSet(inroster) \ raced, shown[b] = "on"
                PROVE  HasEntry(b)
    BY DEF GoneAreHidden
  <2>1. reader.at = "recv" /\ entries \in Seq(Rows) /\ inroster \in Seq(Buddy) /\ Sound
    BY QuietFacts
  <2>2. b \in Buddy
    BY <2>1 DEF ToSet
  <2>3. Excused(b) /\ ~Leaving(b)
    BY <2>1, <2>2 DEF Sound, Hidden, Leaving
  <2>4. b \in Has(entries)
    BY <2>3 DEF Excused
  <2>. QED BY <2>1, <2>2, <2>4, EntryFacts
<1>. QED BY <1>1, InvHolds, PTL

=============================================================================
