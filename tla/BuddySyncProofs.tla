-------------------------- MODULE BuddySyncProofs --------------------------
(***************************************************************************)
(* Both libraries' lists against the server, for any buddies, any number   *)
(* of log-ins and changes and any packets in flight: applying the packets  *)
(* that are on the wire, in order, to what each list shows makes it show   *)
(* what the server knows.  A view is the server's knowledge at one moment; *)
(* the wire is a path of views from the lists' one to the present.         *)
(***************************************************************************)
EXTENDS BuddySync, SequenceFacts, FiniteSetTheorems, TLAPS

-----------------------------------------------------------------------------
(* Rows *)

Row == [ username : Buddy, userid : Nat, nick : Nicks, sid : 0..MaxSid,
         statusmsg : Statuses \union {NoText}, game : Games \union {0},
         game2 : Games \union {0} ]
JRow == [ userid : Nat, name : Buddy, nick : Nicks, sid : NullSid..MaxSid,
          statusMessage : {NullMessage} \union Statuses ]
Person == [ friend : BOOLEAN, sid : 0..MaxSid, nick : Nicks \union {NoText},
            said : Statuses \union {NoText}, game : Games \union {0},
            game2 : Games \union {0} ]

\* The same row but for one field.
WithSid(r, s) == [r EXCEPT !.sid = s]
WithGame(r, g) == [r EXCEPT !.game = g]
WithGame2(r, g) == [r EXCEPT !.game2 = g]
WithWord(r, m) == [r EXCEPT !.statusmsg = m]
WithNick(r, n) == [r EXCEPT !.nick = n]
WithMessage(f, m) == [f EXCEPT !.statusMessage = m]

LEMMA WithFacts ==
  ASSUME NEW r \in Row
  PROVE  /\ \A s \in 0..MaxSid :
              LET q == WithSid(r, s)
              IN  /\ q \in Row /\ q.sid = s
                  /\ q.username = r.username /\ q.userid = r.userid /\ q.nick = r.nick
         /\ \A g \in Games \union {0} :
              LET q == WithGame(r, g)
              IN  /\ q \in Row /\ q.game = g /\ q.game2 = r.game2 /\ q.statusmsg = r.statusmsg
                  /\ q.username = r.username /\ q.userid = r.userid /\ q.nick = r.nick
                  /\ q.sid = r.sid
         /\ \A g \in Games \union {0} :
              LET q == WithGame2(r, g)
              IN  /\ q \in Row /\ q.game2 = g /\ q.game = r.game /\ q.statusmsg = r.statusmsg
                  /\ q.username = r.username /\ q.userid = r.userid /\ q.nick = r.nick
                  /\ q.sid = r.sid
         /\ \A m \in Statuses :
              LET q == WithWord(r, m)
              IN  /\ q \in Row /\ q.statusmsg = m /\ q.game = r.game /\ q.game2 = r.game2
                  /\ q.username = r.username /\ q.userid = r.userid /\ q.nick = r.nick
                  /\ q.sid = r.sid
         /\ \A n \in Nicks :
              LET q == WithNick(r, n)
              IN  /\ q \in Row /\ q.nick = n /\ q.game = r.game /\ q.game2 = r.game2
                  /\ q.username = r.username /\ q.userid = r.userid
                  /\ q.statusmsg = r.statusmsg /\ q.sid = r.sid
<1>1. ASSUME NEW s \in 0..MaxSid
      PROVE  LET q == WithSid(r, s)
             IN  /\ q \in Row /\ q.sid = s
                 /\ q.username = r.username /\ q.userid = r.userid /\ q.nick = r.nick
  BY DEF Row, WithSid
<1>2. ASSUME NEW g \in Games \union {0}
      PROVE  LET q == WithGame(r, g)
             IN  /\ q \in Row /\ q.game = g /\ q.game2 = r.game2 /\ q.statusmsg = r.statusmsg
                 /\ q.username = r.username /\ q.userid = r.userid /\ q.nick = r.nick
                 /\ q.sid = r.sid
  BY DEF Row, WithGame
<1>3. ASSUME NEW g \in Games \union {0}
      PROVE  LET q == WithGame2(r, g)
             IN  /\ q \in Row /\ q.game2 = g /\ q.game = r.game /\ q.statusmsg = r.statusmsg
                 /\ q.username = r.username /\ q.userid = r.userid /\ q.nick = r.nick
                 /\ q.sid = r.sid
  BY DEF Row, WithGame2
<1>4. ASSUME NEW m \in Statuses
      PROVE  LET q == WithWord(r, m)
             IN  /\ q \in Row /\ q.statusmsg = m /\ q.game = r.game /\ q.game2 = r.game2
                 /\ q.username = r.username /\ q.userid = r.userid /\ q.nick = r.nick
                 /\ q.sid = r.sid
  BY DEF Row, WithWord
<1>5. ASSUME NEW n \in Nicks
      PROVE  LET q == WithNick(r, n)
             IN  /\ q \in Row /\ q.nick = n /\ q.game = r.game /\ q.game2 = r.game2
                 /\ q.username = r.username /\ q.userid = r.userid
                 /\ q.statusmsg = r.statusmsg /\ q.sid = r.sid
  BY DEF Row, WithNick
<1>. QED BY <1>1, <1>2, <1>3, <1>4, <1>5

\* Whatever a field was before, it is as the last update makes it.
LEMMA WithTwice ==
  /\ \A r, s, t : WithSid(WithSid(r, s), t) = WithSid(r, t)
  /\ \A r, s, t : WithGame(WithGame(r, s), t) = WithGame(r, t)
  /\ \A r, s, t : WithGame2(WithGame2(r, s), t) = WithGame2(r, t)
  /\ \A r, s, t : WithWord(WithWord(r, s), t) = WithWord(r, t)
  /\ \A r, s, t : WithMessage(WithMessage(r, s), t) = WithMessage(r, t)
BY DEF WithSid, WithGame, WithGame2, WithWord, WithMessage

LEMMA WithFactsOfFriends ==
  ASSUME NEW f \in JRow
  PROVE  /\ \A s \in 0..MaxSid :
              LET q == WithSid(f, s)
              IN  q \in JRow /\ q.sid = s /\ q.name = f.name /\ q.userid = f.userid
         /\ \A m \in Statuses :
              LET q == WithMessage(f, m)
              IN  /\ q \in JRow /\ q.statusMessage = m /\ q.name = f.name
                  /\ q.userid = f.userid /\ q.sid = f.sid
<1>1. ASSUME NEW s \in 0..MaxSid
      PROVE  LET q == WithSid(f, s)
             IN  q \in JRow /\ q.sid = s /\ q.name = f.name /\ q.userid = f.userid
  <2>1. s \in NullSid..MaxSid
    BY SyncAssumption DEF NullSid
  <2>. QED BY <2>1 DEF JRow, WithSid
<1>2. ASSUME NEW m \in Statuses
      PROVE  LET q == WithMessage(f, m)
             IN  /\ q \in JRow /\ q.statusMessage = m /\ q.name = f.name
                 /\ q.userid = f.userid /\ q.sid = f.sid
  BY DEF JRow, WithMessage
<1>. QED BY <1>1, <1>2

-----------------------------------------------------------------------------
(* Look-ups *)

\* What a look-up returns: the first of the places I, or 0.
FirstOf(i, I) == IF I = {} THEN i = 0 ELSE i \in I /\ \A k \in I : i <= k

LEMMA LookUps ==
  ASSUME NEW es, NEW x
  PROVE  /\ FirstOf(IndexById(es, x), {i \in 1..Len(es) : es[i].userid = x})
         /\ FirstOf(IndexBySid(es, x), {i \in 1..Len(es) : es[i].sid = x})
         /\ FirstOf(FriendBySid(es, x), {i \in 1..Len(es) : es[i].sid = x})
         /\ FirstOf(FriendByUserId(es, x), {i \in 1..Len(es) : es[i].userid = x})
<1>1. ASSUME NEW I \in SUBSET (1..Len(es))
      PROVE  FirstOf(IF I # {} THEN Min(I) ELSE 0, I)
  <2>1. I \in SUBSET Nat
    OBVIOUS
  <2>2. I # {} => Min(I) \in I /\ \A k \in I : Min(I) <= k
    BY <2>1, LeastOfNat
  <2>. QED BY <2>2 DEF FirstOf
<1>2. FirstOf(IndexById(es, x), {i \in 1..Len(es) : es[i].userid = x})
  BY <1>1 DEF IndexById, SelectInSeq
<1>3. FirstOf(IndexBySid(es, x), {i \in 1..Len(es) : es[i].sid = x})
  BY <1>1 DEF IndexBySid, SelectInSeq
<1>4. FirstOf(FriendBySid(es, x), {i \in 1..Len(es) : es[i].sid = x})
  BY <1>1 DEF FriendBySid, SelectInSeq
<1>5. FirstOf(FriendByUserId(es, x), {i \in 1..Len(es) : es[i].userid = x})
  BY <1>1 DEF FriendByUserId, SelectInSeq
<1>. QED BY <1>2, <1>3, <1>4, <1>5

LEMMA FirstIsOne ==
  ASSUME NEW n \in Nat, NEW I \in SUBSET (1..n), NEW i, FirstOf(i, I), NEW k, FirstOf(k, I)
  PROVE  i = k /\ i \in 0..n
<1>1. CASE I = {}
  BY <1>1 DEF FirstOf
<1>2. CASE I # {}
  <2>1. i \in 1..n /\ k \in 1..n /\ i <= k /\ k <= i
    BY <1>2 DEF FirstOf
  <2>. QED BY <2>1
<1>. QED BY <1>1, <1>2

\* A look-up only sees the field it looks at.
LEMMA SameLookUps ==
  ASSUME NEW a, NEW b, Len(a) \in Nat, Len(a) = Len(b), NEW x
  PROVE  /\ (\A i \in 1..Len(a) : a[i].userid = b[i].userid) =>
              IndexById(a, x) = IndexById(b, x) /\ FriendByUserId(a, x) = FriendByUserId(b, x)
         /\ (\A i \in 1..Len(a) : a[i].sid = b[i].sid) =>
              IndexBySid(a, x) = IndexBySid(b, x) /\ FriendBySid(a, x) = FriendBySid(b, x)
<1> DEFINE U(e) == {i \in 1..Len(e) : e[i].userid = x}
           V(e) == {i \in 1..Len(e) : e[i].sid = x}
<1>1. U(a) \in SUBSET (1..Len(a)) /\ V(a) \in SUBSET (1..Len(a))
  OBVIOUS
<1>2. (\A i \in 1..Len(a) : a[i].userid = b[i].userid) => U(a) = U(b)
  OBVIOUS
<1>3. (\A i \in 1..Len(a) : a[i].sid = b[i].sid) => V(a) = V(b)
  OBVIOUS
<1>4. /\ FirstOf(IndexById(a, x), U(a)) /\ FirstOf(IndexById(b, x), U(b))
      /\ FirstOf(FriendByUserId(a, x), U(a)) /\ FirstOf(FriendByUserId(b, x), U(b))
      /\ FirstOf(IndexBySid(a, x), V(a)) /\ FirstOf(IndexBySid(b, x), V(b))
      /\ FirstOf(FriendBySid(a, x), V(a)) /\ FirstOf(FriendBySid(b, x), V(b))
  BY LookUps
<1>. HIDE DEF U, V
<1>. QED BY <1>1, <1>2, <1>3, <1>4, FirstIsOne

LEMMA LookUpRange ==
  ASSUME NEW es, Len(es) \in Nat, NEW x
  PROVE  /\ IndexById(es, x) \in 0..Len(es) /\ IndexBySid(es, x) \in 0..Len(es)
         /\ FriendByUserId(es, x) \in 0..Len(es) /\ FriendBySid(es, x) \in 0..Len(es)
<1> DEFINE U == {i \in 1..Len(es) : es[i].userid = x}
           V == {i \in 1..Len(es) : es[i].sid = x}
<1>1. U \in SUBSET (1..Len(es)) /\ V \in SUBSET (1..Len(es))
  OBVIOUS
<1>2. /\ FirstOf(IndexById(es, x), U) /\ FirstOf(FriendByUserId(es, x), U)
      /\ FirstOf(IndexBySid(es, x), V) /\ FirstOf(FriendBySid(es, x), V)
  BY LookUps
<1>. HIDE DEF U, V
<1>. QED BY <1>1, <1>2, FirstIsOne

-----------------------------------------------------------------------------
(* Folds *)

\* new is old but for the rows that the first k items are about: each of them
\* is as one of those items makes it.  Item m is about row ix[m].
Redone(new, old, S, ix, as, k) ==
  /\ new \in Seq(S) /\ Len(new) = Len(old)
  /\ \A i \in 1..Len(old) :
       \/ new[i] = old[i] /\ \A m \in 1..k : ix[m] # i
       \/ \E m \in 1..k : ix[m] = i /\ new[i] = as[<<m, i>>]

LEMMA RedoneStep ==
  ASSUME NEW S, NEW old \in Seq(S), NEW n \in Nat, NEW ix \in [1..n -> 0..Len(old)],
         NEW as, \A m \in 1..n, i \in 1..Len(old) : as[<<m, i>>] \in S,
         NEW k \in 1..n, NEW e, Redone(e, old, S, ix, as, k - 1),
         NEW new, new = IF ix[k] = 0 THEN e ELSE [e EXCEPT ![ix[k]] = as[<<k, ix[k]>>]]
  PROVE  Redone(new, old, S, ix, as, k)
<1>1. e \in Seq(S) /\ Len(e) = Len(old) /\ Len(old) \in Nat
  BY LenProperties DEF Redone
<1>2. ASSUME NEW i \in 1..Len(old)
      PROVE  \/ e[i] = old[i] /\ \A m \in 1..(k - 1) : ix[m] # i
             \/ \E m \in 1..(k - 1) : ix[m] = i /\ e[i] = as[<<m, i>>]
  BY <1>2 DEF Redone
<1>3. \A m \in 1..k : m = k \/ m \in 1..(k - 1)
  OBVIOUS
<1>4. 1..(k - 1) \subseteq 1..k /\ k \in 1..k
  OBVIOUS
<1>5. ASSUME NEW i \in 1..Len(old), ix[k] # i, new[i] = e[i]
      PROVE  \/ new[i] = old[i] /\ \A m \in 1..k : ix[m] # i
             \/ \E m \in 1..k : ix[m] = i /\ new[i] = as[<<m, i>>]
  BY <1>2, <1>3, <1>4, <1>5
<1>6. CASE ix[k] = 0
  <2>1. new = e /\ \A i \in 1..Len(old) : ix[k] # i
    BY <1>6
  <2>2. ASSUME NEW i \in 1..Len(old)
        PROVE  \/ new[i] = old[i] /\ \A m \in 1..k : ix[m] # i
               \/ \E m \in 1..k : ix[m] = i /\ new[i] = as[<<m, i>>]
    BY <1>5, <2>1
  <2>. QED BY <1>1, <2>1, <2>2 DEF Redone
<1>7. CASE ix[k] # 0
  <2> DEFINE j == ix[k]
             r == as[<<k, j>>]
  <2>1. j \in 1..Len(old) /\ j \in 1..Len(e)
    BY <1>1, <1>7
  <2>2. r \in S
    BY <2>1
  <2>3. new = [e EXCEPT ![j] = r]
    BY <1>7
  <2>. HIDE DEF r, j
  <2>4. /\ new \in Seq(S) /\ Len(new) = Len(e)
        /\ \A i \in 1..Len(e) : new[i] = IF i = j THEN r ELSE e[i]
    <3> DEFINE q == [e EXCEPT ![j] = r]
    <3>1. /\ q \in Seq(S) /\ Len(q) = Len(e)
          /\ \A i \in 1..Len(e) : q[i] = IF i = j THEN r ELSE e[i]
      <4>1. e \in Seq(S) /\ j \in 1..Len(e) /\ r \in S
        BY <1>1, <2>1, <2>2
      <4>. QED BY ONLY <4>1, ExceptSeq
    <3>2. new = q
      BY <2>3
    <3>. HIDE DEF q
    <3>. QED BY ONLY <3>1, <3>2
  <2>5. ASSUME NEW i \in 1..Len(old)
        PROVE  \/ new[i] = old[i] /\ \A m \in 1..k : ix[m] # i
               \/ \E m \in 1..k : ix[m] = i /\ new[i] = as[<<m, i>>]
    <3>1. CASE i = j
      BY <1>1, <1>4, <2>1, <2>4, <3>1 DEF r, j
    <3>2. CASE i # j
      BY <1>1, <1>5, <2>4, <3>2 DEF j
    <3>. QED BY <3>1, <3>2
  <2>. QED BY <1>1, <2>4, <2>5 DEF Redone
<1>. QED BY <1>6, <1>7

LEMMA RedoneFirst ==
  ASSUME NEW S, NEW old \in Seq(S), NEW ix, NEW as
  PROVE  Redone(old, old, S, ix, as, 0)
BY DEF Redone

PutSid(es, item) ==
  LET i == IndexById(es, item.id)
  IN  IF i = 0 THEN es ELSE [es EXCEPT ![i].sid = item.sid]
PutGame(es, item) ==
  LET i == IndexBySid(es, item.sid)
  IN  IF i = 0 THEN es ELSE [es EXCEPT ![i].game = item.game]
PutGame2(es, item) ==
  LET i == IndexBySid(es, item.sid)
  IN  IF i = 0 THEN es ELSE [es EXCEPT ![i].game2 = item.game]
PutWord(es, item) == [es EXCEPT ![IndexBySid(es, item.sid)].statusmsg = item.msg]
PutFriendSid(fs, item) ==
  LET i == FriendByUserId(fs, item.id)
  IN  IF i = 0 THEN fs ELSE [fs EXCEPT ![i].sid = item.sid]
PutMessage(fs, item) ==
  LET i == FriendBySid(fs, item.sid)
  IN  IF i = 0 THEN fs ELSE [fs EXCEPT ![i].statusMessage = item.msg]

FirstGames(es, items) == UpdateGames(es, items, TRUE)
SecondGames(es, items) == UpdateGames(es, items, FALSE)

SidItems(items, n) == DOMAIN items = 1..n /\ \A k \in 1..n : items[k].sid \in 0..MaxSid
GameItems(items, n) == DOMAIN items = 1..n /\ \A k \in 1..n : items[k].game \in Games \union {0}
WordItems(items, n) == DOMAIN items = 1..n /\ \A k \in 1..n : items[k].msg \in Statuses

PutWords(es, items) ==
  FoldLeft(LAMBDA e, item : [e EXCEPT ![IndexBySid(e, item.sid)].statusmsg = item.msg], es, items)

\* A row that is not there takes no status.
LEMMA NobodysWord ==
  ASSUME NEW es \in Seq(Row), NEW item, IndexBySid(es, item.sid) = 0
  PROVE  PutWord(es, item) = es
<1>1. es \in [1..Len(es) -> Row] /\ Len(es) \in Nat
  BY LenProperties
<1>2. 0 \notin 1..Len(es)
  OBVIOUS
<1>. QED BY <1>1, <1>2 DEF PutWord

WordsSteps(f, es, items, n) ==
  /\ f[0] = es /\ f[n] = PutWords(es, items)
  /\ \A k \in 1..n : f[k] = PutWord(f[k - 1], items[k])

LEMMA PutWordType ==
  ASSUME NEW es \in Seq(Row), NEW item, item.msg \in Statuses
  PROVE  PutWord(es, item) \in Seq(Row)
<1> DEFINE i == IndexBySid(es, item.sid)
<1>1. Len(es) \in Nat
  BY LenProperties
<1>2. i \in 0..Len(es)
  BY <1>1, LookUpRange
<1>3. CASE i = 0
  BY <1>1, <1>3, NobodysWord
<1>4. CASE i # 0
  <2>1. PutWord(es, item) = [es EXCEPT ![i] = WithWord(es[i], item.msg)]
    BY <1>4 DEF PutWord, WithWord
  <2>2. i \in 1..Len(es)
    BY <1>1, <1>2, <1>4
  <2>. HIDE DEF i
  <2>3. es[i] \in Row
    BY <2>2, ElementOfSeq
  <2>4. WithWord(es[i], item.msg) \in Row
    BY <2>3, WithFacts
  <2>. QED BY <2>1, <2>2, <2>4, ExceptSeq
<1>. QED BY <1>3, <1>4

LEMMA WordsRun ==
  ASSUME NEW es \in Seq(Row), NEW n \in Nat, NEW items, WordItems(items, n)
  PROVE  \E f : WordsSteps(f, es, items, n)
<1>0. DOMAIN items = 1..n /\ \A k \in 1..n : items[k].msg \in Statuses
  BY DEF WordItems
<1> DEFINE T == Seq(Row)
           D == DOMAIN items
           Fix(g) == g = [s \in SUBSET D |->
                            IF s = {} THEN es ELSE PutWord(g[s \ {Max(s)}], items[Max(s)])]
           h == CHOOSE g : Fix(g)
<1>1. PutWords(es, items) = h[D]
  BY DEF PutWords, FoldLeft, MapThenFoldSet, PutWord
<1>2. D = 1..n
  BY <1>0
<1>. HIDE DEF D
<1>3. ASSUME NEW e \in T, NEW k \in 1..n
      PROVE  PutWord(e, items[k]) \in T
  BY <1>0, <1>3, PutWordType
<1> DEFINE F == [x \in T \X (1..n) |-> PutWord(x[1], items[x[2]])]
<1>4. F \in [T \X (1..n) -> T]
  BY <1>3
<1>5. \A e \in T, k \in 1..n : F[<<e, k>>] = PutWord(e, items[k])
  OBVIOUS
<1>6. es \in T
  OBVIOUS
<1>. HIDE DEF T, F
<1>7. PICK g \in [SUBSET (1..n) -> T] : FoldsUp(g, es, F, n)
  BY ONLY <1>4, <1>6, n \in Nat, FoldExists
<1>8. ASSUME NEW s \in SUBSET (1..n)
      PROVE  g[s] = IF s = {} THEN es ELSE PutWord(g[s \ {Max(s)}], items[Max(s)])
  <2>0. g[s] = IF s = {} THEN es ELSE F[<<g[s \ {Max(s)}], Max(s)>>]
    BY <1>7, <1>8 DEF FoldsUp
  <2>1. CASE s = {}
    BY <2>0, <2>1
  <2>2. CASE s # {}
    <3>1. s \in SUBSET Nat /\ \A k \in s : k <= n
      OBVIOUS
    <3>2. Max(s) \in s
      BY <2>2, <3>1, GreatestOfNat
    <3>3. Max(s) \in 1..n /\ g[s \ {Max(s)}] \in T
      BY <3>2, <1>7
    <3>. QED BY <1>5, <2>0, <2>2, <3>3
  <2>. QED BY <2>1, <2>2
<1>9. Fix(g)
  BY ONLY <1>2, <1>7, <1>8
<1>10. Fix(h)
  BY <1>9
<1>. HIDE DEF h
<1>11. \A s \in SUBSET (1..n) :
         h[s] = IF s = {} THEN es ELSE PutWord(h[s \ {Max(s)}], items[Max(s)])
  BY ONLY <1>2, <1>10
<1> DEFINE f == [k \in 0..n |-> h[1..k]]
<1>12. \A k \in 0..n : f[k] = h[1..k] /\ 1..k \in SUBSET (1..n)
  OBVIOUS
<1>. HIDE DEF f
<1>13. f[0] = es
  <2>1. 0 \in 0..n /\ 1..0 = {}
    OBVIOUS
  <2>. QED BY <1>11, <1>12, <2>1
<1>14. f[n] = PutWords(es, items)
  <2>1. n \in 0..n
    OBVIOUS
  <2>. QED BY <1>1, <1>2, <1>12, <2>1
<1>15. ASSUME NEW k \in 1..n
       PROVE  f[k] = PutWord(f[k - 1], items[k])
  <2>1. k \in 0..n /\ k - 1 \in 0..n /\ k \in Nat \ {0}
    OBVIOUS
  <2>2. 1..k # {} /\ Max(1..k) = k /\ (1..k) \ {k} = 1..(k - 1)
    BY <2>1, TopOfInterval
  <2>3. h[1..k] = PutWord(h[1..(k - 1)], items[k])
    BY <1>11, <1>12, <2>1, <2>2
  <2>. QED BY <1>12, <2>1, <2>3
<1>. QED BY <1>13, <1>14, <1>15 DEF WordsSteps

LEMMA WordsEffect ==
  ASSUME NEW es \in Seq(Row), NEW n \in Nat, NEW items, WordItems(items, n),
         NEW new, new = PutWords(es, items)
  PROVE  /\ new \in Seq(Row) /\ Len(new) = Len(es)
         /\ \A i \in 1..Len(es) :
              \/ new[i] = es[i] /\ \A k \in 1..n : IndexBySid(es, items[k].sid) # i
              \/ \E k \in 1..n : /\ IndexBySid(es, items[k].sid) = i
                                /\ new[i] = WithWord(es[i], items[k].msg)
<1>0. PICK f : WordsSteps(f, es, items, n)
  BY WordsRun
<1>1. /\ f[0] = es /\ f[n] = new
      /\ \A k \in 1..n : f[k] = PutWord(f[k - 1], items[k])
  BY <1>0 DEF WordsSteps
<1>16. \A k \in 1..n : items[k].msg \in Statuses
  BY DEF WordItems
<1> DEFINE ix == [k \in 1..n |-> IndexBySid(es, items[k].sid)]
           as == [x \in (1..n) \X (1..Len(es)) |-> WithWord(es[x[2]], items[x[1]].msg)]
           Good == {k \in 0..n : Redone(f[k], es, Row, ix, as, k)}
<1>2. Len(es) \in Nat /\ \A i \in 1..Len(es) : es[i] \in Row
  BY LenProperties, ElementOfSeq
<1>3. ix \in [1..n -> 0..Len(es)] /\ \A k \in 1..n : ix[k] = IndexBySid(es, items[k].sid)
  BY <1>2, LookUpRange
<1>4. \A m \in 1..n, i \in 1..Len(es) : as[<<m, i>>] = WithWord(es[i], items[m].msg)
  OBVIOUS
<1>5. \A m \in 1..n, i \in 1..Len(es) : as[<<m, i>>] \in Row
  BY <1>2, <1>4, <1>16, WithFacts
<1>. HIDE DEF ix, as
<1>6. 0 \in Good
  <2>1. Redone(es, es, Row, ix, as, 0)
    BY RedoneFirst
  <2>2. 0 \in 0..n
    OBVIOUS
  <2>. QED BY <1>1, <2>1, <2>2
<1>7. ASSUME NEW k \in 1..n, k - 1 \in Good
      PROVE  k \in Good
  <2> DEFINE e == f[k - 1]
             j == ix[k]
  <2>1. Redone(e, es, Row, ix, as, k - 1)
    BY <1>7
  <2>2. f[k] = PutWord(e, items[k])
    BY <1>1
  <2>. HIDE DEF e
  <2>3. e \in Seq(Row) /\ Len(e) = Len(es)
    BY <2>1 DEF Redone
  <2>4. ASSUME NEW i \in 1..Len(es)
        PROVE  \/ e[i] = es[i]
               \/ \E m \in 1..n : e[i] = WithWord(es[i], items[m].msg)
    <3>1. 1..(k - 1) \subseteq 1..n
      OBVIOUS
    <3>2. \/ e[i] = es[i] /\ \A m \in 1..(k - 1) : ix[m] # i
          \/ \E m \in 1..(k - 1) : ix[m] = i /\ e[i] = as[<<m, i>>]
      BY <2>1, <2>4 DEF Redone
    <3>. QED BY <1>4, <3>1, <3>2
  <2>5. ASSUME NEW i \in 1..Len(es)
        PROVE  e[i].sid = es[i].sid
    <3>1. ASSUME NEW m \in 1..n, e[i] = WithWord(es[i], items[m].msg)
          PROVE  e[i].sid = es[i].sid
      BY <1>2, <1>16, <3>1, WithFacts
    <3>. QED BY <2>4, <3>1
  <2>6. IndexBySid(e, items[k].sid) = j
    <3>1. Len(e) \in Nat /\ Len(e) = Len(es)
      BY <1>2, <2>3
    <3>. QED BY <1>3, <2>5, <3>1, SameLookUps
  <2>7. \A i \in 1..Len(es) : WithWord(e[i], items[k].msg) = WithWord(es[i], items[k].msg)
    BY <2>4, WithTwice
  <2>8. j \in 0..Len(es)
    BY <1>3
  <2>. HIDE DEF j
  <2>9. f[k] = IF j = 0 THEN e ELSE [e EXCEPT ![j] = as[<<k, j>>]]
    <3>1. CASE j = 0
      BY <2>2, <2>3, <2>6, <3>1, <1>2, NobodysWord
    <3>2. CASE j # 0
      <4>1. f[k] = [e EXCEPT ![j] = WithWord(e[j], items[k].msg)]
        BY <2>2, <2>6, <3>2 DEF PutWord, WithWord
      <4>2. j \in 1..Len(es)
        BY <1>2, <2>8, <3>2
      <4>3. WithWord(e[j], items[k].msg) = as[<<k, j>>]
        BY <1>4, <2>7, <4>2
      <4>. QED BY <3>2, <4>1, <4>3
    <3>. QED BY <3>1, <3>2
  <2>10. Redone(f[k], es, Row, ix, as, k)
    BY <1>3, <1>5, <2>1, <2>9, RedoneStep DEF j
  <2>11. k \in 0..n
    OBVIOUS
  <2>. QED BY <2>10, <2>11
<1>8. n \in Good
  <2>. HIDE DEF Good
  <2>. QED BY <1>6, <1>7, StepByStep
<1>9. Redone(new, es, Row, ix, as, n)
  BY <1>1, <1>8
<1>. HIDE DEF Good
<1>10. ASSUME NEW i \in 1..Len(es)
       PROVE  \/ new[i] = es[i] /\ \A k \in 1..n : IndexBySid(es, items[k].sid) # i
              \/ \E k \in 1..n : /\ IndexBySid(es, items[k].sid) = i
                                /\ new[i] = WithWord(es[i], items[k].msg)
  <2>1. \/ new[i] = es[i] /\ \A m \in 1..n : ix[m] # i
        \/ \E m \in 1..n : ix[m] = i /\ new[i] = as[<<m, i>>]
    BY <1>9, <1>10 DEF Redone
  <2>. QED BY <1>3, <1>4, <2>1
<1>. QED BY <1>9, <1>10 DEF Redone

WordsShown(new, es, items, n) ==
  /\ new \in Seq(Row) /\ Len(new) = Len(es)
  /\ \A i \in 1..Len(es) :
       \/ new[i] = es[i] /\ \A k \in 1..n : IndexBySid(es, items[k].sid) # i
       \/ \E k \in 1..n : /\ IndexBySid(es, items[k].sid) = i
                         /\ new[i] = WithWord(es[i], items[k].msg)

LEMMA WordsAreShown ==
  ASSUME NEW es \in Seq(Row), NEW n \in Nat, NEW items, WordItems(items, n)
  PROVE  WordsShown(PutWords(es, items), es, items, n)
<1> DEFINE new == PutWords(es, items)
<1>. HIDE DEF new
<1>1. new = PutWords(es, items)
  BY DEF new
<1>. QED BY <1>1, WordsEffect DEF WordsShown

OnlineSteps(f, es, items, n) ==
  /\ f[0] = es /\ f[n] = UpdateOnline(es, items)
  /\ \A k \in 1..n : f[k] = PutSid(f[k - 1], items[k])

LEMMA PutSidType ==
  ASSUME NEW es \in Seq(Row), NEW item, item.sid \in 0..MaxSid
  PROVE  PutSid(es, item) \in Seq(Row)
<1> DEFINE i == IndexById(es, item.id)
<1>1. Len(es) \in Nat
  BY LenProperties
<1>2. i \in 0..Len(es)
  BY <1>1, LookUpRange
<1>3. CASE i = 0
  BY <1>3 DEF PutSid
<1>4. CASE i # 0
  <2>1. PutSid(es, item) = [es EXCEPT ![i] = WithSid(es[i], item.sid)]
    BY <1>4 DEF PutSid, WithSid
  <2>2. i \in 1..Len(es)
    BY <1>1, <1>2, <1>4
  <2>. HIDE DEF i
  <2>3. es[i] \in Row
    BY <2>2, ElementOfSeq
  <2>4. WithSid(es[i], item.sid) \in Row
    BY <2>3, WithFacts
  <2>. QED BY <2>1, <2>2, <2>4, ExceptSeq
<1>. QED BY <1>3, <1>4

LEMMA OnlineRun ==
  ASSUME NEW es \in Seq(Row), NEW n \in Nat, NEW items, SidItems(items, n)
  PROVE  \E f : OnlineSteps(f, es, items, n)
<1>0. DOMAIN items = 1..n /\ \A k \in 1..n : items[k].sid \in 0..MaxSid
  BY DEF SidItems
<1> DEFINE T == Seq(Row)
           D == DOMAIN items
           Fix(g) == g = [s \in SUBSET D |->
                            IF s = {} THEN es ELSE PutSid(g[s \ {Max(s)}], items[Max(s)])]
           h == CHOOSE g : Fix(g)
<1>1. UpdateOnline(es, items) = h[D]
  BY DEF UpdateOnline, FoldLeft, MapThenFoldSet, PutSid
<1>2. D = 1..n
  BY <1>0
<1>. HIDE DEF D
<1>3. ASSUME NEW e \in T, NEW k \in 1..n
      PROVE  PutSid(e, items[k]) \in T
  BY <1>0, <1>3, PutSidType
<1> DEFINE F == [x \in T \X (1..n) |-> PutSid(x[1], items[x[2]])]
<1>4. F \in [T \X (1..n) -> T]
  BY <1>3
<1>5. \A e \in T, k \in 1..n : F[<<e, k>>] = PutSid(e, items[k])
  OBVIOUS
<1>6. es \in T
  OBVIOUS
<1>. HIDE DEF T, F
<1>7. PICK g \in [SUBSET (1..n) -> T] : FoldsUp(g, es, F, n)
  BY ONLY <1>4, <1>6, n \in Nat, FoldExists
<1>8. ASSUME NEW s \in SUBSET (1..n)
      PROVE  g[s] = IF s = {} THEN es ELSE PutSid(g[s \ {Max(s)}], items[Max(s)])
  <2>0. g[s] = IF s = {} THEN es ELSE F[<<g[s \ {Max(s)}], Max(s)>>]
    BY <1>7, <1>8 DEF FoldsUp
  <2>1. CASE s = {}
    BY <2>0, <2>1
  <2>2. CASE s # {}
    <3>1. s \in SUBSET Nat /\ \A k \in s : k <= n
      OBVIOUS
    <3>2. Max(s) \in s
      BY <2>2, <3>1, GreatestOfNat
    <3>3. Max(s) \in 1..n /\ g[s \ {Max(s)}] \in T
      BY <3>2, <1>7
    <3>. QED BY <1>5, <2>0, <2>2, <3>3
  <2>. QED BY <2>1, <2>2
<1>9. Fix(g)
  BY ONLY <1>2, <1>7, <1>8
<1>10. Fix(h)
  BY <1>9
<1>. HIDE DEF h
<1>11. \A s \in SUBSET (1..n) :
         h[s] = IF s = {} THEN es ELSE PutSid(h[s \ {Max(s)}], items[Max(s)])
  BY ONLY <1>2, <1>10
<1> DEFINE f == [k \in 0..n |-> h[1..k]]
<1>12. \A k \in 0..n : f[k] = h[1..k] /\ 1..k \in SUBSET (1..n)
  OBVIOUS
<1>. HIDE DEF f
<1>13. f[0] = es
  <2>1. 0 \in 0..n /\ 1..0 = {}
    OBVIOUS
  <2>. QED BY <1>11, <1>12, <2>1
<1>14. f[n] = UpdateOnline(es, items)
  <2>1. n \in 0..n
    OBVIOUS
  <2>. QED BY <1>1, <1>2, <1>12, <2>1
<1>15. ASSUME NEW k \in 1..n
       PROVE  f[k] = PutSid(f[k - 1], items[k])
  <2>1. k \in 0..n /\ k - 1 \in 0..n /\ k \in Nat \ {0}
    OBVIOUS
  <2>2. 1..k # {} /\ Max(1..k) = k /\ (1..k) \ {k} = 1..(k - 1)
    BY <2>1, TopOfInterval
  <2>3. h[1..k] = PutSid(h[1..(k - 1)], items[k])
    BY <1>11, <1>12, <2>1, <2>2
  <2>. QED BY <1>12, <2>1, <2>3
<1>. QED BY <1>13, <1>14, <1>15 DEF OnlineSteps

LEMMA OnlineEffect ==
  ASSUME NEW es \in Seq(Row), NEW n \in Nat, NEW items, SidItems(items, n),
         NEW new, new = UpdateOnline(es, items)
  PROVE  /\ new \in Seq(Row) /\ Len(new) = Len(es)
         /\ \A i \in 1..Len(es) :
              \/ new[i] = es[i] /\ \A k \in 1..n : IndexById(es, items[k].id) # i
              \/ \E k \in 1..n : /\ IndexById(es, items[k].id) = i
                                /\ new[i] = WithSid(es[i], items[k].sid)
<1>0. PICK f : OnlineSteps(f, es, items, n)
  BY OnlineRun
<1>1. /\ f[0] = es /\ f[n] = new
      /\ \A k \in 1..n : f[k] = PutSid(f[k - 1], items[k])
  BY <1>0 DEF OnlineSteps
<1>16. \A k \in 1..n : items[k].sid \in 0..MaxSid
  BY DEF SidItems
<1> DEFINE ix == [k \in 1..n |-> IndexById(es, items[k].id)]
           as == [x \in (1..n) \X (1..Len(es)) |-> WithSid(es[x[2]], items[x[1]].sid)]
           Good == {k \in 0..n : Redone(f[k], es, Row, ix, as, k)}
<1>2. Len(es) \in Nat /\ \A i \in 1..Len(es) : es[i] \in Row
  BY LenProperties, ElementOfSeq
<1>3. ix \in [1..n -> 0..Len(es)] /\ \A k \in 1..n : ix[k] = IndexById(es, items[k].id)
  BY <1>2, LookUpRange
<1>4. \A m \in 1..n, i \in 1..Len(es) : as[<<m, i>>] = WithSid(es[i], items[m].sid)
  OBVIOUS
<1>5. \A m \in 1..n, i \in 1..Len(es) : as[<<m, i>>] \in Row
  BY <1>2, <1>4, <1>16, WithFacts
<1>. HIDE DEF ix, as
<1>6. 0 \in Good
  <2>1. Redone(es, es, Row, ix, as, 0)
    BY RedoneFirst
  <2>2. 0 \in 0..n
    OBVIOUS
  <2>. QED BY <1>1, <2>1, <2>2
<1>7. ASSUME NEW k \in 1..n, k - 1 \in Good
      PROVE  k \in Good
  <2> DEFINE e == f[k - 1]
             j == ix[k]
  <2>1. Redone(e, es, Row, ix, as, k - 1)
    BY <1>7
  <2>2. f[k] = PutSid(e, items[k])
    BY <1>1
  <2>. HIDE DEF e
  <2>3. e \in Seq(Row) /\ Len(e) = Len(es)
    BY <2>1 DEF Redone
  <2>4. ASSUME NEW i \in 1..Len(es)
        PROVE  \/ e[i] = es[i]
               \/ \E m \in 1..n : e[i] = WithSid(es[i], items[m].sid)
    <3>1. 1..(k - 1) \subseteq 1..n
      OBVIOUS
    <3>2. \/ e[i] = es[i] /\ \A m \in 1..(k - 1) : ix[m] # i
          \/ \E m \in 1..(k - 1) : ix[m] = i /\ e[i] = as[<<m, i>>]
      BY <2>1, <2>4 DEF Redone
    <3>. QED BY <1>4, <3>1, <3>2
  <2>5. ASSUME NEW i \in 1..Len(es)
        PROVE  e[i].userid = es[i].userid
    <3>1. ASSUME NEW m \in 1..n, e[i] = WithSid(es[i], items[m].sid)
          PROVE  e[i].userid = es[i].userid
      BY <1>2, <1>16, <3>1, WithFacts
    <3>. QED BY <2>4, <3>1
  <2>6. IndexById(e, items[k].id) = j
    <3>1. Len(e) \in Nat /\ Len(e) = Len(es)
      BY <1>2, <2>3
    <3>. QED BY <1>3, <2>5, <3>1, SameLookUps
  <2>7. \A i \in 1..Len(es) : WithSid(e[i], items[k].sid) = WithSid(es[i], items[k].sid)
    BY <2>4, WithTwice
  <2>8. j \in 0..Len(es)
    BY <1>3
  <2>. HIDE DEF j
  <2>9. f[k] = IF j = 0 THEN e ELSE [e EXCEPT ![j] = as[<<k, j>>]]
    <3>1. CASE j = 0
      BY <2>2, <2>6, <3>1 DEF PutSid
    <3>2. CASE j # 0
      <4>1. f[k] = [e EXCEPT ![j] = WithSid(e[j], items[k].sid)]
        BY <2>2, <2>6, <3>2 DEF PutSid, WithSid
      <4>2. j \in 1..Len(es)
        BY <1>2, <2>8, <3>2
      <4>3. WithSid(e[j], items[k].sid) = as[<<k, j>>]
        BY <1>4, <2>7, <4>2
      <4>. QED BY <3>2, <4>1, <4>3
    <3>. QED BY <3>1, <3>2
  <2>10. Redone(f[k], es, Row, ix, as, k)
    BY <1>3, <1>5, <2>1, <2>9, RedoneStep DEF j
  <2>11. k \in 0..n
    OBVIOUS
  <2>. QED BY <2>10, <2>11
<1>8. n \in Good
  <2>. HIDE DEF Good
  <2>. QED BY <1>6, <1>7, StepByStep
<1>9. Redone(new, es, Row, ix, as, n)
  BY <1>1, <1>8
<1>. HIDE DEF Good
<1>10. ASSUME NEW i \in 1..Len(es)
       PROVE  \/ new[i] = es[i] /\ \A k \in 1..n : IndexById(es, items[k].id) # i
              \/ \E k \in 1..n : /\ IndexById(es, items[k].id) = i
                                /\ new[i] = WithSid(es[i], items[k].sid)
  <2>1. \/ new[i] = es[i] /\ \A m \in 1..n : ix[m] # i
        \/ \E m \in 1..n : ix[m] = i /\ new[i] = as[<<m, i>>]
    BY <1>9, <1>10 DEF Redone
  <2>. QED BY <1>3, <1>4, <2>1
<1>. QED BY <1>9, <1>10 DEF Redone

GamesSteps(f, es, items, n) ==
  /\ f[0] = es /\ f[n] = FirstGames(es, items)
  /\ \A k \in 1..n : f[k] = PutGame(f[k - 1], items[k])

LEMMA PutGameType ==
  ASSUME NEW es \in Seq(Row), NEW item, item.game \in Games \union {0}
  PROVE  PutGame(es, item) \in Seq(Row)
<1> DEFINE i == IndexBySid(es, item.sid)
<1>1. Len(es) \in Nat
  BY LenProperties
<1>2. i \in 0..Len(es)
  BY <1>1, LookUpRange
<1>3. CASE i = 0
  BY <1>3 DEF PutGame
<1>4. CASE i # 0
  <2>1. PutGame(es, item) = [es EXCEPT ![i] = WithGame(es[i], item.game)]
    BY <1>4 DEF PutGame, WithGame
  <2>2. i \in 1..Len(es)
    BY <1>1, <1>2, <1>4
  <2>. HIDE DEF i
  <2>3. es[i] \in Row
    BY <2>2, ElementOfSeq
  <2>4. WithGame(es[i], item.game) \in Row
    BY <2>3, WithFacts
  <2>. QED BY <2>1, <2>2, <2>4, ExceptSeq
<1>. QED BY <1>3, <1>4

LEMMA GamesRun ==
  ASSUME NEW es \in Seq(Row), NEW n \in Nat, NEW items, GameItems(items, n)
  PROVE  \E f : GamesSteps(f, es, items, n)
<1>0. DOMAIN items = 1..n /\ \A k \in 1..n : items[k].game \in Games \union {0}
  BY DEF GameItems
<1> DEFINE T == Seq(Row)
           D == DOMAIN items
           Fix(g) == g = [s \in SUBSET D |->
                            IF s = {} THEN es ELSE PutGame(g[s \ {Max(s)}], items[Max(s)])]
           h == CHOOSE g : Fix(g)
<1>1. FirstGames(es, items) = h[D]
  BY DEF FirstGames, UpdateGames, FoldLeft, MapThenFoldSet, PutGame
<1>2. D = 1..n
  BY <1>0
<1>. HIDE DEF D
<1>3. ASSUME NEW e \in T, NEW k \in 1..n
      PROVE  PutGame(e, items[k]) \in T
  BY <1>0, <1>3, PutGameType
<1> DEFINE F == [x \in T \X (1..n) |-> PutGame(x[1], items[x[2]])]
<1>4. F \in [T \X (1..n) -> T]
  BY <1>3
<1>5. \A e \in T, k \in 1..n : F[<<e, k>>] = PutGame(e, items[k])
  OBVIOUS
<1>6. es \in T
  OBVIOUS
<1>. HIDE DEF T, F
<1>7. PICK g \in [SUBSET (1..n) -> T] : FoldsUp(g, es, F, n)
  BY ONLY <1>4, <1>6, n \in Nat, FoldExists
<1>8. ASSUME NEW s \in SUBSET (1..n)
      PROVE  g[s] = IF s = {} THEN es ELSE PutGame(g[s \ {Max(s)}], items[Max(s)])
  <2>0. g[s] = IF s = {} THEN es ELSE F[<<g[s \ {Max(s)}], Max(s)>>]
    BY <1>7, <1>8 DEF FoldsUp
  <2>1. CASE s = {}
    BY <2>0, <2>1
  <2>2. CASE s # {}
    <3>1. s \in SUBSET Nat /\ \A k \in s : k <= n
      OBVIOUS
    <3>2. Max(s) \in s
      BY <2>2, <3>1, GreatestOfNat
    <3>3. Max(s) \in 1..n /\ g[s \ {Max(s)}] \in T
      BY <3>2, <1>7
    <3>. QED BY <1>5, <2>0, <2>2, <3>3
  <2>. QED BY <2>1, <2>2
<1>9. Fix(g)
  BY ONLY <1>2, <1>7, <1>8
<1>10. Fix(h)
  BY <1>9
<1>. HIDE DEF h
<1>11. \A s \in SUBSET (1..n) :
         h[s] = IF s = {} THEN es ELSE PutGame(h[s \ {Max(s)}], items[Max(s)])
  BY ONLY <1>2, <1>10
<1> DEFINE f == [k \in 0..n |-> h[1..k]]
<1>12. \A k \in 0..n : f[k] = h[1..k] /\ 1..k \in SUBSET (1..n)
  OBVIOUS
<1>. HIDE DEF f
<1>13. f[0] = es
  <2>1. 0 \in 0..n /\ 1..0 = {}
    OBVIOUS
  <2>. QED BY <1>11, <1>12, <2>1
<1>14. f[n] = FirstGames(es, items)
  <2>1. n \in 0..n
    OBVIOUS
  <2>. QED BY <1>1, <1>2, <1>12, <2>1
<1>15. ASSUME NEW k \in 1..n
       PROVE  f[k] = PutGame(f[k - 1], items[k])
  <2>1. k \in 0..n /\ k - 1 \in 0..n /\ k \in Nat \ {0}
    OBVIOUS
  <2>2. 1..k # {} /\ Max(1..k) = k /\ (1..k) \ {k} = 1..(k - 1)
    BY <2>1, TopOfInterval
  <2>3. h[1..k] = PutGame(h[1..(k - 1)], items[k])
    BY <1>11, <1>12, <2>1, <2>2
  <2>. QED BY <1>12, <2>1, <2>3
<1>. QED BY <1>13, <1>14, <1>15 DEF GamesSteps

LEMMA GamesEffect ==
  ASSUME NEW es \in Seq(Row), NEW n \in Nat, NEW items, GameItems(items, n),
         NEW new, new = FirstGames(es, items)
  PROVE  /\ new \in Seq(Row) /\ Len(new) = Len(es)
         /\ \A i \in 1..Len(es) :
              \/ new[i] = es[i] /\ \A k \in 1..n : IndexBySid(es, items[k].sid) # i
              \/ \E k \in 1..n : /\ IndexBySid(es, items[k].sid) = i
                                /\ new[i] = WithGame(es[i], items[k].game)
<1>0. PICK f : GamesSteps(f, es, items, n)
  BY GamesRun
<1>1. /\ f[0] = es /\ f[n] = new
      /\ \A k \in 1..n : f[k] = PutGame(f[k - 1], items[k])
  BY <1>0 DEF GamesSteps
<1>16. \A k \in 1..n : items[k].game \in Games \union {0}
  BY DEF GameItems
<1> DEFINE ix == [k \in 1..n |-> IndexBySid(es, items[k].sid)]
           as == [x \in (1..n) \X (1..Len(es)) |-> WithGame(es[x[2]], items[x[1]].game)]
           Good == {k \in 0..n : Redone(f[k], es, Row, ix, as, k)}
<1>2. Len(es) \in Nat /\ \A i \in 1..Len(es) : es[i] \in Row
  BY LenProperties, ElementOfSeq
<1>3. ix \in [1..n -> 0..Len(es)] /\ \A k \in 1..n : ix[k] = IndexBySid(es, items[k].sid)
  BY <1>2, LookUpRange
<1>4. \A m \in 1..n, i \in 1..Len(es) : as[<<m, i>>] = WithGame(es[i], items[m].game)
  OBVIOUS
<1>5. \A m \in 1..n, i \in 1..Len(es) : as[<<m, i>>] \in Row
  BY <1>2, <1>4, <1>16, WithFacts
<1>. HIDE DEF ix, as
<1>6. 0 \in Good
  <2>1. Redone(es, es, Row, ix, as, 0)
    BY RedoneFirst
  <2>2. 0 \in 0..n
    OBVIOUS
  <2>. QED BY <1>1, <2>1, <2>2
<1>7. ASSUME NEW k \in 1..n, k - 1 \in Good
      PROVE  k \in Good
  <2> DEFINE e == f[k - 1]
             j == ix[k]
  <2>1. Redone(e, es, Row, ix, as, k - 1)
    BY <1>7
  <2>2. f[k] = PutGame(e, items[k])
    BY <1>1
  <2>. HIDE DEF e
  <2>3. e \in Seq(Row) /\ Len(e) = Len(es)
    BY <2>1 DEF Redone
  <2>4. ASSUME NEW i \in 1..Len(es)
        PROVE  \/ e[i] = es[i]
               \/ \E m \in 1..n : e[i] = WithGame(es[i], items[m].game)
    <3>1. 1..(k - 1) \subseteq 1..n
      OBVIOUS
    <3>2. \/ e[i] = es[i] /\ \A m \in 1..(k - 1) : ix[m] # i
          \/ \E m \in 1..(k - 1) : ix[m] = i /\ e[i] = as[<<m, i>>]
      BY <2>1, <2>4 DEF Redone
    <3>. QED BY <1>4, <3>1, <3>2
  <2>5. ASSUME NEW i \in 1..Len(es)
        PROVE  e[i].sid = es[i].sid
    <3>1. ASSUME NEW m \in 1..n, e[i] = WithGame(es[i], items[m].game)
          PROVE  e[i].sid = es[i].sid
      BY <1>2, <1>16, <3>1, WithFacts
    <3>. QED BY <2>4, <3>1
  <2>6. IndexBySid(e, items[k].sid) = j
    <3>1. Len(e) \in Nat /\ Len(e) = Len(es)
      BY <1>2, <2>3
    <3>. QED BY <1>3, <2>5, <3>1, SameLookUps
  <2>7. \A i \in 1..Len(es) : WithGame(e[i], items[k].game) = WithGame(es[i], items[k].game)
    BY <2>4, WithTwice
  <2>8. j \in 0..Len(es)
    BY <1>3
  <2>. HIDE DEF j
  <2>9. f[k] = IF j = 0 THEN e ELSE [e EXCEPT ![j] = as[<<k, j>>]]
    <3>1. CASE j = 0
      BY <2>2, <2>6, <3>1 DEF PutGame
    <3>2. CASE j # 0
      <4>1. f[k] = [e EXCEPT ![j] = WithGame(e[j], items[k].game)]
        BY <2>2, <2>6, <3>2 DEF PutGame, WithGame
      <4>2. j \in 1..Len(es)
        BY <1>2, <2>8, <3>2
      <4>3. WithGame(e[j], items[k].game) = as[<<k, j>>]
        BY <1>4, <2>7, <4>2
      <4>. QED BY <3>2, <4>1, <4>3
    <3>. QED BY <3>1, <3>2
  <2>10. Redone(f[k], es, Row, ix, as, k)
    BY <1>3, <1>5, <2>1, <2>9, RedoneStep DEF j
  <2>11. k \in 0..n
    OBVIOUS
  <2>. QED BY <2>10, <2>11
<1>8. n \in Good
  <2>. HIDE DEF Good
  <2>. QED BY <1>6, <1>7, StepByStep
<1>9. Redone(new, es, Row, ix, as, n)
  BY <1>1, <1>8
<1>. HIDE DEF Good
<1>10. ASSUME NEW i \in 1..Len(es)
       PROVE  \/ new[i] = es[i] /\ \A k \in 1..n : IndexBySid(es, items[k].sid) # i
              \/ \E k \in 1..n : /\ IndexBySid(es, items[k].sid) = i
                                /\ new[i] = WithGame(es[i], items[k].game)
  <2>1. \/ new[i] = es[i] /\ \A m \in 1..n : ix[m] # i
        \/ \E m \in 1..n : ix[m] = i /\ new[i] = as[<<m, i>>]
    BY <1>9, <1>10 DEF Redone
  <2>. QED BY <1>3, <1>4, <2>1
<1>. QED BY <1>9, <1>10 DEF Redone

Games2Steps(f, es, items, n) ==
  /\ f[0] = es /\ f[n] = SecondGames(es, items)
  /\ \A k \in 1..n : f[k] = PutGame2(f[k - 1], items[k])

LEMMA PutGame2Type ==
  ASSUME NEW es \in Seq(Row), NEW item, item.game \in Games \union {0}
  PROVE  PutGame2(es, item) \in Seq(Row)
<1> DEFINE i == IndexBySid(es, item.sid)
<1>1. Len(es) \in Nat
  BY LenProperties
<1>2. i \in 0..Len(es)
  BY <1>1, LookUpRange
<1>3. CASE i = 0
  BY <1>3 DEF PutGame2
<1>4. CASE i # 0
  <2>1. PutGame2(es, item) = [es EXCEPT ![i] = WithGame2(es[i], item.game)]
    BY <1>4 DEF PutGame2, WithGame2
  <2>2. i \in 1..Len(es)
    BY <1>1, <1>2, <1>4
  <2>. HIDE DEF i
  <2>3. es[i] \in Row
    BY <2>2, ElementOfSeq
  <2>4. WithGame2(es[i], item.game) \in Row
    BY <2>3, WithFacts
  <2>. QED BY <2>1, <2>2, <2>4, ExceptSeq
<1>. QED BY <1>3, <1>4

LEMMA Games2Run ==
  ASSUME NEW es \in Seq(Row), NEW n \in Nat, NEW items, GameItems(items, n)
  PROVE  \E f : Games2Steps(f, es, items, n)
<1>0. DOMAIN items = 1..n /\ \A k \in 1..n : items[k].game \in Games \union {0}
  BY DEF GameItems
<1> DEFINE T == Seq(Row)
           D == DOMAIN items
           Fix(g) == g = [s \in SUBSET D |->
                            IF s = {} THEN es ELSE PutGame2(g[s \ {Max(s)}], items[Max(s)])]
           h == CHOOSE g : Fix(g)
<1>1. SecondGames(es, items) = h[D]
  BY DEF SecondGames, UpdateGames, FoldLeft, MapThenFoldSet, PutGame2
<1>2. D = 1..n
  BY <1>0
<1>. HIDE DEF D
<1>3. ASSUME NEW e \in T, NEW k \in 1..n
      PROVE  PutGame2(e, items[k]) \in T
  BY <1>0, <1>3, PutGame2Type
<1> DEFINE F == [x \in T \X (1..n) |-> PutGame2(x[1], items[x[2]])]
<1>4. F \in [T \X (1..n) -> T]
  BY <1>3
<1>5. \A e \in T, k \in 1..n : F[<<e, k>>] = PutGame2(e, items[k])
  OBVIOUS
<1>6. es \in T
  OBVIOUS
<1>. HIDE DEF T, F
<1>7. PICK g \in [SUBSET (1..n) -> T] : FoldsUp(g, es, F, n)
  BY ONLY <1>4, <1>6, n \in Nat, FoldExists
<1>8. ASSUME NEW s \in SUBSET (1..n)
      PROVE  g[s] = IF s = {} THEN es ELSE PutGame2(g[s \ {Max(s)}], items[Max(s)])
  <2>0. g[s] = IF s = {} THEN es ELSE F[<<g[s \ {Max(s)}], Max(s)>>]
    BY <1>7, <1>8 DEF FoldsUp
  <2>1. CASE s = {}
    BY <2>0, <2>1
  <2>2. CASE s # {}
    <3>1. s \in SUBSET Nat /\ \A k \in s : k <= n
      OBVIOUS
    <3>2. Max(s) \in s
      BY <2>2, <3>1, GreatestOfNat
    <3>3. Max(s) \in 1..n /\ g[s \ {Max(s)}] \in T
      BY <3>2, <1>7
    <3>. QED BY <1>5, <2>0, <2>2, <3>3
  <2>. QED BY <2>1, <2>2
<1>9. Fix(g)
  BY ONLY <1>2, <1>7, <1>8
<1>10. Fix(h)
  BY <1>9
<1>. HIDE DEF h
<1>11. \A s \in SUBSET (1..n) :
         h[s] = IF s = {} THEN es ELSE PutGame2(h[s \ {Max(s)}], items[Max(s)])
  BY ONLY <1>2, <1>10
<1> DEFINE f == [k \in 0..n |-> h[1..k]]
<1>12. \A k \in 0..n : f[k] = h[1..k] /\ 1..k \in SUBSET (1..n)
  OBVIOUS
<1>. HIDE DEF f
<1>13. f[0] = es
  <2>1. 0 \in 0..n /\ 1..0 = {}
    OBVIOUS
  <2>. QED BY <1>11, <1>12, <2>1
<1>14. f[n] = SecondGames(es, items)
  <2>1. n \in 0..n
    OBVIOUS
  <2>. QED BY <1>1, <1>2, <1>12, <2>1
<1>15. ASSUME NEW k \in 1..n
       PROVE  f[k] = PutGame2(f[k - 1], items[k])
  <2>1. k \in 0..n /\ k - 1 \in 0..n /\ k \in Nat \ {0}
    OBVIOUS
  <2>2. 1..k # {} /\ Max(1..k) = k /\ (1..k) \ {k} = 1..(k - 1)
    BY <2>1, TopOfInterval
  <2>3. h[1..k] = PutGame2(h[1..(k - 1)], items[k])
    BY <1>11, <1>12, <2>1, <2>2
  <2>. QED BY <1>12, <2>1, <2>3
<1>. QED BY <1>13, <1>14, <1>15 DEF Games2Steps

LEMMA Games2Effect ==
  ASSUME NEW es \in Seq(Row), NEW n \in Nat, NEW items, GameItems(items, n),
         NEW new, new = SecondGames(es, items)
  PROVE  /\ new \in Seq(Row) /\ Len(new) = Len(es)
         /\ \A i \in 1..Len(es) :
              \/ new[i] = es[i] /\ \A k \in 1..n : IndexBySid(es, items[k].sid) # i
              \/ \E k \in 1..n : /\ IndexBySid(es, items[k].sid) = i
                                /\ new[i] = WithGame2(es[i], items[k].game)
<1>0. PICK f : Games2Steps(f, es, items, n)
  BY Games2Run
<1>1. /\ f[0] = es /\ f[n] = new
      /\ \A k \in 1..n : f[k] = PutGame2(f[k - 1], items[k])
  BY <1>0 DEF Games2Steps
<1>16. \A k \in 1..n : items[k].game \in Games \union {0}
  BY DEF GameItems
<1> DEFINE ix == [k \in 1..n |-> IndexBySid(es, items[k].sid)]
           as == [x \in (1..n) \X (1..Len(es)) |-> WithGame2(es[x[2]], items[x[1]].game)]
           Good == {k \in 0..n : Redone(f[k], es, Row, ix, as, k)}
<1>2. Len(es) \in Nat /\ \A i \in 1..Len(es) : es[i] \in Row
  BY LenProperties, ElementOfSeq
<1>3. ix \in [1..n -> 0..Len(es)] /\ \A k \in 1..n : ix[k] = IndexBySid(es, items[k].sid)
  BY <1>2, LookUpRange
<1>4. \A m \in 1..n, i \in 1..Len(es) : as[<<m, i>>] = WithGame2(es[i], items[m].game)
  OBVIOUS
<1>5. \A m \in 1..n, i \in 1..Len(es) : as[<<m, i>>] \in Row
  BY <1>2, <1>4, <1>16, WithFacts
<1>. HIDE DEF ix, as
<1>6. 0 \in Good
  <2>1. Redone(es, es, Row, ix, as, 0)
    BY RedoneFirst
  <2>2. 0 \in 0..n
    OBVIOUS
  <2>. QED BY <1>1, <2>1, <2>2
<1>7. ASSUME NEW k \in 1..n, k - 1 \in Good
      PROVE  k \in Good
  <2> DEFINE e == f[k - 1]
             j == ix[k]
  <2>1. Redone(e, es, Row, ix, as, k - 1)
    BY <1>7
  <2>2. f[k] = PutGame2(e, items[k])
    BY <1>1
  <2>. HIDE DEF e
  <2>3. e \in Seq(Row) /\ Len(e) = Len(es)
    BY <2>1 DEF Redone
  <2>4. ASSUME NEW i \in 1..Len(es)
        PROVE  \/ e[i] = es[i]
               \/ \E m \in 1..n : e[i] = WithGame2(es[i], items[m].game)
    <3>1. 1..(k - 1) \subseteq 1..n
      OBVIOUS
    <3>2. \/ e[i] = es[i] /\ \A m \in 1..(k - 1) : ix[m] # i
          \/ \E m \in 1..(k - 1) : ix[m] = i /\ e[i] = as[<<m, i>>]
      BY <2>1, <2>4 DEF Redone
    <3>. QED BY <1>4, <3>1, <3>2
  <2>5. ASSUME NEW i \in 1..Len(es)
        PROVE  e[i].sid = es[i].sid
    <3>1. ASSUME NEW m \in 1..n, e[i] = WithGame2(es[i], items[m].game)
          PROVE  e[i].sid = es[i].sid
      BY <1>2, <1>16, <3>1, WithFacts
    <3>. QED BY <2>4, <3>1
  <2>6. IndexBySid(e, items[k].sid) = j
    <3>1. Len(e) \in Nat /\ Len(e) = Len(es)
      BY <1>2, <2>3
    <3>. QED BY <1>3, <2>5, <3>1, SameLookUps
  <2>7. \A i \in 1..Len(es) : WithGame2(e[i], items[k].game) = WithGame2(es[i], items[k].game)
    BY <2>4, WithTwice
  <2>8. j \in 0..Len(es)
    BY <1>3
  <2>. HIDE DEF j
  <2>9. f[k] = IF j = 0 THEN e ELSE [e EXCEPT ![j] = as[<<k, j>>]]
    <3>1. CASE j = 0
      BY <2>2, <2>6, <3>1 DEF PutGame2
    <3>2. CASE j # 0
      <4>1. f[k] = [e EXCEPT ![j] = WithGame2(e[j], items[k].game)]
        BY <2>2, <2>6, <3>2 DEF PutGame2, WithGame2
      <4>2. j \in 1..Len(es)
        BY <1>2, <2>8, <3>2
      <4>3. WithGame2(e[j], items[k].game) = as[<<k, j>>]
        BY <1>4, <2>7, <4>2
      <4>. QED BY <3>2, <4>1, <4>3
    <3>. QED BY <3>1, <3>2
  <2>10. Redone(f[k], es, Row, ix, as, k)
    BY <1>3, <1>5, <2>1, <2>9, RedoneStep DEF j
  <2>11. k \in 0..n
    OBVIOUS
  <2>. QED BY <2>10, <2>11
<1>8. n \in Good
  <2>. HIDE DEF Good
  <2>. QED BY <1>6, <1>7, StepByStep
<1>9. Redone(new, es, Row, ix, as, n)
  BY <1>1, <1>8
<1>. HIDE DEF Good
<1>10. ASSUME NEW i \in 1..Len(es)
       PROVE  \/ new[i] = es[i] /\ \A k \in 1..n : IndexBySid(es, items[k].sid) # i
              \/ \E k \in 1..n : /\ IndexBySid(es, items[k].sid) = i
                                /\ new[i] = WithGame2(es[i], items[k].game)
  <2>1. \/ new[i] = es[i] /\ \A m \in 1..n : ix[m] # i
        \/ \E m \in 1..n : ix[m] = i /\ new[i] = as[<<m, i>>]
    BY <1>9, <1>10 DEF Redone
  <2>. QED BY <1>3, <1>4, <2>1
<1>. QED BY <1>9, <1>10 DEF Redone

HeardSteps(f, es, items, n) ==
  /\ f[0] = es /\ f[n] = ReceivedBuddyListOnline(es, items)
  /\ \A k \in 1..n : f[k] = PutFriendSid(f[k - 1], items[k])

LEMMA PutFriendSidType ==
  ASSUME NEW es \in Seq(JRow), NEW item, item.sid \in 0..MaxSid
  PROVE  PutFriendSid(es, item) \in Seq(JRow)
<1> DEFINE i == FriendByUserId(es, item.id)
<1>1. Len(es) \in Nat
  BY LenProperties
<1>2. i \in 0..Len(es)
  BY <1>1, LookUpRange
<1>3. CASE i = 0
  BY <1>3 DEF PutFriendSid
<1>4. CASE i # 0
  <2>1. PutFriendSid(es, item) = [es EXCEPT ![i] = WithSid(es[i], item.sid)]
    BY <1>4 DEF PutFriendSid, WithSid
  <2>2. i \in 1..Len(es)
    BY <1>1, <1>2, <1>4
  <2>. HIDE DEF i
  <2>3. es[i] \in JRow
    BY <2>2, ElementOfSeq
  <2>4. WithSid(es[i], item.sid) \in JRow
    BY <2>3, WithFactsOfFriends
  <2>. QED BY <2>1, <2>2, <2>4, ExceptSeq
<1>. QED BY <1>3, <1>4

LEMMA HeardRun ==
  ASSUME NEW es \in Seq(JRow), NEW n \in Nat, NEW items, SidItems(items, n)
  PROVE  \E f : HeardSteps(f, es, items, n)
<1>0. DOMAIN items = 1..n /\ \A k \in 1..n : items[k].sid \in 0..MaxSid
  BY DEF SidItems
<1> DEFINE T == Seq(JRow)
           D == DOMAIN items
           Fix(g) == g = [s \in SUBSET D |->
                            IF s = {} THEN es ELSE PutFriendSid(g[s \ {Max(s)}], items[Max(s)])]
           h == CHOOSE g : Fix(g)
<1>1. ReceivedBuddyListOnline(es, items) = h[D]
  BY DEF ReceivedBuddyListOnline, FoldLeft, MapThenFoldSet, PutFriendSid
<1>2. D = 1..n
  BY <1>0
<1>. HIDE DEF D
<1>3. ASSUME NEW e \in T, NEW k \in 1..n
      PROVE  PutFriendSid(e, items[k]) \in T
  BY <1>0, <1>3, PutFriendSidType
<1> DEFINE F == [x \in T \X (1..n) |-> PutFriendSid(x[1], items[x[2]])]
<1>4. F \in [T \X (1..n) -> T]
  BY <1>3
<1>5. \A e \in T, k \in 1..n : F[<<e, k>>] = PutFriendSid(e, items[k])
  OBVIOUS
<1>6. es \in T
  OBVIOUS
<1>. HIDE DEF T, F
<1>7. PICK g \in [SUBSET (1..n) -> T] : FoldsUp(g, es, F, n)
  BY ONLY <1>4, <1>6, n \in Nat, FoldExists
<1>8. ASSUME NEW s \in SUBSET (1..n)
      PROVE  g[s] = IF s = {} THEN es ELSE PutFriendSid(g[s \ {Max(s)}], items[Max(s)])
  <2>0. g[s] = IF s = {} THEN es ELSE F[<<g[s \ {Max(s)}], Max(s)>>]
    BY <1>7, <1>8 DEF FoldsUp
  <2>1. CASE s = {}
    BY <2>0, <2>1
  <2>2. CASE s # {}
    <3>1. s \in SUBSET Nat /\ \A k \in s : k <= n
      OBVIOUS
    <3>2. Max(s) \in s
      BY <2>2, <3>1, GreatestOfNat
    <3>3. Max(s) \in 1..n /\ g[s \ {Max(s)}] \in T
      BY <3>2, <1>7
    <3>. QED BY <1>5, <2>0, <2>2, <3>3
  <2>. QED BY <2>1, <2>2
<1>9. Fix(g)
  BY ONLY <1>2, <1>7, <1>8
<1>10. Fix(h)
  BY <1>9
<1>. HIDE DEF h
<1>11. \A s \in SUBSET (1..n) :
         h[s] = IF s = {} THEN es ELSE PutFriendSid(h[s \ {Max(s)}], items[Max(s)])
  BY ONLY <1>2, <1>10
<1> DEFINE f == [k \in 0..n |-> h[1..k]]
<1>12. \A k \in 0..n : f[k] = h[1..k] /\ 1..k \in SUBSET (1..n)
  OBVIOUS
<1>. HIDE DEF f
<1>13. f[0] = es
  <2>1. 0 \in 0..n /\ 1..0 = {}
    OBVIOUS
  <2>. QED BY <1>11, <1>12, <2>1
<1>14. f[n] = ReceivedBuddyListOnline(es, items)
  <2>1. n \in 0..n
    OBVIOUS
  <2>. QED BY <1>1, <1>2, <1>12, <2>1
<1>15. ASSUME NEW k \in 1..n
       PROVE  f[k] = PutFriendSid(f[k - 1], items[k])
  <2>1. k \in 0..n /\ k - 1 \in 0..n /\ k \in Nat \ {0}
    OBVIOUS
  <2>2. 1..k # {} /\ Max(1..k) = k /\ (1..k) \ {k} = 1..(k - 1)
    BY <2>1, TopOfInterval
  <2>3. h[1..k] = PutFriendSid(h[1..(k - 1)], items[k])
    BY <1>11, <1>12, <2>1, <2>2
  <2>. QED BY <1>12, <2>1, <2>3
<1>. QED BY <1>13, <1>14, <1>15 DEF HeardSteps

LEMMA HeardEffect ==
  ASSUME NEW es \in Seq(JRow), NEW n \in Nat, NEW items, SidItems(items, n),
         NEW new, new = ReceivedBuddyListOnline(es, items)
  PROVE  /\ new \in Seq(JRow) /\ Len(new) = Len(es)
         /\ \A i \in 1..Len(es) :
              \/ new[i] = es[i] /\ \A k \in 1..n : FriendByUserId(es, items[k].id) # i
              \/ \E k \in 1..n : /\ FriendByUserId(es, items[k].id) = i
                                /\ new[i] = WithSid(es[i], items[k].sid)
<1>0. PICK f : HeardSteps(f, es, items, n)
  BY HeardRun
<1>1. /\ f[0] = es /\ f[n] = new
      /\ \A k \in 1..n : f[k] = PutFriendSid(f[k - 1], items[k])
  BY <1>0 DEF HeardSteps
<1>16. \A k \in 1..n : items[k].sid \in 0..MaxSid
  BY DEF SidItems
<1> DEFINE ix == [k \in 1..n |-> FriendByUserId(es, items[k].id)]
           as == [x \in (1..n) \X (1..Len(es)) |-> WithSid(es[x[2]], items[x[1]].sid)]
           Good == {k \in 0..n : Redone(f[k], es, JRow, ix, as, k)}
<1>2. Len(es) \in Nat /\ \A i \in 1..Len(es) : es[i] \in JRow
  BY LenProperties, ElementOfSeq
<1>3. ix \in [1..n -> 0..Len(es)] /\ \A k \in 1..n : ix[k] = FriendByUserId(es, items[k].id)
  BY <1>2, LookUpRange
<1>4. \A m \in 1..n, i \in 1..Len(es) : as[<<m, i>>] = WithSid(es[i], items[m].sid)
  OBVIOUS
<1>5. \A m \in 1..n, i \in 1..Len(es) : as[<<m, i>>] \in JRow
  BY <1>2, <1>4, <1>16, WithFactsOfFriends
<1>. HIDE DEF ix, as
<1>6. 0 \in Good
  <2>1. Redone(es, es, JRow, ix, as, 0)
    BY RedoneFirst
  <2>2. 0 \in 0..n
    OBVIOUS
  <2>. QED BY <1>1, <2>1, <2>2
<1>7. ASSUME NEW k \in 1..n, k - 1 \in Good
      PROVE  k \in Good
  <2> DEFINE e == f[k - 1]
             j == ix[k]
  <2>1. Redone(e, es, JRow, ix, as, k - 1)
    BY <1>7
  <2>2. f[k] = PutFriendSid(e, items[k])
    BY <1>1
  <2>. HIDE DEF e
  <2>3. e \in Seq(JRow) /\ Len(e) = Len(es)
    BY <2>1 DEF Redone
  <2>4. ASSUME NEW i \in 1..Len(es)
        PROVE  \/ e[i] = es[i]
               \/ \E m \in 1..n : e[i] = WithSid(es[i], items[m].sid)
    <3>1. 1..(k - 1) \subseteq 1..n
      OBVIOUS
    <3>2. \/ e[i] = es[i] /\ \A m \in 1..(k - 1) : ix[m] # i
          \/ \E m \in 1..(k - 1) : ix[m] = i /\ e[i] = as[<<m, i>>]
      BY <2>1, <2>4 DEF Redone
    <3>. QED BY <1>4, <3>1, <3>2
  <2>5. ASSUME NEW i \in 1..Len(es)
        PROVE  e[i].userid = es[i].userid
    <3>1. ASSUME NEW m \in 1..n, e[i] = WithSid(es[i], items[m].sid)
          PROVE  e[i].userid = es[i].userid
      BY <1>2, <1>16, <3>1, WithFactsOfFriends
    <3>. QED BY <2>4, <3>1
  <2>6. FriendByUserId(e, items[k].id) = j
    <3>1. Len(e) \in Nat /\ Len(e) = Len(es)
      BY <1>2, <2>3
    <3>. QED BY <1>3, <2>5, <3>1, SameLookUps
  <2>7. \A i \in 1..Len(es) : WithSid(e[i], items[k].sid) = WithSid(es[i], items[k].sid)
    BY <2>4, WithTwice
  <2>8. j \in 0..Len(es)
    BY <1>3
  <2>. HIDE DEF j
  <2>9. f[k] = IF j = 0 THEN e ELSE [e EXCEPT ![j] = as[<<k, j>>]]
    <3>1. CASE j = 0
      BY <2>2, <2>6, <3>1 DEF PutFriendSid
    <3>2. CASE j # 0
      <4>1. f[k] = [e EXCEPT ![j] = WithSid(e[j], items[k].sid)]
        BY <2>2, <2>6, <3>2 DEF PutFriendSid, WithSid
      <4>2. j \in 1..Len(es)
        BY <1>2, <2>8, <3>2
      <4>3. WithSid(e[j], items[k].sid) = as[<<k, j>>]
        BY <1>4, <2>7, <4>2
      <4>. QED BY <3>2, <4>1, <4>3
    <3>. QED BY <3>1, <3>2
  <2>10. Redone(f[k], es, JRow, ix, as, k)
    BY <1>3, <1>5, <2>1, <2>9, RedoneStep DEF j
  <2>11. k \in 0..n
    OBVIOUS
  <2>. QED BY <2>10, <2>11
<1>8. n \in Good
  <2>. HIDE DEF Good
  <2>. QED BY <1>6, <1>7, StepByStep
<1>9. Redone(new, es, JRow, ix, as, n)
  BY <1>1, <1>8
<1>. HIDE DEF Good
<1>10. ASSUME NEW i \in 1..Len(es)
       PROVE  \/ new[i] = es[i] /\ \A k \in 1..n : FriendByUserId(es, items[k].id) # i
              \/ \E k \in 1..n : /\ FriendByUserId(es, items[k].id) = i
                                /\ new[i] = WithSid(es[i], items[k].sid)
  <2>1. \/ new[i] = es[i] /\ \A m \in 1..n : ix[m] # i
        \/ \E m \in 1..n : ix[m] = i /\ new[i] = as[<<m, i>>]
    BY <1>9, <1>10 DEF Redone
  <2>. QED BY <1>3, <1>4, <2>1
<1>. QED BY <1>9, <1>10 DEF Redone

HeardWordsSteps(f, es, items, n) ==
  /\ f[0] = es /\ f[n] = ReceivedStatusMessage(es, items)
  /\ \A k \in 1..n : f[k] = PutMessage(f[k - 1], items[k])

LEMMA PutMessageType ==
  ASSUME NEW es \in Seq(JRow), NEW item, item.msg \in Statuses
  PROVE  PutMessage(es, item) \in Seq(JRow)
<1> DEFINE i == FriendBySid(es, item.sid)
<1>1. Len(es) \in Nat
  BY LenProperties
<1>2. i \in 0..Len(es)
  BY <1>1, LookUpRange
<1>3. CASE i = 0
  BY <1>3 DEF PutMessage
<1>4. CASE i # 0
  <2>1. PutMessage(es, item) = [es EXCEPT ![i] = WithMessage(es[i], item.msg)]
    BY <1>4 DEF PutMessage, WithMessage
  <2>2. i \in 1..Len(es)
    BY <1>1, <1>2, <1>4
  <2>. HIDE DEF i
  <2>3. es[i] \in JRow
    BY <2>2, ElementOfSeq
  <2>4. WithMessage(es[i], item.msg) \in JRow
    BY <2>3, WithFactsOfFriends
  <2>. QED BY <2>1, <2>2, <2>4, ExceptSeq
<1>. QED BY <1>3, <1>4

LEMMA HeardWordsRun ==
  ASSUME NEW es \in Seq(JRow), NEW n \in Nat, NEW items, WordItems(items, n)
  PROVE  \E f : HeardWordsSteps(f, es, items, n)
<1>0. DOMAIN items = 1..n /\ \A k \in 1..n : items[k].msg \in Statuses
  BY DEF WordItems
<1> DEFINE T == Seq(JRow)
           D == DOMAIN items
           Fix(g) == g = [s \in SUBSET D |->
                            IF s = {} THEN es ELSE PutMessage(g[s \ {Max(s)}], items[Max(s)])]
           h == CHOOSE g : Fix(g)
<1>1. ReceivedStatusMessage(es, items) = h[D]
  BY DEF ReceivedStatusMessage, FoldLeft, MapThenFoldSet, PutMessage
<1>2. D = 1..n
  BY <1>0
<1>. HIDE DEF D
<1>3. ASSUME NEW e \in T, NEW k \in 1..n
      PROVE  PutMessage(e, items[k]) \in T
  BY <1>0, <1>3, PutMessageType
<1> DEFINE F == [x \in T \X (1..n) |-> PutMessage(x[1], items[x[2]])]
<1>4. F \in [T \X (1..n) -> T]
  BY <1>3
<1>5. \A e \in T, k \in 1..n : F[<<e, k>>] = PutMessage(e, items[k])
  OBVIOUS
<1>6. es \in T
  OBVIOUS
<1>. HIDE DEF T, F
<1>7. PICK g \in [SUBSET (1..n) -> T] : FoldsUp(g, es, F, n)
  BY ONLY <1>4, <1>6, n \in Nat, FoldExists
<1>8. ASSUME NEW s \in SUBSET (1..n)
      PROVE  g[s] = IF s = {} THEN es ELSE PutMessage(g[s \ {Max(s)}], items[Max(s)])
  <2>0. g[s] = IF s = {} THEN es ELSE F[<<g[s \ {Max(s)}], Max(s)>>]
    BY <1>7, <1>8 DEF FoldsUp
  <2>1. CASE s = {}
    BY <2>0, <2>1
  <2>2. CASE s # {}
    <3>1. s \in SUBSET Nat /\ \A k \in s : k <= n
      OBVIOUS
    <3>2. Max(s) \in s
      BY <2>2, <3>1, GreatestOfNat
    <3>3. Max(s) \in 1..n /\ g[s \ {Max(s)}] \in T
      BY <3>2, <1>7
    <3>. QED BY <1>5, <2>0, <2>2, <3>3
  <2>. QED BY <2>1, <2>2
<1>9. Fix(g)
  BY ONLY <1>2, <1>7, <1>8
<1>10. Fix(h)
  BY <1>9
<1>. HIDE DEF h
<1>11. \A s \in SUBSET (1..n) :
         h[s] = IF s = {} THEN es ELSE PutMessage(h[s \ {Max(s)}], items[Max(s)])
  BY ONLY <1>2, <1>10
<1> DEFINE f == [k \in 0..n |-> h[1..k]]
<1>12. \A k \in 0..n : f[k] = h[1..k] /\ 1..k \in SUBSET (1..n)
  OBVIOUS
<1>. HIDE DEF f
<1>13. f[0] = es
  <2>1. 0 \in 0..n /\ 1..0 = {}
    OBVIOUS
  <2>. QED BY <1>11, <1>12, <2>1
<1>14. f[n] = ReceivedStatusMessage(es, items)
  <2>1. n \in 0..n
    OBVIOUS
  <2>. QED BY <1>1, <1>2, <1>12, <2>1
<1>15. ASSUME NEW k \in 1..n
       PROVE  f[k] = PutMessage(f[k - 1], items[k])
  <2>1. k \in 0..n /\ k - 1 \in 0..n /\ k \in Nat \ {0}
    OBVIOUS
  <2>2. 1..k # {} /\ Max(1..k) = k /\ (1..k) \ {k} = 1..(k - 1)
    BY <2>1, TopOfInterval
  <2>3. h[1..k] = PutMessage(h[1..(k - 1)], items[k])
    BY <1>11, <1>12, <2>1, <2>2
  <2>. QED BY <1>12, <2>1, <2>3
<1>. QED BY <1>13, <1>14, <1>15 DEF HeardWordsSteps

LEMMA HeardWordsEffect ==
  ASSUME NEW es \in Seq(JRow), NEW n \in Nat, NEW items, WordItems(items, n),
         NEW new, new = ReceivedStatusMessage(es, items)
  PROVE  /\ new \in Seq(JRow) /\ Len(new) = Len(es)
         /\ \A i \in 1..Len(es) :
              \/ new[i] = es[i] /\ \A k \in 1..n : FriendBySid(es, items[k].sid) # i
              \/ \E k \in 1..n : /\ FriendBySid(es, items[k].sid) = i
                                /\ new[i] = WithMessage(es[i], items[k].msg)
<1>0. PICK f : HeardWordsSteps(f, es, items, n)
  BY HeardWordsRun
<1>1. /\ f[0] = es /\ f[n] = new
      /\ \A k \in 1..n : f[k] = PutMessage(f[k - 1], items[k])
  BY <1>0 DEF HeardWordsSteps
<1>16. \A k \in 1..n : items[k].msg \in Statuses
  BY DEF WordItems
<1> DEFINE ix == [k \in 1..n |-> FriendBySid(es, items[k].sid)]
           as == [x \in (1..n) \X (1..Len(es)) |-> WithMessage(es[x[2]], items[x[1]].msg)]
           Good == {k \in 0..n : Redone(f[k], es, JRow, ix, as, k)}
<1>2. Len(es) \in Nat /\ \A i \in 1..Len(es) : es[i] \in JRow
  BY LenProperties, ElementOfSeq
<1>3. ix \in [1..n -> 0..Len(es)] /\ \A k \in 1..n : ix[k] = FriendBySid(es, items[k].sid)
  BY <1>2, LookUpRange
<1>4. \A m \in 1..n, i \in 1..Len(es) : as[<<m, i>>] = WithMessage(es[i], items[m].msg)
  OBVIOUS
<1>5. \A m \in 1..n, i \in 1..Len(es) : as[<<m, i>>] \in JRow
  BY <1>2, <1>4, <1>16, WithFactsOfFriends
<1>. HIDE DEF ix, as
<1>6. 0 \in Good
  <2>1. Redone(es, es, JRow, ix, as, 0)
    BY RedoneFirst
  <2>2. 0 \in 0..n
    OBVIOUS
  <2>. QED BY <1>1, <2>1, <2>2
<1>7. ASSUME NEW k \in 1..n, k - 1 \in Good
      PROVE  k \in Good
  <2> DEFINE e == f[k - 1]
             j == ix[k]
  <2>1. Redone(e, es, JRow, ix, as, k - 1)
    BY <1>7
  <2>2. f[k] = PutMessage(e, items[k])
    BY <1>1
  <2>. HIDE DEF e
  <2>3. e \in Seq(JRow) /\ Len(e) = Len(es)
    BY <2>1 DEF Redone
  <2>4. ASSUME NEW i \in 1..Len(es)
        PROVE  \/ e[i] = es[i]
               \/ \E m \in 1..n : e[i] = WithMessage(es[i], items[m].msg)
    <3>1. 1..(k - 1) \subseteq 1..n
      OBVIOUS
    <3>2. \/ e[i] = es[i] /\ \A m \in 1..(k - 1) : ix[m] # i
          \/ \E m \in 1..(k - 1) : ix[m] = i /\ e[i] = as[<<m, i>>]
      BY <2>1, <2>4 DEF Redone
    <3>. QED BY <1>4, <3>1, <3>2
  <2>5. ASSUME NEW i \in 1..Len(es)
        PROVE  e[i].sid = es[i].sid
    <3>1. ASSUME NEW m \in 1..n, e[i] = WithMessage(es[i], items[m].msg)
          PROVE  e[i].sid = es[i].sid
      BY <1>2, <1>16, <3>1, WithFactsOfFriends
    <3>. QED BY <2>4, <3>1
  <2>6. FriendBySid(e, items[k].sid) = j
    <3>1. Len(e) \in Nat /\ Len(e) = Len(es)
      BY <1>2, <2>3
    <3>. QED BY <1>3, <2>5, <3>1, SameLookUps
  <2>7. \A i \in 1..Len(es) : WithMessage(e[i], items[k].msg) = WithMessage(es[i], items[k].msg)
    BY <2>4, WithTwice
  <2>8. j \in 0..Len(es)
    BY <1>3
  <2>. HIDE DEF j
  <2>9. f[k] = IF j = 0 THEN e ELSE [e EXCEPT ![j] = as[<<k, j>>]]
    <3>1. CASE j = 0
      BY <2>2, <2>6, <3>1 DEF PutMessage
    <3>2. CASE j # 0
      <4>1. f[k] = [e EXCEPT ![j] = WithMessage(e[j], items[k].msg)]
        BY <2>2, <2>6, <3>2 DEF PutMessage, WithMessage
      <4>2. j \in 1..Len(es)
        BY <1>2, <2>8, <3>2
      <4>3. WithMessage(e[j], items[k].msg) = as[<<k, j>>]
        BY <1>4, <2>7, <4>2
      <4>. QED BY <3>2, <4>1, <4>3
    <3>. QED BY <3>1, <3>2
  <2>10. Redone(f[k], es, JRow, ix, as, k)
    BY <1>3, <1>5, <2>1, <2>9, RedoneStep DEF j
  <2>11. k \in 0..n
    OBVIOUS
  <2>. QED BY <2>10, <2>11
<1>8. n \in Good
  <2>. HIDE DEF Good
  <2>. QED BY <1>6, <1>7, StepByStep
<1>9. Redone(new, es, JRow, ix, as, n)
  BY <1>1, <1>8
<1>. HIDE DEF Good
<1>10. ASSUME NEW i \in 1..Len(es)
       PROVE  \/ new[i] = es[i] /\ \A k \in 1..n : FriendBySid(es, items[k].sid) # i
              \/ \E k \in 1..n : /\ FriendBySid(es, items[k].sid) = i
                                /\ new[i] = WithMessage(es[i], items[k].msg)
  <2>1. \/ new[i] = es[i] /\ \A m \in 1..n : ix[m] # i
        \/ \E m \in 1..n : ix[m] = i /\ new[i] = as[<<m, i>>]
    BY <1>9, <1>10 DEF Redone
  <2>. QED BY <1>3, <1>4, <2>1
<1>. QED BY <1>9, <1>10 DEF Redone

HeardWords(new, fs, items, n) ==
  /\ new \in Seq(JRow) /\ Len(new) = Len(fs)
  /\ \A i \in 1..Len(fs) :
       \/ new[i] = fs[i] /\ \A k \in 1..n : FriendBySid(fs, items[k].sid) # i
       \/ \E k \in 1..n : /\ FriendBySid(fs, items[k].sid) = i
                         /\ new[i] = WithMessage(fs[i], items[k].msg)

LEMMA WordsAreHeard ==
  ASSUME NEW fs \in Seq(JRow), NEW n \in Nat, NEW items, WordItems(items, n)
  PROVE  HeardWords(ReceivedStatusMessage(fs, items), fs, items, n)
<1> DEFINE new == ReceivedStatusMessage(fs, items)
<1>. HIDE DEF new
<1>1. new = ReceivedStatusMessage(fs, items)
  BY DEF new
<1>. QED BY <1>1, HeardWordsEffect DEF HeardWords

\* The items before the first unknown session id.
KnownUpTo(es, items, m) ==
  /\ DOMAIN Known(es, items) = 1..m
  /\ \A k \in 1..m : Known(es, items)[k] = items[k] /\ IndexBySid(es, items[k].sid) # 0
  /\ m < Len(items) => IndexBySid(es, items[m + 1].sid) = 0

LEMMA KnownFacts ==
  ASSUME NEW S, NEW items \in Seq(S), NEW es
  PROVE  \E m \in 0..Len(items) : KnownUpTo(es, items, m)
<1> DEFINE n == Len(items)
           I == {k \in 1..n : IndexBySid(es, items[k].sid) = 0}
           stranger == IF I # {} THEN Min(I) ELSE 0
<1>1. n \in Nat /\ DOMAIN items = 1..n
  BY LenProperties
<1>2. Known(es, items) = IF stranger = 0 THEN items ELSE SubSeq(items, 1, stranger - 1)
  BY DEF Known, SelectInSeq
<1>3. I # {} => Min(I) \in I /\ \A k \in I : Min(I) <= k
  <2>1. I \in SUBSET Nat
    OBVIOUS
  <2>. QED BY <2>1, LeastOfNat
<1>4. CASE I = {}
  <2>1. Known(es, items) = items /\ \A k \in 1..n : IndexBySid(es, items[k].sid) # 0
    BY <1>2, <1>4
  <2>2. n \in 0..n /\ ~(n < n)
    BY <1>1
  <2>. QED BY <1>1, <2>1, <2>2 DEF KnownUpTo
<1>5. CASE I # {}
  <2> DEFINE m == stranger - 1
  <2>1. stranger \in I /\ \A k \in I : stranger <= k
    BY <1>3, <1>5
  <2>2. stranger \in 1..n /\ IndexBySid(es, items[stranger].sid) = 0
    BY <2>1
  <2>3. m \in 0..n /\ m + 1 = stranger /\ stranger # 0
    BY <1>1, <2>2
  <2>4. ASSUME NEW k \in 1..m
        PROVE  IndexBySid(es, items[k].sid) # 0
    <3>1. k \in 1..n /\ ~(stranger <= k)
      BY <1>1, <2>2
    <3>. QED BY <2>1, <3>1
  <2>5. Known(es, items) = SubSeq(items, 1, m)
    BY <1>2, <2>3
  <2>. HIDE DEF m, stranger
  <2>6. DOMAIN Known(es, items) = 1..m /\ \A k \in 1..m : Known(es, items)[k] = items[k]
    <3>1. /\ SubSeq(items, 1, m) \in Seq(S) /\ Len(SubSeq(items, 1, m)) = m
          /\ \A k \in 1..m : SubSeq(items, 1, m)[k] = items[k]
      BY <2>3, FrontFacts
    <3>2. DOMAIN SubSeq(items, 1, m) = 1..m
      BY <3>1, LenProperties
    <3>. QED BY <2>5, <3>1, <3>2
  <2>. QED BY <2>2, <2>3, <2>4, <2>6 DEF KnownUpTo
<1>. QED BY <1>4, <1>5

-----------------------------------------------------------------------------
(* Packets, of o's buddies; r gives each buddy's session id. *)

NamesPacket(o, n) ==
  [kind  |-> "names",
   items |-> [k \in 1..Len(o) |-> [name |-> o[k], id |-> UserId[o[k]], nick |-> n]]]
OnlinePacket(o, r) ==
  [kind |-> "online", items |-> [k \in 1..Len(o) |-> [id |-> UserId[o[k]], sid |-> r[o[k]]]]]
GamesPacket(o, r, g) ==
  [kind |-> "games", items |-> [k \in 1..Len(o) |-> [sid |-> r[o[k]], game |-> g]]]
Games2Packet(o, r, g) ==
  [kind |-> "games2", items |-> [k \in 1..Len(o) |-> [sid |-> r[o[k]], game |-> g]]]
StatusPacket(o, r, m) ==
  [kind |-> "status", items |-> [k \in 1..Len(o) |-> [sid |-> r[o[k]], msg |-> m]]]
NickPacket(b, n) == [kind |-> "nick", id |-> UserId[b], nick |-> n]
RemovedPacket(b) == [kind |-> "removed", id |-> UserId[b]]

Packets ==
  {NamesPacket(o, n) : o \in Seq(Buddy), n \in Nicks}
    \union {OnlinePacket(o, r) : o \in Seq(Buddy), r \in [Buddy -> 0..MaxSid]}
    \union {GamesPacket(o, r, g) : o \in Seq(Buddy), r \in [Buddy -> 0..MaxSid],
                              g \in Games \union {0}}
    \union {Games2Packet(o, r, g) : o \in Seq(Buddy), r \in [Buddy -> 0..MaxSid],
                               g \in Games \union {0}}
    \union {StatusPacket(o, r, m) : o \in Seq(Buddy), r \in [Buddy -> 0..(MaxSid + 1)],
                               m \in Statuses}
    \union {NickPacket(b, n) : b \in Buddy, n \in Nicks}
    \union {RemovedPacket(b) : b \in Buddy}

Among(b, o) == \E k \in 1..Len(o) : o[k] = b
-----------------------------------------------------------------------------
(* What the server knows, and what its packets tell of it. *)

Views == [truth : [Buddy -> Person], unheard : SUBSET Buddy, last : 0..MaxSid]

\* Session ids are given to friends, to each his own, one after another.
SoundViews ==
  {V \in Views :
     /\ \A b \in Buddy : V.truth[b].sid # NoSid =>
                           V.truth[b].friend /\ V.truth[b].sid <= V.last
     /\ \A b, c \in Buddy : V.truth[b].sid # NoSid /\ V.truth[b].sid = V.truth[c].sid => b = c}

\* What becomes of one buddy.
Befriended(n) == [Unknown EXCEPT !.friend = TRUE, !.nick = n]
Moved(t, s) == [t EXCEPT !.sid = s, !.said = NoText, !.game = 0, !.game2 = 0]
Said(t, m) == [t EXCEPT !.said = m]
Played(t, g) == [t EXCEPT !.game = g]
Talked(t, g) == [t EXCEPT !.game2 = g]
Renamed(t, n) == [t EXCEPT !.nick = n]

\* The session ids that a status packet gives.
SidOf(V) == [b \in Buddy |-> V.truth[b].sid]
SidOrStrange(V) == [b \in Buddy |-> IF V.truth[b].friend THEN V.truth[b].sid ELSE MaxSid + 1]

\* Some stranger's status stands before b's, or at it.
Behind(V, o, b) ==
  \E m, k \in 1..Len(o) : o[k] = b /\ m <= k /\ ~V.truth[o[m]].friend

\* V's truth becomes W's, where b's becomes t.
Becomes(V, W, b, t) ==
  W.truth[b] = t /\ \A c \in Buddy : c # b => W.truth[c] = V.truth[c]

TellsNames(V, p, W) ==
  \E o \in Seq(Buddy), n \in Nicks :
    /\ p = NamesPacket(o, n)
    /\ \A k, m \in 1..Len(o) : o[k] = o[m] => k = m
    /\ \A k \in 1..Len(o) : ~V.truth[o[k]].friend
    /\ W.last = V.last /\ W.unheard = V.unheard
    /\ \A b \in Buddy : W.truth[b] = IF Among(b, o) THEN Befriended(n) ELSE V.truth[b]

TellsOnline(V, p, W) ==
  \E o \in Seq(Buddy), r \in [Buddy -> 0..MaxSid] :
    /\ p = OnlinePacket(o, r)
    /\ \A k \in 1..Len(o) : V.truth[o[k]].friend /\ (r[o[k]] # NoSid => V.last < r[o[k]])
    /\ V.last <= W.last
    /\ \A b \in Buddy :
         IF Among(b, o) THEN W.truth[b] = Moved(V.truth[b], r[b])
         ELSE W.truth[b] = V.truth[b] /\ (b \in W.unheard <=> b \in V.unheard)

TellsGames(V, p, W) ==
  \E o \in Seq(Buddy), g \in Games \union {0} :
    /\ p = GamesPacket(o, SidOf(V), g)
    /\ \A k \in 1..Len(o) : V.truth[o[k]].friend /\ V.truth[o[k]].sid # NoSid
    /\ W.last = V.last /\ W.unheard = V.unheard
    /\ \A b \in Buddy : W.truth[b] = IF Among(b, o) THEN Played(V.truth[b], g) ELSE V.truth[b]

TellsGames2(V, p, W) ==
  \E o \in Seq(Buddy), g \in Games \union {0} :
    /\ p = Games2Packet(o, SidOf(V), g)
    /\ \A k \in 1..Len(o) : V.truth[o[k]].friend /\ V.truth[o[k]].sid # NoSid
    /\ W.last = V.last /\ W.unheard = V.unheard
    /\ \A b \in Buddy : W.truth[b] = IF Among(b, o) THEN Talked(V.truth[b], g) ELSE V.truth[b]

TellsStatus(V, p, W) ==
  \E o \in Seq(Buddy), m \in Statuses :
    /\ p = StatusPacket(o, SidOrStrange(V), m)
    /\ \A k \in 1..Len(o) : V.truth[o[k]].friend => V.truth[o[k]].sid # NoSid
    /\ W.last = V.last
    /\ \A b \in Buddy :
         IF V.truth[b].friend /\ Among(b, o)
         THEN W.truth[b] = Said(V.truth[b], m) /\ (b \in W.unheard <=> Behind(V, o, b))
         ELSE W.truth[b] = V.truth[b] /\ (b \in W.unheard <=> b \in V.unheard)

TellsNick(V, p, W) ==
  \E b \in Buddy, n \in Nicks :
    /\ p = NickPacket(b, n) /\ V.truth[b].friend
    /\ W.last = V.last /\ W.unheard = V.unheard
    /\ Becomes(V, W, b, Renamed(V.truth[b], n))

TellsRemoved(V, p, W) ==
  \E b \in Buddy :
    /\ p = RemovedPacket(b) /\ V.truth[b].friend
    /\ W.last = V.last /\ Becomes(V, W, b, Unknown)
    /\ \A c \in Buddy : c # b => (c \in W.unheard <=> c \in V.unheard)

\* p makes W of V, and is a packet that a server sends that knows V.
Tells(V, p, W) ==
  \/ TellsNames(V, p, W) \/ TellsOnline(V, p, W) \/ TellsGames(V, p, W) \/ TellsGames2(V, p, W)
  \/ TellsStatus(V, p, W) \/ TellsNick(V, p, W) \/ TellsRemoved(V, p, W)

\* The packets q make W of V, one after another.
Path(V, q, W) ==
  \E v \in [0..Len(q) -> SoundViews] :
    /\ v[0] = V /\ v[Len(q)] = W
    /\ \A n \in 1..Len(q) : Tells(v[n - 1], q[n], v[n])
-----------------------------------------------------------------------------
(* What the two libraries' lists have in common with a view. *)

\* The row e is what V knows of b.
EntryFields(e, b, V) ==
  /\ V.truth[b].friend /\ e.userid = UserId[b]
  /\ e.nick = V.truth[b].nick /\ e.sid = V.truth[b].sid
  /\ V.truth[b].said # NoText /\ b \notin V.unheard => e.statusmsg = V.truth[b].said
  /\ V.truth[b].game # 0 => e.game = V.truth[b].game
  /\ V.truth[b].game2 # 0 => e.game2 = V.truth[b].game2
EntryRight(e, V) == EntryFields(e, e.username, V)

NamesOf(es) == {es[i].username : i \in 1..Len(es)}

\* xfirelib's entries are friends of V, once each, under their session ids.
Holds(es, V) ==
  /\ es \in Seq(Row)
  /\ \A i \in 1..Len(es) : /\ V.truth[es[i].username].friend
                           /\ es[i].userid = UserId[es[i].username]
                           /\ es[i].sid = V.truth[es[i].username].sid
  /\ \A i, k \in 1..Len(es) : es[i].username = es[k].username => i = k

\* p is what takes b away, and takes nobody else.
Forgets(es, new, p, b) ==
  /\ \/ p.kind = "removed" /\ p.id = UserId[b]
     \/ p.kind \in {"games", "games2"} /\ UserId[b] \in HeapWords
  /\ NamesOf(new) = NamesOf(es) \ {b}

\* ... and all the friends of V, with all that it knows of them.
Shows(es, V) ==
  /\ es \in Seq(Row)
  /\ \A i \in 1..Len(es) : EntryRight(es[i], V)
  /\ \A i, k \in 1..Len(es) : es[i].username = es[k].username => i = k
  /\ \A b \in Buddy : V.truth[b].friend => \E i \in 1..Len(es) : es[i].username = b

FirstNamed(fs, i, b) ==
  fs[i].name = b /\ \A k \in 1..Len(fs) : fs[k].name = b => i <= k

FriendRight(f, t) ==
  t.sid # NoSid => f.sid = t.sid /\ (t.said # NoText => f.statusMessage = t.said)

\* The Java library's list has the friends of V but those in E, beside whoever
\* was one: a session id stands in no other friend's place.
Hears(fs, V, E) ==
  /\ fs \in Seq(JRow)
  /\ \A i \in 1..Len(fs) : fs[i].userid = UserId[fs[i].name] /\ fs[i].sid <= V.last
  /\ \A i \in 1..Len(fs), b \in Buddy :
       V.truth[b].sid # NoSid /\ fs[i].sid = V.truth[b].sid => fs[i].name = b
  /\ \A b \in Buddy : V.truth[b].friend /\ b \notin E =>
       \E i \in 1..Len(fs) : FirstNamed(fs, i, b) /\ FriendRight(fs[i], V.truth[b])

NamesIn(fs) == {fs[i].name : i \in 1..Len(fs)}
-----------------------------------------------------------------------------
(* Facts about views and packets *)

LEMMA Ids ==
  /\ \A b \in Buddy : UserId[b] \in Nat
  /\ \A b, c \in Buddy : UserId[b] = UserId[c] => b = c
BY SyncAssumption

LEMMA UnknownFacts ==
  ASSUME NEW n \in Nicks
  PROVE  /\ Befriended(n) \in Person
         /\ Befriended(n).friend /\ Befriended(n).sid = NoSid /\ Befriended(n).nick = n
         /\ Befriended(n).said = NoText /\ Befriended(n).game = 0 /\ Befriended(n).game2 = 0
         /\ Unknown \in Person /\ ~Unknown.friend /\ Unknown.sid = NoSid
<1>1. 0 \in 0..MaxSid
  BY SyncAssumption
<1>2. Unknown = [friend |-> FALSE, sid |-> 0, nick |-> NoText, said |-> NoText,
                 game |-> 0, game2 |-> 0]
  BY DEF Unknown, NoSid
<1>3. Unknown \in Person
  BY <1>1, <1>2, SyncAssumption DEF Person
<1>4. ASSUME NEW t \in Person
      PROVE  LET u == [t EXCEPT !.friend = TRUE, !.nick = n]
             IN  /\ u \in Person /\ u.friend /\ u.sid = t.sid /\ u.nick = n
                 /\ u.said = t.said /\ u.game = t.game /\ u.game2 = t.game2
  BY DEF Person
<1>5. /\ ~Unknown.friend /\ Unknown.sid = NoSid /\ Unknown.said = NoText
      /\ Unknown.game = 0 /\ Unknown.game2 = 0
  BY <1>2 DEF NoSid
<1>6. /\ Befriended(n) \in Person /\ Befriended(n).friend
      /\ Befriended(n).sid = Unknown.sid /\ Befriended(n).nick = n
      /\ Befriended(n).said = Unknown.said /\ Befriended(n).game = Unknown.game
      /\ Befriended(n).game2 = Unknown.game2
  BY <1>3, <1>4 DEF Befriended
<1>. QED BY <1>3, <1>5, <1>6

LEMMA PersonFacts ==
  ASSUME NEW t \in Person
  PROVE  /\ \A s \in 0..MaxSid :
              LET u == Moved(t, s)
              IN  /\ u \in Person /\ u.friend = t.friend /\ u.nick = t.nick
                  /\ u.sid = s /\ u.said = NoText /\ u.game = 0 /\ u.game2 = 0
         /\ \A m \in Statuses :
              LET u == Said(t, m)
              IN  /\ u \in Person /\ u.friend = t.friend /\ u.nick = t.nick /\ u.sid = t.sid
                  /\ u.said = m /\ u.game = t.game /\ u.game2 = t.game2
         /\ \A g \in Games \union {0} :
              LET u == Played(t, g)
              IN  /\ u \in Person /\ u.friend = t.friend /\ u.nick = t.nick /\ u.sid = t.sid
                  /\ u.said = t.said /\ u.game = g /\ u.game2 = t.game2
         /\ \A g \in Games \union {0} :
              LET u == Talked(t, g)
              IN  /\ u \in Person /\ u.friend = t.friend /\ u.nick = t.nick /\ u.sid = t.sid
                  /\ u.said = t.said /\ u.game = t.game /\ u.game2 = g
         /\ \A n \in Nicks :
              LET u == Renamed(t, n)
              IN  /\ u \in Person /\ u.friend = t.friend /\ u.nick = n /\ u.sid = t.sid
                  /\ u.said = t.said /\ u.game = t.game /\ u.game2 = t.game2
<1>1. ASSUME NEW s \in 0..MaxSid
      PROVE  LET u == Moved(t, s)
             IN  /\ u \in Person /\ u.friend = t.friend /\ u.nick = t.nick
                 /\ u.sid = s /\ u.said = NoText /\ u.game = 0 /\ u.game2 = 0
  BY DEF Person, Moved
<1>2. ASSUME NEW m \in Statuses
      PROVE  LET u == Said(t, m)
             IN  /\ u \in Person /\ u.friend = t.friend /\ u.nick = t.nick /\ u.sid = t.sid
                 /\ u.said = m /\ u.game = t.game /\ u.game2 = t.game2
  BY DEF Person, Said
<1>3. ASSUME NEW g \in Games \union {0}
      PROVE  LET u == Played(t, g)
             IN  /\ u \in Person /\ u.friend = t.friend /\ u.nick = t.nick /\ u.sid = t.sid
                 /\ u.said = t.said /\ u.game = g /\ u.game2 = t.game2
  BY DEF Person, Played
<1>4. ASSUME NEW g \in Games \union {0}
      PROVE  LET u == Talked(t, g)
             IN  /\ u \in Person /\ u.friend = t.friend /\ u.nick = t.nick /\ u.sid = t.sid
                 /\ u.said = t.said /\ u.game = t.game /\ u.game2 = g
  BY DEF Person, Talked
<1>5. ASSUME NEW n \in Nicks
      PROVE  LET u == Renamed(t, n)
             IN  /\ u \in Person /\ u.friend = t.friend /\ u.nick = n /\ u.sid = t.sid
                 /\ u.said = t.said /\ u.game = t.game /\ u.game2 = t.game2
  BY DEF Person, Renamed
<1>. QED BY <1>1, <1>2, <1>3, <1>4, <1>5

LEMMA ViewFacts ==
  ASSUME NEW V \in SoundViews
  PROVE  /\ V.last \in 0..MaxSid /\ V.last \in Nat /\ V.unheard \subseteq Buddy
         /\ \A b \in Buddy :
              /\ V.truth[b] \in Person /\ V.truth[b].sid \in 0..MaxSid /\ V.truth[b].sid \in Nat
              /\ V.truth[b].friend \in BOOLEAN
              /\ V.truth[b].sid # NoSid => V.truth[b].friend /\ V.truth[b].sid <= V.last
         /\ \A b, c \in Buddy : V.truth[b].sid # NoSid /\ V.truth[b].sid = V.truth[c].sid => b = c
<1>1. /\ V \in Views
      /\ \A b \in Buddy : V.truth[b].sid # NoSid => V.truth[b].friend /\ V.truth[b].sid <= V.last
      /\ \A b, c \in Buddy : V.truth[b].sid # NoSid /\ V.truth[b].sid = V.truth[c].sid => b = c
  BY DEF SoundViews
<1>2. V.last \in 0..MaxSid /\ V.unheard \subseteq Buddy /\ V.truth \in [Buddy -> Person]
  BY <1>1 DEF Views
<1>3. V.last \in Nat
  BY <1>2, SyncAssumption
<1>4. ASSUME NEW b \in Buddy
      PROVE  /\ V.truth[b] \in Person /\ V.truth[b].sid \in 0..MaxSid /\ V.truth[b].sid \in Nat
             /\ V.truth[b].friend \in BOOLEAN
  <2>1. V.truth[b] \in Person
    BY <1>2
  <2>2. V.truth[b].sid \in 0..MaxSid /\ V.truth[b].friend \in BOOLEAN
    BY <2>1 DEF Person
  <2>. QED BY <2>1, <2>2, SyncAssumption
<1>. QED BY <1>1, <1>2, <1>3, <1>4

LEMMA RowFacts ==
  ASSUME NEW r \in Row
  PROVE  r.username \in Buddy /\ r.userid \in Nat /\ r.sid \in 0..MaxSid
BY DEF Row

LEMMA JRowFacts ==
  ASSUME NEW f \in JRow
  PROVE  f.name \in Buddy /\ f.userid \in Nat /\ f.sid \in NullSid..MaxSid
BY DEF JRow

\* The items of a packet.
LEMMA OrderFacts ==
  ASSUME NEW o \in Seq(Buddy)
  PROVE  Len(o) \in Nat /\ \A k \in 1..Len(o) : o[k] \in Buddy /\ UserId[o[k]] \in Nat
<1>1. Len(o) \in Nat /\ \A k \in 1..Len(o) : o[k] \in Buddy
  BY LenProperties, ElementOfSeq
<1>. QED BY <1>1, Ids

LEMMA NamesItems ==
  ASSUME NEW o \in Seq(Buddy), NEW n
  PROVE  LET p == NamesPacket(o, n)
         IN  /\ p.kind = "names" /\ Len(p.items) = Len(o)
             /\ \A k \in 1..Len(o) : /\ p.items[k].name = o[k]
                                     /\ p.items[k].id = UserId[o[k]]
                                     /\ p.items[k].nick = n
<1> DEFINE T == {[name |-> o[k], id |-> UserId[o[k]], nick |-> n] : k \in 1..Len(o)}
           it == [k \in 1..Len(o) |-> [name |-> o[k], id |-> UserId[o[k]], nick |-> n]]
<1>1. it \in [1..Len(o) -> T] /\ Len(o) \in Nat
  BY OrderFacts
<1>2. \A k \in 1..Len(o) : it[k].name = o[k] /\ it[k].id = UserId[o[k]] /\ it[k].nick = n
  OBVIOUS
<1>3. NamesPacket(o, n).kind = "names" /\ NamesPacket(o, n).items = it
  BY DEF NamesPacket
<1>. HIDE DEF it, T
<1>. QED BY <1>1, <1>2, <1>3, FunctionIsSeq

LEMMA OnlineItems ==
  ASSUME NEW o \in Seq(Buddy), NEW r \in [Buddy -> 0..MaxSid]
  PROVE  LET p == OnlinePacket(o, r)
         IN  /\ p.kind = "online" /\ SidItems(p.items, Len(o))
             /\ \A k \in 1..Len(o) : p.items[k].id = UserId[o[k]] /\ p.items[k].sid = r[o[k]]
<1> DEFINE it == [k \in 1..Len(o) |-> [id |-> UserId[o[k]], sid |-> r[o[k]]]]
<1>1. /\ DOMAIN it = 1..Len(o)
      /\ \A k \in 1..Len(o) : it[k].id = UserId[o[k]] /\ it[k].sid = r[o[k]]
  OBVIOUS
<1>2. \A k \in 1..Len(o) : r[o[k]] \in 0..MaxSid
  BY OrderFacts
<1>3. OnlinePacket(o, r).kind = "online" /\ OnlinePacket(o, r).items = it
  BY DEF OnlinePacket
<1>. HIDE DEF it
<1>. QED BY <1>1, <1>2, <1>3 DEF SidItems

LEMMA GameItemsOf ==
  ASSUME NEW o \in Seq(Buddy), NEW r, NEW g \in Games \union {0}
  PROVE  /\ LET p == GamesPacket(o, r, g)
            IN  /\ p.kind = "games" /\ GameItems(p.items, Len(o))
                /\ \A k \in 1..Len(o) : p.items[k].sid = r[o[k]] /\ p.items[k].game = g
         /\ LET p == Games2Packet(o, r, g)
            IN  /\ p.kind = "games2" /\ GameItems(p.items, Len(o))
                /\ \A k \in 1..Len(o) : p.items[k].sid = r[o[k]] /\ p.items[k].game = g
<1> DEFINE it == [k \in 1..Len(o) |-> [sid |-> r[o[k]], game |-> g]]
<1>1. DOMAIN it = 1..Len(o) /\ \A k \in 1..Len(o) : it[k].sid = r[o[k]] /\ it[k].game = g
  OBVIOUS
<1>2. /\ GamesPacket(o, r, g).kind = "games" /\ GamesPacket(o, r, g).items = it
      /\ Games2Packet(o, r, g).kind = "games2" /\ Games2Packet(o, r, g).items = it
  BY DEF GamesPacket, Games2Packet
<1>. HIDE DEF it
<1>. QED BY <1>1, <1>2 DEF GameItems

LEMMA StatusItems ==
  ASSUME NEW o \in Seq(Buddy), NEW r, NEW m \in Statuses
  PROVE  LET p == StatusPacket(o, r, m)
         IN  /\ p.kind = "status" /\ WordItems(p.items, Len(o))
             /\ Len(p.items) = Len(o) /\ \E S : p.items \in Seq(S)
             /\ \A k \in 1..Len(o) : p.items[k].sid = r[o[k]] /\ p.items[k].msg = m
<1> DEFINE T == {[sid |-> r[o[k]], msg |-> m] : k \in 1..Len(o)}
           it == [k \in 1..Len(o) |-> [sid |-> r[o[k]], msg |-> m]]
<1>1. it \in [1..Len(o) -> T] /\ Len(o) \in Nat
  BY OrderFacts
<1>2. DOMAIN it = 1..Len(o) /\ \A k \in 1..Len(o) : it[k].sid = r[o[k]] /\ it[k].msg = m
  OBVIOUS
<1>3. StatusPacket(o, r, m).kind = "status" /\ StatusPacket(o, r, m).items = it
  BY DEF StatusPacket
<1>. HIDE DEF it, T
<1>4. Len(it) = Len(o) /\ it \in Seq(T)
  BY <1>1, FunctionIsSeq
<1>5. WordItems(it, Len(o))
  BY <1>2 DEF WordItems
<1>. QED BY <1>2, <1>3, <1>4, <1>5

-----------------------------------------------------------------------------
(* The entries after a packet *)

LEMMA ShownRows ==
  ASSUME NEW V, NEW es, Shows(es, V)
  PROVE  /\ es \in Seq(Row) /\ Len(es) \in Nat
         /\ \A i \in 1..Len(es) :
              /\ es[i] \in Row /\ es[i].username \in Buddy /\ es[i].userid = UserId[es[i].username]
              /\ es[i].sid = V.truth[es[i].username].sid
              /\ V.truth[es[i].username].friend
<1>1. es \in Seq(Row) /\ \A i \in 1..Len(es) : EntryRight(es[i], V)
  BY DEF Shows
<1>2. Len(es) \in Nat /\ \A i \in 1..Len(es) : es[i] \in Row
  BY <1>1, LenProperties, ElementOfSeq
<1>. QED BY <1>1, <1>2, RowFacts DEF EntryRight, EntryFields

\* A friend's entry is the one that its user id finds.
LEMMA FoundById ==
  ASSUME NEW V \in SoundViews, NEW es, Shows(es, V), NEW b \in Buddy
  PROVE  /\ \A i \in 1..Len(es) : es[i].username = b <=> IndexById(es, UserId[b]) = i
         /\ V.truth[b].friend => IndexById(es, UserId[b]) \in 1..Len(es)
<1> DEFINE I == {i \in 1..Len(es) : es[i].userid = UserId[b]}
           j == IndexById(es, UserId[b])
<1>1. FirstOf(j, I)
  BY LookUps
<1>2. \A i \in 1..Len(es) : i \in I <=> es[i].username = b
  BY ShownRows, Ids
<1>3. \A i, k \in 1..Len(es) : es[i].username = b /\ es[k].username = b => i = k
  BY DEF Shows
<1>4. V.truth[b].friend => \E i \in 1..Len(es) : es[i].username = b
  BY DEF Shows
<1>5. I \subseteq 1..Len(es)
  OBVIOUS
<1>. HIDE DEF I, j
<1>6. ASSUME NEW i \in 1..Len(es)
      PROVE  es[i].username = b <=> j = i
  <2>1. ASSUME es[i].username = b
        PROVE  j = i
    <3>1. i \in I
      BY <1>2, <2>1
    <3>2. j \in I
      BY <1>1, <3>1 DEF FirstOf
    <3>. QED BY <1>2, <1>3, <1>5, <2>1, <3>2
  <2>2. ASSUME j = i
        PROVE  es[i].username = b
    <3>1. i # 0
      OBVIOUS
    <3>2. j \in I
      BY <1>1, <2>2, <3>1 DEF FirstOf
    <3>. QED BY <1>2, <2>2, <3>2
  <2>. QED BY <2>1, <2>2
<1>7. V.truth[b].friend => j \in 1..Len(es)
  BY <1>4, <1>6
<1>. QED BY <1>6, <1>7 DEF j

\* ... and while the friend is online, its session id.
LEMMA FoundBySid ==
  ASSUME NEW V \in SoundViews, NEW es, Shows(es, V), NEW b \in Buddy, V.truth[b].sid # NoSid
  PROVE  /\ \A i \in 1..Len(es) : es[i].username = b <=> IndexBySid(es, V.truth[b].sid) = i
         /\ IndexBySid(es, V.truth[b].sid) \in 1..Len(es)
<1> DEFINE I == {i \in 1..Len(es) : es[i].sid = V.truth[b].sid}
           j == IndexBySid(es, V.truth[b].sid)
<1>1. FirstOf(j, I)
  BY LookUps
<1>2. \A i \in 1..Len(es) : i \in I <=> es[i].username = b
  <2>. TAKE i \in 1..Len(es)
  <2>1. es[i].username \in Buddy /\ es[i].sid = V.truth[es[i].username].sid
    BY ShownRows
  <2>2. V.truth[b].sid = V.truth[es[i].username].sid => b = es[i].username
    BY <2>1, ViewFacts
  <2>. QED BY <2>1, <2>2
<1>3. \A i, k \in 1..Len(es) : es[i].username = b /\ es[k].username = b => i = k
  BY DEF Shows
<1>4. \E i \in 1..Len(es) : es[i].username = b
  BY ViewFacts DEF Shows
<1>5. I \subseteq 1..Len(es)
  OBVIOUS
<1>. HIDE DEF I, j
<1>6. ASSUME NEW i \in 1..Len(es)
      PROVE  es[i].username = b <=> j = i
  <2>1. ASSUME es[i].username = b
        PROVE  j = i
    <3>1. i \in I
      BY <1>2, <2>1
    <3>2. j \in I
      BY <1>1, <3>1 DEF FirstOf
    <3>. QED BY <1>2, <1>3, <1>5, <2>1, <3>2
  <2>2. ASSUME j = i
        PROVE  es[i].username = b
    <3>1. i # 0
      OBVIOUS
    <3>2. j \in I
      BY <1>1, <2>2, <3>1 DEF FirstOf
    <3>. QED BY <1>2, <2>2, <3>2
  <2>. QED BY <2>1, <2>2
<1>7. j \in 1..Len(es)
  BY <1>4, <1>6
<1>. QED BY <1>6, <1>7 DEF j

\* A stranger's session id finds nobody.
LEMMA FoundNowhere ==
  ASSUME NEW V \in SoundViews, NEW es, Shows(es, V)
  PROVE  IndexBySid(es, MaxSid + 1) = 0
<1>0. MaxSid \in Nat
  BY SyncAssumption
<1>1. {i \in 1..Len(es) : es[i].sid = MaxSid + 1} = {}
  <2>1. \A i \in 1..Len(es) : es[i].sid \in 0..MaxSid
    BY ShownRows, RowFacts
  <2>. QED BY <1>0, <2>1
<1>2. IndexBySid(es, MaxSid + 1) = 0
  <2>1. FirstOf(IndexBySid(es, MaxSid + 1), {i \in 1..Len(es) : es[i].sid = MaxSid + 1})
    BY LookUps
  <2>. QED BY <1>1, <2>1 DEF FirstOf
<1>. QED BY <1>2

LEMMA RightFields ==
  ASSUME NEW e, NEW b, NEW V, e.username = b
  PROVE  EntryRight(e, V) <=> EntryFields(e, b, V)
BY DEF EntryRight

LEMMA StillRight ==
  ASSUME NEW e, NEW V, NEW W, EntryRight(e, V), W.truth[e.username] = V.truth[e.username],
         e.username \in W.unheard <=> e.username \in V.unheard
  PROVE  EntryRight(e, W)
BY DEF EntryRight, EntryFields

\* Each row as the new view has it, and the same friends.
LEMMA ShowsAgain ==
  ASSUME NEW V, NEW W, NEW es, Shows(es, V),
         NEW new, new \in Seq(Row), Len(new) = Len(es),
         \A i \in 1..Len(es) : new[i].username = es[i].username /\ EntryRight(new[i], W),
         \A b \in Buddy : W.truth[b].friend => V.truth[b].friend
  PROVE  Shows(new, W)
<1>1. /\ \A i, k \in 1..Len(es) : es[i].username = es[k].username => i = k
      /\ \A b \in Buddy : V.truth[b].friend => \E i \in 1..Len(es) : es[i].username = b
  BY DEF Shows
<1>2. \A i, k \in 1..Len(new) : new[i].username = new[k].username => i = k
  BY <1>1
<1>3. \A b \in Buddy : W.truth[b].friend => \E i \in 1..Len(new) : new[i].username = b
  BY <1>1
<1>. QED BY <1>2, <1>3 DEF Shows

LEMMA ShowsOnline ==
  ASSUME NEW V \in SoundViews, NEW W \in SoundViews, NEW es, Shows(es, V),
         NEW p, TellsOnline(V, p, W), NEW new, new = UpdateOnline(es, p.items)
  PROVE  p.kind = "online" /\ Shows(new, W)
<1>1. PICK o \in Seq(Buddy), r \in [Buddy -> 0..MaxSid] :
        /\ p = OnlinePacket(o, r)
        /\ \A b \in Buddy :
             IF Among(b, o) THEN W.truth[b] = Moved(V.truth[b], r[b])
             ELSE W.truth[b] = V.truth[b] /\ (b \in W.unheard <=> b \in V.unheard)
  BY DEF TellsOnline
<1> DEFINE items == p.items
           n == Len(o)
<1>2. /\ p.kind = "online" /\ SidItems(items, n)
      /\ \A k \in 1..n : items[k].id = UserId[o[k]] /\ items[k].sid = r[o[k]]
  BY <1>1, OnlineItems
<1>3. n \in Nat /\ \A k \in 1..n : o[k] \in Buddy
  BY OrderFacts
<1>. HIDE DEF items
<1>4. es \in Seq(Row) /\ new = UpdateOnline(es, items)
  BY ShownRows DEF items
<1>5. /\ new \in Seq(Row) /\ Len(new) = Len(es)
      /\ \A i \in 1..Len(es) :
           \/ new[i] = es[i] /\ \A k \in 1..n : IndexById(es, items[k].id) # i
           \/ \E k \in 1..n : /\ IndexById(es, items[k].id) = i
                             /\ new[i] = WithSid(es[i], items[k].sid)
  BY <1>2, <1>3, <1>4, OnlineEffect
<1>. HIDE DEF n
<1>6. ASSUME NEW i \in 1..Len(es)
      PROVE  new[i].username = es[i].username /\ EntryRight(new[i], W)
  <2> DEFINE b == es[i].username
  <2>1. b \in Buddy /\ es[i] \in Row /\ EntryRight(es[i], V)
    BY ShownRows DEF Shows
  <2>2. ASSUME new[i] = es[i], \A k \in 1..n : IndexById(es, items[k].id) # i
        PROVE  new[i].username = b /\ EntryRight(new[i], W)
    <3>1. ~ Among(b, o)
      <4>1. ASSUME NEW k \in 1..n, o[k] = b
            PROVE  FALSE
        BY <1>2, <2>1, <2>2, <4>1, FoundById
      <4>. QED BY <4>1 DEF Among, n
    <3>2. W.truth[b] = V.truth[b] /\ (b \in W.unheard <=> b \in V.unheard)
      BY <1>1, <2>1, <3>1
    <3>. QED BY <2>1, <2>2, <3>2, StillRight
  <2>3. ASSUME NEW k \in 1..n, IndexById(es, items[k].id) = i,
               new[i] = WithSid(es[i], items[k].sid)
        PROVE  new[i].username = b /\ EntryRight(new[i], W)
    <3>1. o[k] = b
      BY <1>2, <1>3, <2>3, FoundById
    <3>2. r[b] \in 0..MaxSid /\ items[k].sid = r[b]
      BY <1>2, <2>1, <3>1
    <3>3. /\ new[i].username = b /\ new[i].userid = es[i].userid
          /\ new[i].nick = es[i].nick /\ new[i].sid = r[b]
      BY <2>1, <2>3, <3>2, WithFacts
    <3>4. W.truth[b] = Moved(V.truth[b], r[b])
      BY <1>1, <2>1, <3>1 DEF Among, n
    <3>5. /\ W.truth[b].friend = V.truth[b].friend /\ W.truth[b].nick = V.truth[b].nick
          /\ W.truth[b].sid = r[b] /\ W.truth[b].said = NoText
          /\ W.truth[b].game = 0 /\ W.truth[b].game2 = 0
      BY <2>1, <3>2, <3>4, ViewFacts, PersonFacts
    <3>6. V.truth[b].friend /\ es[i].userid = UserId[b] /\ es[i].nick = V.truth[b].nick
      BY <2>1 DEF EntryRight, EntryFields
    <3>. HIDE DEF b
    <3>. QED BY <3>3, <3>5, <3>6 DEF EntryRight, EntryFields
  <2>. QED BY <1>5, <2>2, <2>3
<1>7. ASSUME NEW b \in Buddy, W.truth[b].friend
      PROVE  V.truth[b].friend
  <2>1. CASE Among(b, o)
    BY <1>1, <1>7, <2>1, ViewFacts, PersonFacts
  <2>2. CASE ~ Among(b, o)
    BY <1>1, <1>7, <2>2
  <2>. QED BY <2>1, <2>2
<1>. QED BY <1>2, <1>5, <1>6, <1>7, ShowsAgain

LEMMA ShowsGames ==
  ASSUME NEW V \in SoundViews, NEW W \in SoundViews, NEW es, Shows(es, V),
         NEW p, TellsGames(V, p, W), NEW new, new = FirstGames(es, p.items)
  PROVE  p.kind = "games" /\ Shows(new, W)
<1>1. PICK o \in Seq(Buddy), g \in Games \union {0} :
        /\ p = GamesPacket(o, SidOf(V), g)
        /\ \A k \in 1..Len(o) : V.truth[o[k]].friend /\ V.truth[o[k]].sid # NoSid
        /\ W.unheard = V.unheard
        /\ \A b \in Buddy : W.truth[b] = IF Among(b, o) THEN Played(V.truth[b], g) ELSE V.truth[b]
  BY DEF TellsGames
<1> DEFINE items == p.items
           n == Len(o)
<1>2. /\ p.kind = "games" /\ GameItems(items, n)
      /\ \A k \in 1..n : items[k].sid = SidOf(V)[o[k]] /\ items[k].game = g
  BY <1>1, GameItemsOf
<1>3. n \in Nat /\ \A k \in 1..n : o[k] \in Buddy
  BY OrderFacts
<1>. HIDE DEF items
<1>4. \A k \in 1..n : items[k].sid = V.truth[o[k]].sid /\ V.truth[o[k]].sid # NoSid
  BY <1>1, <1>2, <1>3 DEF SidOf
<1>5. /\ new \in Seq(Row) /\ Len(new) = Len(es)
      /\ \A i \in 1..Len(es) :
           \/ new[i] = es[i] /\ \A k \in 1..n : IndexBySid(es, items[k].sid) # i
           \/ \E k \in 1..n : /\ IndexBySid(es, items[k].sid) = i
                             /\ new[i] = WithGame(es[i], items[k].game)
  <2>1. es \in Seq(Row) /\ new = FirstGames(es, items)
    BY ShownRows DEF items
  <2>. QED BY <1>2, <1>3, <2>1, GamesEffect
<1>. HIDE DEF n
<1>6. ASSUME NEW i \in 1..Len(es)
      PROVE  new[i].username = es[i].username /\ EntryRight(new[i], W)
  <2> DEFINE b == es[i].username
  <2>1. b \in Buddy /\ es[i] \in Row /\ EntryRight(es[i], V)
    BY ShownRows DEF Shows
  <2>2. ASSUME new[i] = es[i], \A k \in 1..n : IndexBySid(es, items[k].sid) # i
        PROVE  new[i].username = b /\ EntryRight(new[i], W)
    <3>1. ~ Among(b, o)
      <4>1. ASSUME NEW k \in 1..n, o[k] = b
            PROVE  FALSE
        BY <1>4, <2>1, <2>2, <4>1, FoundBySid
      <4>. QED BY <4>1 DEF Among, n
    <3>2. W.truth[b] = V.truth[b] /\ (b \in W.unheard <=> b \in V.unheard)
      BY <1>1, <2>1, <3>1
    <3>. QED BY <2>1, <2>2, <3>2, StillRight
  <2>3. ASSUME NEW k \in 1..n, IndexBySid(es, items[k].sid) = i,
               new[i] = WithGame(es[i], items[k].game)
        PROVE  new[i].username = b /\ EntryRight(new[i], W)
    <3>1. o[k] = b
      BY <1>3, <1>4, <2>3, FoundBySid
    <3>2. /\ new[i].username = b /\ new[i].userid = es[i].userid
          /\ new[i].nick = es[i].nick /\ new[i].sid = es[i].sid
          /\ new[i].statusmsg = es[i].statusmsg
          /\ new[i].game = g /\ new[i].game2 = es[i].game2
      <4>1. new[i] = WithGame(es[i], g)
        BY <1>2, <2>3
      <4>. QED BY ONLY <2>1, <4>1, g \in Games \union {0}, WithFacts
    <3>3. W.truth[b] = Played(V.truth[b], g)
      BY <1>1, <2>1, <3>1 DEF Among, n
    <3>4. /\ W.truth[b].friend = V.truth[b].friend /\ W.truth[b].nick = V.truth[b].nick
          /\ W.truth[b].sid = V.truth[b].sid /\ W.truth[b].said = V.truth[b].said
          /\ W.truth[b].game = g /\ W.truth[b].game2 = V.truth[b].game2
      <4>1. V.truth[b] \in Person
        BY <2>1, ViewFacts
      <4>. QED BY ONLY <3>3, <4>1, g \in Games \union {0}, PersonFacts
    <3>5. EntryFields(es[i], b, V)
      BY <2>1, RightFields
    <3>6. EntryFields(new[i], b, W)
      BY <1>1, <3>2, <3>4, <3>5 DEF EntryFields
    <3>. QED BY <3>2, <3>6, RightFields
  <2>. QED BY <1>5, <2>2, <2>3
<1>7. ASSUME NEW b \in Buddy, W.truth[b].friend
      PROVE  V.truth[b].friend
  <2>1. CASE Among(b, o)
    BY <1>1, <1>7, <2>1, ViewFacts, PersonFacts
  <2>2. CASE ~ Among(b, o)
    BY <1>1, <1>7, <2>2
  <2>. QED BY <2>1, <2>2
<1>. QED BY <1>2, <1>5, <1>6, <1>7, ShowsAgain

LEMMA ShowsGames2 ==
  ASSUME NEW V \in SoundViews, NEW W \in SoundViews, NEW es, Shows(es, V),
         NEW p, TellsGames2(V, p, W), NEW new, new = SecondGames(es, p.items)
  PROVE  p.kind = "games2" /\ Shows(new, W)
<1>1. PICK o \in Seq(Buddy), g \in Games \union {0} :
        /\ p = Games2Packet(o, SidOf(V), g)
        /\ \A k \in 1..Len(o) : V.truth[o[k]].friend /\ V.truth[o[k]].sid # NoSid
        /\ W.unheard = V.unheard
        /\ \A b \in Buddy : W.truth[b] = IF Among(b, o) THEN Talked(V.truth[b], g) ELSE V.truth[b]
  BY DEF TellsGames2
<1> DEFINE items == p.items
           n == Len(o)
<1>2. /\ p.kind = "games2" /\ GameItems(items, n)
      /\ \A k \in 1..n : items[k].sid = SidOf(V)[o[k]] /\ items[k].game = g
  BY <1>1, GameItemsOf
<1>3. n \in Nat /\ \A k \in 1..n : o[k] \in Buddy
  BY OrderFacts
<1>. HIDE DEF items
<1>4. \A k \in 1..n : items[k].sid = V.truth[o[k]].sid /\ V.truth[o[k]].sid # NoSid
  BY <1>1, <1>2, <1>3 DEF SidOf
<1>5. /\ new \in Seq(Row) /\ Len(new) = Len(es)
      /\ \A i \in 1..Len(es) :
           \/ new[i] = es[i] /\ \A k \in 1..n : IndexBySid(es, items[k].sid) # i
           \/ \E k \in 1..n : /\ IndexBySid(es, items[k].sid) = i
                             /\ new[i] = WithGame2(es[i], items[k].game)
  <2>1. es \in Seq(Row) /\ new = SecondGames(es, items)
    BY ShownRows DEF items
  <2>. QED BY <1>2, <1>3, <2>1, Games2Effect
<1>. HIDE DEF n
<1>6. ASSUME NEW i \in 1..Len(es)
      PROVE  new[i].username = es[i].username /\ EntryRight(new[i], W)
  <2> DEFINE b == es[i].username
  <2>1. b \in Buddy /\ es[i] \in Row /\ EntryRight(es[i], V)
    BY ShownRows DEF Shows
  <2>2. ASSUME new[i] = es[i], \A k \in 1..n : IndexBySid(es, items[k].sid) # i
        PROVE  new[i].username = b /\ EntryRight(new[i], W)
    <3>1. ~ Among(b, o)
      <4>1. ASSUME NEW k \in 1..n, o[k] = b
            PROVE  FALSE
        BY <1>4, <2>1, <2>2, <4>1, FoundBySid
      <4>. QED BY <4>1 DEF Among, n
    <3>2. W.truth[b] = V.truth[b] /\ (b \in W.unheard <=> b \in V.unheard)
      BY <1>1, <2>1, <3>1
    <3>. QED BY <2>1, <2>2, <3>2, StillRight
  <2>3. ASSUME NEW k \in 1..n, IndexBySid(es, items[k].sid) = i,
               new[i] = WithGame2(es[i], items[k].game)
        PROVE  new[i].username = b /\ EntryRight(new[i], W)
    <3>1. o[k] = b
      BY <1>3, <1>4, <2>3, FoundBySid
    <3>2. /\ new[i].username = b /\ new[i].userid = es[i].userid
          /\ new[i].nick = es[i].nick /\ new[i].sid = es[i].sid
          /\ new[i].statusmsg = es[i].statusmsg
          /\ new[i].game2 = g /\ new[i].game = es[i].game
      <4>1. new[i] = WithGame2(es[i], g)
        BY <1>2, <2>3
      <4>. QED BY ONLY <2>1, <4>1, g \in Games \union {0}, WithFacts
    <3>3. W.truth[b] = Talked(V.truth[b], g)
      BY <1>1, <2>1, <3>1 DEF Among, n
    <3>4. /\ W.truth[b].friend = V.truth[b].friend /\ W.truth[b].nick = V.truth[b].nick
          /\ W.truth[b].sid = V.truth[b].sid /\ W.truth[b].said = V.truth[b].said
          /\ W.truth[b].game2 = g /\ W.truth[b].game = V.truth[b].game
      <4>1. V.truth[b] \in Person
        BY <2>1, ViewFacts
      <4>. QED BY ONLY <3>3, <4>1, g \in Games \union {0}, PersonFacts
    <3>5. EntryFields(es[i], b, V)
      BY <2>1, RightFields
    <3>6. EntryFields(new[i], b, W)
      BY <1>1, <3>2, <3>4, <3>5 DEF EntryFields
    <3>. QED BY <3>2, <3>6, RightFields
  <2>. QED BY <1>5, <2>2, <2>3
<1>7. ASSUME NEW b \in Buddy, W.truth[b].friend
      PROVE  V.truth[b].friend
  <2>1. CASE Among(b, o)
    BY <1>1, <1>7, <2>1, ViewFacts, PersonFacts
  <2>2. CASE ~ Among(b, o)
    BY <1>1, <1>7, <2>2
  <2>. QED BY <2>1, <2>2
<1>. QED BY <1>2, <1>5, <1>6, <1>7, ShowsAgain

LEMMA ShowsStatus ==
  ASSUME NEW V \in SoundViews, NEW W \in SoundViews, NEW es, Shows(es, V),
         NEW p, TellsStatus(V, p, W), NEW new, new = UpdateStatus(es, p.items)
  PROVE  p.kind = "status" /\ Shows(new, W)
<1>1. PICK o \in Seq(Buddy), msg \in Statuses :
        /\ p = StatusPacket(o, SidOrStrange(V), msg)
        /\ \A k \in 1..Len(o) : V.truth[o[k]].friend => V.truth[o[k]].sid # NoSid
        /\ \A b \in Buddy :
             IF V.truth[b].friend /\ Among(b, o)
             THEN W.truth[b] = Said(V.truth[b], msg) /\ (b \in W.unheard <=> Behind(V, o, b))
             ELSE W.truth[b] = V.truth[b] /\ (b \in W.unheard <=> b \in V.unheard)
  BY DEF TellsStatus
<1> DEFINE items == p.items
           n == Len(o)
           known == Known(es, items)
<1>2. /\ p.kind = "status" /\ Len(items) = n /\ \E S : items \in Seq(S)
      /\ \A k \in 1..n : items[k].sid = SidOrStrange(V)[o[k]] /\ items[k].msg = msg
  BY <1>1, StatusItems
<1>3. n \in Nat /\ \A k \in 1..n : o[k] \in Buddy
  BY OrderFacts
<1>. HIDE DEF items
<1>4. \A k \in 1..n : items[k].sid = IF V.truth[o[k]].friend THEN V.truth[o[k]].sid ELSE MaxSid + 1
  BY <1>2, <1>3 DEF SidOrStrange
<1>5. \A k \in 1..n : IndexBySid(es, items[k].sid) = 0 <=> ~ V.truth[o[k]].friend
  <2>. TAKE k \in 1..n
  <2>1. CASE V.truth[o[k]].friend
    <3>1. items[k].sid = V.truth[o[k]].sid /\ o[k] \in Buddy /\ V.truth[o[k]].sid # NoSid
      BY <1>1, <1>3, <1>4, <2>1
    <3>2. IndexBySid(es, V.truth[o[k]].sid) \in 1..Len(es)
      BY <3>1, FoundBySid
    <3>3. IndexBySid(es, V.truth[o[k]].sid) # 0
      BY <3>2
    <3>. QED BY <2>1, <3>1, <3>3
  <2>2. CASE ~ V.truth[o[k]].friend
    BY <1>4, <2>2, FoundNowhere
  <2>. QED BY <2>1, <2>2
<1>. HIDE DEF n
<1>6. PICK m \in 0..Len(items) : KnownUpTo(es, items, m)
  <2>1. PICK S : items \in Seq(S)
    BY <1>2
  <2>. QED BY <2>1, KnownFacts
<1>7. /\ m \in 0..n /\ DOMAIN known = 1..m
      /\ \A k \in 1..m : known[k] = items[k] /\ IndexBySid(es, items[k].sid) # 0
      /\ m < n => IndexBySid(es, items[m + 1].sid) = 0
  BY <1>2, <1>6 DEF KnownUpTo
<1>. HIDE DEF known
<1>8. m \in 0..n /\ m \in Nat /\ \A k \in 1..m : k \in 1..n
  BY <1>3, <1>7
<1>9. \A k \in 1..m : /\ known[k].sid = V.truth[o[k]].sid /\ known[k].msg = msg
                      /\ o[k] \in Buddy /\ V.truth[o[k]].friend /\ V.truth[o[k]].sid # NoSid
  <2>. TAKE k \in 1..m
  <2>1. k \in 1..n /\ known[k] = items[k] /\ V.truth[o[k]].friend
    BY <1>5, <1>7, <1>8
  <2>. QED BY <1>1, <1>2, <1>3, <1>4, <2>1 DEF n
<1>10. /\ new \in Seq(Row) /\ Len(new) = Len(es)
       /\ \A i \in 1..Len(es) :
           \/ new[i] = es[i] /\ \A k \in 1..m : IndexBySid(es, known[k].sid) # i
           \/ \E k \in 1..m : /\ IndexBySid(es, known[k].sid) = i
                             /\ new[i] = WithWord(es[i], known[k].msg)
  <2>1. new = PutWords(es, known)
    BY DEF UpdateStatus, PutWords, known, items
  <2>2. WordItems(known, m)
    BY <1>7, <1>9 DEF WordItems
  <2>3. es \in Seq(Row)
    BY ShownRows
  <2>. QED BY ONLY <1>8, <2>1, <2>2, <2>3, WordsEffect
<1>11. ASSUME NEW i \in 1..Len(es)
       PROVE  new[i].username = es[i].username /\ EntryRight(new[i], W)
  <2> DEFINE b == es[i].username
  <2>1. b \in Buddy /\ es[i] \in Row /\ EntryRight(es[i], V) /\ V.truth[b].friend
    BY ShownRows DEF Shows
  <2>2. ASSUME new[i] = es[i], \A k \in 1..m : IndexBySid(es, known[k].sid) # i
        PROVE  new[i].username = b /\ EntryRight(new[i], W)
    <3>1. CASE ~ Among(b, o)
      BY <1>1, <2>1, <2>2, <3>1, StillRight
    <3>2. CASE Among(b, o)
      <4>1. PICK k \in 1..n : o[k] = b
        BY <3>2 DEF Among, n
      <4>2. V.truth[b].sid # NoSid
        BY <1>1, <2>1, <4>1 DEF n
      <4>3. k \notin 1..m
        <5>1. IndexBySid(es, V.truth[b].sid) = i
          BY <2>1, <4>2, FoundBySid
        <5>. QED BY <1>9, <2>2, <4>1, <5>1
      <4>4. m + 1 \in 1..n /\ m + 1 <= k /\ m < n
        BY <1>3, <1>8, <4>1, <4>3
      <4>5. ~ V.truth[o[m + 1]].friend
        BY <1>5, <1>7, <4>4
      <4>6. Behind(V, o, b)
        BY <4>1, <4>4, <4>5 DEF Behind, n
      <4>7. W.truth[b] = Said(V.truth[b], msg) /\ b \in W.unheard
        BY <1>1, <2>1, <3>2, <4>6
      <4>8. /\ W.truth[b].friend = V.truth[b].friend /\ W.truth[b].nick = V.truth[b].nick
            /\ W.truth[b].sid = V.truth[b].sid
            /\ W.truth[b].game = V.truth[b].game /\ W.truth[b].game2 = V.truth[b].game2
        <5>1. V.truth[b] \in Person
          BY <2>1, ViewFacts
        <5>. QED BY ONLY <4>7, <5>1, msg \in Statuses, PersonFacts
      <4>9. EntryFields(es[i], b, V)
        BY <2>1, RightFields
      <4>10. EntryFields(new[i], b, W)
        BY <2>2, <4>7, <4>8, <4>9 DEF EntryFields
      <4>. QED BY <2>2, <4>10, RightFields
    <3>. QED BY <3>1, <3>2
  <2>3. ASSUME NEW k \in 1..m, IndexBySid(es, known[k].sid) = i,
               new[i] = WithWord(es[i], known[k].msg)
        PROVE  new[i].username = b /\ EntryRight(new[i], W)
    <3>1. o[k] = b
      BY <1>9, <2>3, FoundBySid
    <3>2. /\ new[i].username = b /\ new[i].userid = es[i].userid
          /\ new[i].nick = es[i].nick /\ new[i].sid = es[i].sid /\ new[i].statusmsg = msg
          /\ new[i].game = es[i].game /\ new[i].game2 = es[i].game2
      <4>1. new[i] = WithWord(es[i], msg)
        BY <1>9, <2>3
      <4>. QED BY ONLY <2>1, <4>1, msg \in Statuses, WithFacts
    <3>3. W.truth[b] = Said(V.truth[b], msg)
      BY <1>1, <1>8, <2>1, <3>1 DEF Among, n
    <3>4. /\ W.truth[b].friend = V.truth[b].friend /\ W.truth[b].nick = V.truth[b].nick
          /\ W.truth[b].sid = V.truth[b].sid /\ W.truth[b].said = msg
          /\ W.truth[b].game = V.truth[b].game /\ W.truth[b].game2 = V.truth[b].game2
      <4>1. V.truth[b] \in Person
        BY <2>1, ViewFacts
      <4>. QED BY ONLY <3>3, <4>1, msg \in Statuses, PersonFacts
    <3>5. EntryFields(es[i], b, V)
      BY <2>1, RightFields
    <3>6. EntryFields(new[i], b, W)
      BY <3>2, <3>4, <3>5 DEF EntryFields
    <3>. QED BY <3>2, <3>6, RightFields
  <2>. QED BY <1>10, <2>2, <2>3
<1>12. ASSUME NEW b \in Buddy, W.truth[b].friend
       PROVE  V.truth[b].friend
  <2>1. CASE V.truth[b].friend /\ Among(b, o)
    BY <2>1
  <2>2. CASE ~ (V.truth[b].friend /\ Among(b, o))
    BY <1>1, <1>12, <2>2
  <2>. QED BY <2>1, <2>2
<1>. QED BY <1>2, <1>10, <1>11, <1>12, ShowsAgain

LEMMA ShowsNick ==
  ASSUME NEW V \in SoundViews, NEW W \in SoundViews, NEW es, Shows(es, V),
         NEW p, TellsNick(V, p, W), NEW new, new = UpdateNick(es, p)
  PROVE  p.kind = "nick" /\ Shows(new, W)
<1>1. PICK b \in Buddy, n \in Nicks :
        /\ p = NickPacket(b, n) /\ V.truth[b].friend /\ W.unheard = V.unheard
        /\ Becomes(V, W, b, Renamed(V.truth[b], n))
  BY DEF TellsNick
<1>2. p.kind = "nick" /\ p.id = UserId[b] /\ p.nick = n
  BY <1>1 DEF NickPacket
<1> DEFINE i == IndexById(es, UserId[b])
<1>3. i \in 1..Len(es) /\ es[i].username = b
  BY <1>1, FoundById
<1>4. new = [es EXCEPT ![i] = WithNick(es[i], n)]
  <2>1. i # 0
    BY <1>3
  <2>. QED BY <1>2, <2>1 DEF UpdateNick, WithNick
<1>. HIDE DEF i
<1> DEFINE r == WithNick(es[i], n)
<1>5. es[i] \in Row /\ es \in Seq(Row) /\ EntryFields(es[i], b, V)
  BY <1>3, ShownRows, RightFields DEF Shows
<1>6. /\ r \in Row /\ r.nick = n /\ r.game = es[i].game /\ r.game2 = es[i].game2
      /\ r.username = b /\ r.userid = es[i].userid
      /\ r.statusmsg = es[i].statusmsg /\ r.sid = es[i].sid
  BY ONLY <1>3, <1>5, n \in Nicks, WithFacts
<1>. HIDE DEF r
<1>7. /\ new \in Seq(Row) /\ Len(new) = Len(es)
      /\ \A k \in 1..Len(es) : new[k] = IF k = i THEN r ELSE es[k]
  <2>1. new = [es EXCEPT ![i] = r]
    BY <1>4 DEF r
  <2> DEFINE q == [es EXCEPT ![i] = r]
  <2>2. q \in Seq(Row) /\ Len(q) = Len(es) /\ \A k \in 1..Len(es) : q[k] = IF k = i THEN r ELSE es[k]
    BY ONLY <1>3, <1>5, <1>6, ExceptSeq
  <2>. HIDE DEF q
  <2>3. new = q
    BY <2>1 DEF q
  <2>. QED BY ONLY <2>2, <2>3
<1>8. W.truth[b] = Renamed(V.truth[b], n) /\ \A c \in Buddy : c # b => W.truth[c] = V.truth[c]
  BY <1>1 DEF Becomes
<1>9. /\ W.truth[b].friend = V.truth[b].friend /\ W.truth[b].nick = n
      /\ W.truth[b].sid = V.truth[b].sid /\ W.truth[b].said = V.truth[b].said
      /\ W.truth[b].game = V.truth[b].game /\ W.truth[b].game2 = V.truth[b].game2
  <2>1. V.truth[b] \in Person
    BY ViewFacts
  <2>. QED BY ONLY <1>8, <2>1, n \in Nicks, PersonFacts
<1>10. EntryFields(r, b, W)
  BY <1>1, <1>5, <1>6, <1>9 DEF EntryFields
<1>11. ASSUME NEW k \in 1..Len(es)
       PROVE  new[k].username = es[k].username /\ EntryRight(new[k], W)
  <2>1. CASE k = i
    <3>1. new[k] = r /\ r.username = b /\ es[k].username = b
      BY <1>3, <1>6, <1>7, <2>1
    <3>. QED BY <1>10, <3>1, RightFields
  <2>2. CASE k # i
    <3>1. es[k].username # b /\ es[k].username \in Buddy /\ EntryRight(es[k], V)
      BY <1>3, <2>2, ShownRows DEF Shows
    <3>. QED BY <1>1, <1>7, <1>8, <2>2, <3>1, StillRight
  <2>. QED BY <2>1, <2>2
<1>12. \A c \in Buddy : W.truth[c].friend => V.truth[c].friend
  BY <1>8, <1>9
<1>13. Shows(new, W)
  BY ONLY Shows(es, V), <1>7, <1>11, <1>12, ShowsAgain
<1>. QED BY <1>2, <1>13

LEMMA ShowsRemoved ==
  ASSUME NEW V \in SoundViews, NEW W \in SoundViews, NEW es, Shows(es, V),
         NEW p, TellsRemoved(V, p, W), NEW new, new = RemoveById(es, p.id)
  PROVE  p.kind = "removed" /\ Shows(new, W)
<1>1. PICK b \in Buddy :
        /\ p = RemovedPacket(b) /\ V.truth[b].friend /\ Becomes(V, W, b, Unknown)
        /\ \A c \in Buddy : c # b => (c \in W.unheard <=> c \in V.unheard)
  BY DEF TellsRemoved
<1>2. p.kind = "removed" /\ p.id = UserId[b]
  BY <1>1 DEF RemovedPacket
<1> DEFINE i == IndexById(es, UserId[b])
<1>3. i \in 1..Len(es) /\ es[i].username = b
  BY <1>1, FoundById
<1>4. new = RemoveAt(es, i)
  <2>1. i # 0
    BY <1>3
  <2>. QED BY <1>2, <2>1 DEF RemoveById
<1>. HIDE DEF i
<1>5. es \in Seq(Row) /\ Len(es) \in Nat
  BY ShownRows
<1>6. /\ new \in Seq(Row) /\ Len(new) = Len(es) - 1
      /\ \A k \in 1..(Len(es) - 1) : new[k] = IF k < i THEN es[k] ELSE es[k + 1]
  BY ONLY <1>3, <1>4, <1>5, RemoveAtFacts
<1> DEFINE At(k) == IF k < i THEN k ELSE k + 1
<1>7. \A k \in 1..Len(new) : At(k) \in 1..Len(es) /\ At(k) # i /\ new[k] = es[At(k)]
  BY <1>3, <1>5, <1>6
<1>8. \A k, m \in 1..Len(new) : At(k) = At(m) => k = m
  BY <1>3, <1>5, <1>6
<1>9. \A j \in 1..Len(es) : j # i => \E k \in 1..Len(new) : At(k) = j
  <2>. TAKE j \in 1..Len(es)
  <2>. HAVE j # i
  <2>1. CASE j < i
    <3>1. j \in 1..Len(new) /\ At(j) = j
      BY <1>3, <1>5, <1>6, <2>1
    <3>. QED BY <3>1
  <2>2. CASE ~ (j < i)
    <3>1. j - 1 \in 1..Len(new) /\ At(j - 1) = j
      BY <1>3, <1>5, <1>6, <2>2
    <3>. QED BY <3>1
  <2>. QED BY <2>1, <2>2
<1>. HIDE DEF At
<1>10. /\ \A j, k \in 1..Len(es) : es[j].username = es[k].username => j = k
       /\ \A j \in 1..Len(es) : EntryRight(es[j], V)
       /\ \A c \in Buddy : V.truth[c].friend => \E j \in 1..Len(es) : es[j].username = c
  BY DEF Shows
<1>11. ASSUME NEW k \in 1..Len(new)
       PROVE  EntryRight(new[k], W)
  <2>1. /\ es[At(k)].username \in Buddy /\ es[At(k)].username # b
        /\ EntryRight(es[At(k)], V)
    BY <1>3, <1>7, <1>10, ShownRows
  <2>2. W.truth[es[At(k)].username] = V.truth[es[At(k)].username]
    BY <1>1, <2>1 DEF Becomes
  <2>. QED BY <1>1, <1>7, <2>1, <2>2, StillRight
<1>12. \A k, m \in 1..Len(new) : new[k].username = new[m].username => k = m
  BY <1>7, <1>8, <1>10
<1>13. ASSUME NEW c \in Buddy, W.truth[c].friend
       PROVE  \E k \in 1..Len(new) : new[k].username = c
  <2>1. c # b
    <3>1. W.truth[b] = Unknown /\ ~ Unknown.friend
      BY <1>1 DEF Becomes, Unknown
    <3>. QED BY <1>13, <3>1
  <2>2. V.truth[c].friend
    BY <1>1, <1>13, <2>1 DEF Becomes
  <2>3. PICK j \in 1..Len(es) : es[j].username = c
    BY <1>10, <2>2
  <2>4. j # i
    BY <1>3, <2>1, <2>3
  <2>5. PICK k \in 1..Len(new) : At(k) = j
    BY <1>9, <2>4
  <2>. QED BY <1>7, <2>3, <2>5
<1>. QED BY <1>2, <1>6, <1>11, <1>12, <1>13 DEF Shows

LEMMA NewRow ==
  ASSUME NEW b \in Buddy, NEW n \in Nicks
  PROVE  LET r == NewEntry(b, UserId[b], n)
         IN  r \in Row /\ r.username = b /\ r.userid = UserId[b] /\ r.nick = n /\ r.sid = NoSid
<1>1. 0 \in 0..MaxSid /\ UserId[b] \in Nat /\ NoSid = 0
  BY SyncAssumption DEF NoSid
<1>. QED BY <1>1 DEF Row, NewEntry

LEMMA ShowsNames ==
  ASSUME NEW V \in SoundViews, NEW W \in SoundViews, NEW es, Shows(es, V),
         NEW p, TellsNames(V, p, W), NEW new, new = InitEntries(es, p.items)
  PROVE  p.kind = "names" /\ Shows(new, W)
<1>1. PICK o \in Seq(Buddy), n \in Nicks :
        /\ p = NamesPacket(o, n)
        /\ \A k, m \in 1..Len(o) : o[k] = o[m] => k = m
        /\ \A k \in 1..Len(o) : ~V.truth[o[k]].friend
        /\ W.unheard = V.unheard
        /\ \A b \in Buddy : W.truth[b] = IF Among(b, o) THEN Befriended(n) ELSE V.truth[b]
  BY DEF TellsNames
<1> DEFINE g == [k \in 1..Len(o) |-> NewEntry(o[k], UserId[o[k]], n)]
           L == Len(es)
<1>2. Len(o) \in Nat /\ \A k \in 1..Len(o) : o[k] \in Buddy
  BY OrderFacts
<1>3. p.kind = "names" /\ new = es \o g
  <2> DEFINE it == p.items
  <2>1. /\ p.kind = "names" /\ Len(it) = Len(o)
        /\ \A k \in 1..Len(o) : it[k].name = o[k] /\ it[k].id = UserId[o[k]] /\ it[k].nick = n
    BY <1>1, NamesItems
  <2>2. new = InitEntries(es, it)
    OBVIOUS
  <2>. HIDE DEF it
  <2>3. [k \in 1..Len(it) |-> NewEntry(it[k].name, it[k].id, it[k].nick)] = g
    BY <2>1
  <2>. QED BY <2>1, <2>2, <2>3 DEF InitEntries
<1>4. /\ g \in [1..Len(o) -> Row]
      /\ \A k \in 1..Len(o) : /\ g[k].username = o[k] /\ g[k].userid = UserId[o[k]]
                              /\ g[k].nick = n /\ g[k].sid = NoSid
  BY <1>2, NewRow
<1>5. g \in Seq(Row) /\ Len(g) = Len(o)
  BY <1>2, <1>4, FunctionIsSeq
<1>6. es \in Seq(Row) /\ L \in Nat
  BY ShownRows
<1>. HIDE DEF g
<1>7. /\ new \in Seq(Row) /\ Len(new) = L + Len(o)
      /\ \A i \in 1..(L + Len(o)) : new[i] = IF i <= L THEN es[i] ELSE g[i - L]
  <2>1. /\ es \o g \in Seq(Row) /\ Len(es \o g) = Len(es) + Len(g)
        /\ \A i \in 1..(Len(es) + Len(g)) :
             (es \o g)[i] = IF i <= Len(es) THEN es[i] ELSE g[i - Len(es)]
    BY ONLY <1>5, <1>6, ConcatProperties
  <2>. QED BY ONLY <1>3, <1>5, <2>1 DEF L
<1>8. \A i \in 1..Len(new) :
        \/ i \in 1..L /\ new[i] = es[i]
        \/ \E k \in 1..Len(o) : i = L + k /\ new[i] = g[k]
  <2>. TAKE i \in 1..Len(new)
  <2>1. CASE i <= L
    BY <1>6, <1>7, <2>1
  <2>2. CASE ~ (i <= L)
    <3>1. i - L \in 1..Len(o) /\ i = L + (i - L) /\ i \in 1..(L + Len(o))
      BY <1>2, <1>6, <1>7, <2>2
    <3>. QED BY <1>7, <2>2, <3>1
  <2>. QED BY <2>1, <2>2
<1>9. /\ \A i \in 1..L : i \in 1..Len(new) /\ new[i] = es[i]
      /\ \A k \in 1..Len(o) : L + k \in 1..Len(new) /\ new[L + k] = g[k]
  <2>1. ASSUME NEW i \in 1..L
        PROVE  i \in 1..Len(new) /\ new[i] = es[i]
    BY <1>2, <1>6, <1>7
  <2>2. ASSUME NEW k \in 1..Len(o)
        PROVE  L + k \in 1..Len(new) /\ new[L + k] = g[k]
    <3>1. L + k \in 1..(L + Len(o)) /\ ~ (L + k <= L) /\ (L + k) - L = k
      BY <1>2, <1>6
    <3>. QED BY ONLY <1>7, <3>1
  <2>. QED BY <2>1, <2>2
<1>. HIDE DEF L
<1>10. ASSUME NEW k \in 1..Len(o)
       PROVE  EntryRight(g[k], W) /\ W.truth[o[k]] = Befriended(n)
  <2>1. W.truth[o[k]] = Befriended(n) /\ o[k] \in Buddy
    BY <1>1, <1>2 DEF Among
  <2>2. EntryFields(g[k], o[k], W)
    BY <1>4, <2>1, UnknownFacts DEF EntryFields
  <2>. QED BY <1>4, <2>1, <2>2, RightFields
<1>11. ASSUME NEW i \in 1..L
       PROVE  EntryRight(es[i], W) /\ es[i].username \in Buddy /\ ~ Among(es[i].username, o)
  <2>1. EntryRight(es[i], V) /\ es[i].username \in Buddy /\ V.truth[es[i].username].friend
    BY ShownRows DEF Shows, L
  <2>2. ~ Among(es[i].username, o)
    BY <1>1, <2>1 DEF Among
  <2>. QED BY <1>1, <2>1, <2>2, StillRight
<1>12. ASSUME NEW i \in 1..Len(new)
       PROVE  EntryRight(new[i], W)
  BY <1>8, <1>10, <1>11
<1>13. ASSUME NEW i \in 1..Len(new), NEW j \in 1..Len(new), new[i].username = new[j].username
       PROVE  i = j
  <2>1. \A a, b \in 1..L : es[a].username = es[b].username => a = b
    BY DEF Shows, L
  <2>2. \A a \in 1..L, k \in 1..Len(o) : es[a].username # g[k].username
    BY <1>4, <1>11 DEF Among
  <2>3. \A k, m \in 1..Len(o) : g[k].username = g[m].username => k = m
    BY <1>1, <1>4
  <2>4. CASE i \in 1..L /\ new[i] = es[i]
    BY <1>8, <1>13, <2>1, <2>2, <2>4
  <2>5. ASSUME NEW k \in 1..Len(o), i = L + k, new[i] = g[k]
        PROVE  i = j
    BY <1>8, <1>13, <2>2, <2>3, <2>5
  <2>. QED BY <1>8, <2>4, <2>5
<1>14. ASSUME NEW b \in Buddy, W.truth[b].friend
       PROVE  \E i \in 1..Len(new) : new[i].username = b
  <2>1. CASE Among(b, o)
    <3>1. PICK k \in 1..Len(o) : o[k] = b
      BY <2>1 DEF Among
    <3>. QED BY <1>4, <1>9, <3>1
  <2>2. CASE ~ Among(b, o)
    <3>1. V.truth[b].friend
      BY <1>1, <1>14, <2>2
    <3>2. PICK i \in 1..L : es[i].username = b
      BY <3>1 DEF Shows, L
    <3>. QED BY <1>9, <3>2
  <2>. QED BY <2>1, <2>2
<1>. QED BY <1>3, <1>7, <1>12, <1>13, <1>14 DEF Shows

LEMMA ResultsOf ==
  ASSUME NEW es, NEW p
  PROVE  /\ p.kind = "names" => Results(es, p) = {InitEntries(es, p.items)}
         /\ p.kind = "online" => Results(es, p) = {UpdateOnline(es, p.items)}
         /\ p.kind = "games" =>
              Results(es, p) = {RemoveById(FirstGames(es, p.items), word) : word \in HeapWords}
         /\ p.kind = "games2" =>
              Results(es, p) = {RemoveById(SecondGames(es, p.items), word) : word \in HeapWords}
         /\ p.kind = "removed" => Results(es, p) = {RemoveById(es, p.id)}
         /\ p.kind = "status" => Results(es, p) = {UpdateStatus(es, p.items)}
         /\ p.kind = "nick" => Results(es, p) = {UpdateNick(es, p)}
BY DEF Results, FirstGames, SecondGames

\* The kind of a packet that tells something.
LEMMA Kinds ==
  ASSUME NEW V, NEW p, NEW W
  PROVE  /\ TellsNames(V, p, W) => p.kind = "names"
         /\ TellsOnline(V, p, W) => p.kind = "online"
         /\ TellsGames(V, p, W) => p.kind = "games"
         /\ TellsGames2(V, p, W) => p.kind = "games2"
         /\ TellsStatus(V, p, W) => p.kind = "status"
         /\ TellsNick(V, p, W) => p.kind = "nick"
         /\ TellsRemoved(V, p, W) => p.kind = "removed"
<1>1. /\ \A o, n : NamesPacket(o, n).kind = "names"
      /\ \A o, r : OnlinePacket(o, r).kind = "online"
      /\ \A o, r, g : GamesPacket(o, r, g).kind = "games"
      /\ \A o, r, g : Games2Packet(o, r, g).kind = "games2"
      /\ \A o, r, m : StatusPacket(o, r, m).kind = "status"
      /\ \A b, n : NickPacket(b, n).kind = "nick"
      /\ \A b : RemovedPacket(b).kind = "removed"
  BY DEF NamesPacket, OnlinePacket, GamesPacket, Games2Packet, StatusPacket, NickPacket,
         RemovedPacket
<1>2. TellsNames(V, p, W) => p.kind = "names"
  BY ONLY <1>1 DEF TellsNames
<1>3. TellsOnline(V, p, W) => p.kind = "online"
  BY ONLY <1>1 DEF TellsOnline
<1>4. TellsGames(V, p, W) => p.kind = "games"
  BY ONLY <1>1 DEF TellsGames
<1>5. TellsGames2(V, p, W) => p.kind = "games2"
  BY ONLY <1>1 DEF TellsGames2
<1>6. TellsStatus(V, p, W) => p.kind = "status"
  BY ONLY <1>1 DEF TellsStatus
<1>7. TellsNick(V, p, W) => p.kind = "nick"
  BY ONLY <1>1 DEF TellsNick
<1>8. TellsRemoved(V, p, W) => p.kind = "removed"
  BY ONLY <1>1 DEF TellsRemoved
<1>. QED BY <1>2, <1>3, <1>4, <1>5, <1>6, <1>7, <1>8

-----------------------------------------------------------------------------
(* What a stray removal leaves alone *)

LEMMA ShowsHolds ==
  ASSUME NEW V, NEW es, Shows(es, V)
  PROVE  Holds(es, V)
BY DEF Shows, Holds, EntryRight, EntryFields

LEMMA HeldRows ==
  ASSUME NEW V, NEW es, Holds(es, V)
  PROVE  /\ es \in Seq(Row) /\ Len(es) \in Nat
         /\ \A i \in 1..Len(es) : es[i] \in Row /\ es[i].username \in Buddy
<1>1. es \in Seq(Row)
  BY DEF Holds
<1>2. Len(es) \in Nat /\ \A i \in 1..Len(es) : es[i] \in Row
  BY <1>1, LenProperties, ElementOfSeq
<1>. QED BY <1>1, <1>2, RowFacts

LEMMA HeldById ==
  ASSUME NEW V, NEW es, Holds(es, V), NEW b \in Buddy, NEW i \in 1..Len(es)
  PROVE  es[i].username = b <=> IndexById(es, UserId[b]) = i
<1> DEFINE I == {k \in 1..Len(es) : es[k].userid = UserId[b]}
           j == IndexById(es, UserId[b])
<1>1. FirstOf(j, I)
  BY LookUps
<1>2. \A k \in 1..Len(es) : k \in I <=> es[k].username = b
  <2>1. \A k \in 1..Len(es) : es[k].username \in Buddy
    BY HeldRows
  <2>2. \A k \in 1..Len(es) : es[k].userid = UserId[es[k].username]
    BY DEF Holds
  <2>. QED BY <2>1, <2>2, Ids
<1>3. \A k, m \in 1..Len(es) : es[k].username = b /\ es[m].username = b => k = m
  BY DEF Holds
<1>4. I \subseteq 1..Len(es) /\ i # 0
  OBVIOUS
<1>. HIDE DEF I, j
<1>5. ASSUME es[i].username = b
      PROVE  j = i
  <2>1. i \in I
    BY <1>2, <1>5
  <2>2. j \in I
    BY <1>1, <2>1 DEF FirstOf
  <2>. QED BY <1>2, <1>3, <1>4, <1>5, <2>2
<1>6. ASSUME j = i
      PROVE  es[i].username = b
  <2>1. j \in I
    BY <1>1, <1>4, <1>6 DEF FirstOf
  <2>. QED BY <1>2, <1>6, <2>1
<1>. QED BY <1>5, <1>6 DEF j

\* The same rows but for what they show.
Carried(new, es, W) ==
  /\ new \in Seq(Row) /\ Len(new) = Len(es)
  /\ \A i \in 1..Len(es) : /\ new[i].username = es[i].username
                           /\ new[i].userid = es[i].userid
                           /\ new[i].sid = W.truth[es[i].username].sid
                           /\ W.truth[es[i].username].friend

LEMMA HoldsAgain ==
  ASSUME NEW V, NEW W, NEW es, Holds(es, V), NEW new, Carried(new, es, W)
  PROVE  Holds(new, W) /\ NamesOf(new) = NamesOf(es)
<1>1. /\ \A i \in 1..Len(es) : es[i].userid = UserId[es[i].username]
      /\ \A i, k \in 1..Len(es) : es[i].username = es[k].username => i = k
  BY DEF Holds
<1>2. Holds(new, W)
  BY <1>1 DEF Holds, Carried
<1>3. NamesOf(new) = NamesOf(es)
  BY DEF NamesOf, Carried
<1>. QED BY <1>2, <1>3

LEMMA SameFriends ==
  ASSUME NEW V \in SoundViews, NEW W \in SoundViews, NEW p, NEW b \in Buddy,
         TellsGames(V, p, W) \/ TellsGames2(V, p, W) \/ TellsStatus(V, p, W) \/ TellsNick(V, p, W)
  PROVE  W.truth[b].friend = V.truth[b].friend /\ W.truth[b].sid = V.truth[b].sid
<1>1. V.truth[b] \in Person
  BY ViewFacts
<1>2. CASE TellsGames(V, p, W)
  <2>1. PICK g \in Games \union {0} :
          W.truth[b] = Played(V.truth[b], g) \/ W.truth[b] = V.truth[b]
    BY <1>2 DEF TellsGames
  <2>2. LET u == Played(V.truth[b], g) IN u.friend = V.truth[b].friend /\ u.sid = V.truth[b].sid
    BY ONLY <1>1, g \in Games \union {0}, PersonFacts
  <2>. QED BY <2>1, <2>2
<1>3. CASE TellsGames2(V, p, W)
  <2>1. PICK g \in Games \union {0} :
          W.truth[b] = Talked(V.truth[b], g) \/ W.truth[b] = V.truth[b]
    BY <1>3 DEF TellsGames2
  <2>2. LET u == Talked(V.truth[b], g) IN u.friend = V.truth[b].friend /\ u.sid = V.truth[b].sid
    BY ONLY <1>1, g \in Games \union {0}, PersonFacts
  <2>. QED BY <2>1, <2>2
<1>4. CASE TellsStatus(V, p, W)
  BY <1>1, <1>4, PersonFacts DEF TellsStatus
<1>5. CASE TellsNick(V, p, W)
  <2>1. PICK c \in Buddy, n \in Nicks : Becomes(V, W, c, Renamed(V.truth[c], n))
    BY <1>5 DEF TellsNick
  <2>. QED BY <1>1, <2>1, PersonFacts DEF Becomes
<1>. QED BY <1>2, <1>3, <1>4, <1>5

LEMMA HoldsOnline ==
  ASSUME NEW V \in SoundViews, NEW W \in SoundViews, NEW es, Holds(es, V),
         NEW p, TellsOnline(V, p, W), NEW new, new = UpdateOnline(es, p.items)
  PROVE  Holds(new, W) /\ NamesOf(new) = NamesOf(es)
<1>1. PICK o \in Seq(Buddy), r \in [Buddy -> 0..MaxSid] :
        /\ p = OnlinePacket(o, r)
        /\ \A b \in Buddy : IF Among(b, o) THEN W.truth[b] = Moved(V.truth[b], r[b])
                            ELSE W.truth[b] = V.truth[b]
  BY DEF TellsOnline
<1> DEFINE items == p.items
           n == Len(o)
<1>2. /\ SidItems(items, n)
      /\ \A k \in 1..n : items[k].id = UserId[o[k]] /\ items[k].sid = r[o[k]]
  BY <1>1, OnlineItems
<1>3. n \in Nat /\ \A k \in 1..n : o[k] \in Buddy
  BY OrderFacts
<1>. HIDE DEF items
<1>4. es \in Seq(Row) /\ new = UpdateOnline(es, items)
  BY HeldRows DEF items
<1>5. /\ new \in Seq(Row) /\ Len(new) = Len(es)
      /\ \A i \in 1..Len(es) :
           \/ new[i] = es[i] /\ \A k \in 1..n : IndexById(es, items[k].id) # i
           \/ \E k \in 1..n : /\ IndexById(es, items[k].id) = i
                             /\ new[i] = WithSid(es[i], items[k].sid)
  BY <1>2, <1>3, <1>4, OnlineEffect
<1>. HIDE DEF n
<1>6. ASSUME NEW i \in 1..Len(es)
      PROVE  /\ new[i].username = es[i].username /\ new[i].userid = es[i].userid
             /\ new[i].sid = W.truth[es[i].username].sid
             /\ W.truth[es[i].username].friend
  <2> DEFINE b == es[i].username
  <2>1. /\ b \in Buddy /\ es[i] \in Row /\ V.truth[b].friend /\ es[i].sid = V.truth[b].sid
        /\ V.truth[b] \in Person
    BY HeldRows, ViewFacts DEF Holds
  <2>2. ASSUME new[i] = es[i], \A k \in 1..n : IndexById(es, items[k].id) # i
        PROVE  new[i].sid = W.truth[b].sid /\ W.truth[b].friend
    <3>1. ~ Among(b, o)
      <4>1. ASSUME NEW k \in 1..n, o[k] = b
            PROVE  FALSE
        BY <1>2, <2>1, <2>2, <4>1, HeldById
      <4>. QED BY <4>1 DEF Among, n
    <3>2. W.truth[b] = V.truth[b]
      BY <1>1, <2>1, <3>1
    <3>. QED BY <2>1, <2>2, <3>2
  <2>3. ASSUME NEW k \in 1..n, IndexById(es, items[k].id) = i,
               new[i] = WithSid(es[i], items[k].sid)
        PROVE  /\ new[i].username = b /\ new[i].userid = es[i].userid
               /\ new[i].sid = W.truth[b].sid /\ W.truth[b].friend
    <3>1. o[k] = b
      BY <1>2, <1>3, <2>3, HeldById
    <3>2. r[b] \in 0..MaxSid /\ items[k].sid = r[b]
      BY <1>2, <2>1, <3>1
    <3>3. new[i].username = b /\ new[i].userid = es[i].userid /\ new[i].sid = r[b]
      BY <2>1, <2>3, <3>2, WithFacts
    <3>4. W.truth[b] = Moved(V.truth[b], r[b])
      BY <1>1, <2>1, <3>1 DEF Among, n
    <3>5. W.truth[b].friend = V.truth[b].friend /\ W.truth[b].sid = r[b]
      <4>1. V.truth[b] \in Person /\ r[b] \in 0..MaxSid
        BY <2>1, <3>2
      <4>. QED BY ONLY <3>4, <4>1, PersonFacts
    <3>. QED BY <2>1, <3>3, <3>5
  <2>. QED BY <1>5, <2>2, <2>3
<1>7. Carried(new, es, W)
  BY <1>5, <1>6 DEF Carried
<1>. QED BY <1>7, HoldsAgain

\* ... and the packets that only change that.
LEMMA HoldsKept ==
  ASSUME NEW V \in SoundViews, NEW W \in SoundViews, NEW es, Holds(es, V), NEW p,
         TellsGames(V, p, W) \/ TellsGames2(V, p, W) \/ TellsStatus(V, p, W) \/ TellsNick(V, p, W),
         NEW new, new \in Seq(Row), Len(new) = Len(es),
         \A i \in 1..Len(es) : /\ new[i].username = es[i].username
                               /\ new[i].userid = es[i].userid /\ new[i].sid = es[i].sid
  PROVE  Holds(new, W) /\ NamesOf(new) = NamesOf(es)
<1>1. ASSUME NEW i \in 1..Len(es)
      PROVE  /\ new[i].username = es[i].username /\ new[i].userid = es[i].userid
             /\ new[i].sid = W.truth[es[i].username].sid
             /\ W.truth[es[i].username].friend
  <2>1. /\ es[i].username \in Buddy /\ V.truth[es[i].username].friend
        /\ es[i].sid = V.truth[es[i].username].sid
    <3>1. es[i].username \in Buddy
      BY HeldRows
    <3>. QED BY <3>1 DEF Holds
  <2>. QED BY <2>1, SameFriends
<1>2. Carried(new, es, W)
  BY <1>1 DEF Carried
<1>. QED BY <1>2, HoldsAgain

LEMMA HoldsGames ==
  ASSUME NEW V \in SoundViews, NEW W \in SoundViews, NEW es, Holds(es, V),
         NEW p, NEW new,
         \/ TellsGames(V, p, W) /\ new = FirstGames(es, p.items)
         \/ TellsGames2(V, p, W) /\ new = SecondGames(es, p.items)
  PROVE  /\ Holds(new, W) /\ NamesOf(new) = NamesOf(es) /\ Len(new) = Len(es)
<1> DEFINE Kept(i) == /\ new[i].username = es[i].username /\ new[i].userid = es[i].userid
                      /\ new[i].sid = es[i].sid
<1>0. es \in Seq(Row)
  BY HeldRows
<1>1. \A i \in 1..Len(es) : es[i] \in Row
  BY HeldRows
<1>2. CASE TellsGames(V, p, W) /\ new = FirstGames(es, p.items)
  <2>1. PICK o \in Seq(Buddy), g \in Games \union {0} : p = GamesPacket(o, SidOf(V), g)
    BY <1>2 DEF TellsGames
  <2> DEFINE items == p.items
             n == Len(o)
  <2>2. GameItems(items, n)
    BY <2>1, GameItemsOf
  <2>8. \A k \in 1..n : items[k].game = g
    BY <2>1, GameItemsOf
  <2>3. n \in Nat
    BY OrderFacts
  <2>. HIDE DEF items, n
  <2>4. new = FirstGames(es, items)
    BY <1>2 DEF items
  <2>5. /\ new \in Seq(Row) /\ Len(new) = Len(es)
        /\ \A i \in 1..Len(es) :
             \/ new[i] = es[i] /\ \A k \in 1..n : IndexBySid(es, items[k].sid) # i
             \/ \E k \in 1..n : /\ IndexBySid(es, items[k].sid) = i
                               /\ new[i] = WithGame(es[i], items[k].game)
    BY ONLY <1>0, <2>2, <2>3, <2>4, GamesEffect
  <2>6. \A i \in 1..Len(es) : new[i] = es[i] \/ new[i] = WithGame(es[i], g)
    BY <2>5, <2>8
  <2>7. \A i \in 1..Len(es) : Kept(i)
    BY ONLY <1>1, <2>6, g \in Games \union {0}, WithFacts
  <2>. QED BY <1>2, <2>5, <2>7, HoldsKept
<1>3. CASE TellsGames2(V, p, W) /\ new = SecondGames(es, p.items)
  <2>1. PICK o \in Seq(Buddy), g \in Games \union {0} : p = Games2Packet(o, SidOf(V), g)
    BY <1>3 DEF TellsGames2
  <2> DEFINE items == p.items
             n == Len(o)
  <2>2. GameItems(items, n)
    BY <2>1, GameItemsOf
  <2>8. \A k \in 1..n : items[k].game = g
    BY <2>1, GameItemsOf
  <2>3. n \in Nat
    BY OrderFacts
  <2>. HIDE DEF items, n
  <2>4. new = SecondGames(es, items)
    BY <1>3 DEF items
  <2>5. /\ new \in Seq(Row) /\ Len(new) = Len(es)
        /\ \A i \in 1..Len(es) :
             \/ new[i] = es[i] /\ \A k \in 1..n : IndexBySid(es, items[k].sid) # i
             \/ \E k \in 1..n : /\ IndexBySid(es, items[k].sid) = i
                               /\ new[i] = WithGame2(es[i], items[k].game)
    BY ONLY <1>0, <2>2, <2>3, <2>4, Games2Effect
  <2>6. \A i \in 1..Len(es) : new[i] = es[i] \/ new[i] = WithGame2(es[i], g)
    BY <2>5, <2>8
  <2>7. \A i \in 1..Len(es) : Kept(i)
    BY ONLY <1>1, <2>6, g \in Games \union {0}, WithFacts
  <2>. QED BY <1>3, <2>5, <2>7, HoldsKept
<1>. QED BY <1>2, <1>3

LEMMA HoldsStatus ==
  ASSUME NEW V \in SoundViews, NEW W \in SoundViews, NEW es, Holds(es, V),
         NEW p, TellsStatus(V, p, W), NEW new, new = UpdateStatus(es, p.items)
  PROVE  Holds(new, W) /\ NamesOf(new) = NamesOf(es)
<1>1. PICK o \in Seq(Buddy), msg \in Statuses : p = StatusPacket(o, SidOrStrange(V), msg)
  BY DEF TellsStatus
<1> DEFINE items == p.items
           n == Len(o)
           known == Known(es, items)
<1>2. /\ Len(items) = n /\ \E S : items \in Seq(S)
      /\ \A k \in 1..n : items[k].msg = msg
  BY <1>1, StatusItems
<1>3. n \in Nat
  BY OrderFacts
<1>0. es \in Seq(Row)
  BY HeldRows
<1>4. \A i \in 1..Len(es) : es[i] \in Row
  BY HeldRows
<1>. HIDE DEF items, n
<1>5. PICK m \in 0..Len(items) : KnownUpTo(es, items, m)
  <2>1. PICK S : items \in Seq(S)
    BY <1>2
  <2>. QED BY <2>1, KnownFacts
<1>6. m \in Nat /\ DOMAIN known = 1..m /\ \A k \in 1..m : known[k].msg = msg
  <2>1. m \in 0..n /\ \A k \in 1..m : k \in 1..n
    BY <1>2, <1>3
  <2>. QED BY <1>2, <1>3, <1>5, <2>1 DEF KnownUpTo
<1>. HIDE DEF known
<1>7. /\ new \in Seq(Row) /\ Len(new) = Len(es)
      /\ \A i \in 1..Len(es) :
           \/ new[i] = es[i] /\ \A k \in 1..m : IndexBySid(es, known[k].sid) # i
           \/ \E k \in 1..m : /\ IndexBySid(es, known[k].sid) = i
                             /\ new[i] = WithWord(es[i], known[k].msg)
  <2>1. new = PutWords(es, known)
    BY DEF UpdateStatus, PutWords, known, items
  <2>2. WordItems(known, m)
    BY <1>6 DEF WordItems
  <2>3. m \in Nat
    BY <1>6
  <2>4. WordsShown(PutWords(es, known), es, known, m)
    BY ONLY <1>0, <2>2, <2>3, WordsAreShown
  <2>. QED BY ONLY <2>1, <2>4 DEF WordsShown
<1>8. \A i \in 1..Len(es) : new[i] = es[i] \/ new[i] = WithWord(es[i], msg)
  BY <1>6, <1>7
<1>9. \A i \in 1..Len(es) : /\ new[i].username = es[i].username
                            /\ new[i].userid = es[i].userid /\ new[i].sid = es[i].sid
  BY ONLY <1>4, <1>8, msg \in Statuses, WithFacts
<1>. QED BY <1>7, <1>9, HoldsKept

LEMMA HoldsNick ==
  ASSUME NEW V \in SoundViews, NEW W \in SoundViews, NEW es, Holds(es, V),
         NEW p, TellsNick(V, p, W), NEW new, new = UpdateNick(es, p)
  PROVE  Holds(new, W) /\ NamesOf(new) = NamesOf(es)
<1>1. PICK b \in Buddy, n \in Nicks : p = NickPacket(b, n)
  BY DEF TellsNick
<1>2. p.id = UserId[b] /\ p.nick = n
  BY <1>1 DEF NickPacket
<1> DEFINE i == IndexById(es, UserId[b])
<1>3. es \in Seq(Row) /\ Len(es) \in Nat /\ \A k \in 1..Len(es) : es[k] \in Row
  BY HeldRows
<1>4. i \in 0..Len(es)
  BY <1>3, LookUpRange
<1>5. new = IF i = 0 THEN es ELSE [es EXCEPT ![i] = WithNick(es[i], n)]
  BY <1>2 DEF UpdateNick, WithNick
<1>. HIDE DEF i
<1>6. CASE i = 0
  BY <1>3, <1>5, <1>6, HoldsKept
<1>7. CASE i # 0
  <2> DEFINE r == WithNick(es[i], n)
             q == [es EXCEPT ![i] = r]
  <2>1. i \in 1..Len(es)
    BY <1>3, <1>4, <1>7
  <2>2. /\ r \in Row /\ r.username = es[i].username /\ r.userid = es[i].userid
        /\ r.sid = es[i].sid
    BY ONLY <1>3, <2>1, n \in Nicks, WithFacts
  <2>. HIDE DEF r
  <2>3. q \in Seq(Row) /\ Len(q) = Len(es) /\ \A k \in 1..Len(es) : q[k] = IF k = i THEN r ELSE es[k]
    BY ONLY <1>3, <2>1, <2>2, ExceptSeq
  <2>4. new = q
    BY <1>5, <1>7 DEF r
  <2>. HIDE DEF q
  <2>5. /\ new \in Seq(Row) /\ Len(new) = Len(es)
        /\ \A k \in 1..Len(es) : /\ new[k].username = es[k].username
                                 /\ new[k].userid = es[k].userid /\ new[k].sid = es[k].sid
    BY <2>2, <2>3, <2>4
  <2>. QED BY <2>5, HoldsKept
<1>. QED BY <1>6, <1>7

\* Whatever id is removed, one entry goes: the one of that id.
LEMMA HoldsWithout ==
  ASSUME NEW V, NEW es, Holds(es, V), NEW w, NEW new, new = RemoveById(es, w)
  PROVE  /\ Holds(new, V)
         /\ \/ /\ new = es
               /\ \A i \in 1..Len(es) : es[i].userid # w
            \/ /\ Len(new) = Len(es) - 1
               /\ \E b \in Buddy : UserId[b] = w /\ NamesOf(new) = NamesOf(es) \ {b}
<1> DEFINE i == IndexById(es, w)
<1>1. es \in Seq(Row) /\ Len(es) \in Nat /\ \A k \in 1..Len(es) : es[k].username \in Buddy
  BY HeldRows
<1>2. /\ \A k \in 1..Len(es) : /\ V.truth[es[k].username].friend
                               /\ es[k].userid = UserId[es[k].username]
                               /\ es[k].sid = V.truth[es[k].username].sid
      /\ \A j, k \in 1..Len(es) : es[j].username = es[k].username => j = k
  BY DEF Holds
<1>3. FirstOf(i, {k \in 1..Len(es) : es[k].userid = w})
  BY LookUps
<1>4. new = IF i = 0 THEN es ELSE RemoveAt(es, i)
  BY DEF RemoveById
<1>. HIDE DEF i
<1>5. CASE {k \in 1..Len(es) : es[k].userid = w} = {}
  <2>1. new = es
    BY <1>3, <1>4, <1>5 DEF FirstOf
  <2>. QED BY <1>5, <2>1
<1>6. CASE {k \in 1..Len(es) : es[k].userid = w} # {}
  <2>1. i \in 1..Len(es) /\ es[i].userid = w
    BY <1>3, <1>6 DEF FirstOf
  <2>2. new = RemoveAt(es, i)
    BY <1>1, <1>4, <2>1
  <2>3. /\ new \in Seq(Row) /\ Len(new) = Len(es) - 1
        /\ \A k \in 1..(Len(es) - 1) : new[k] = IF k < i THEN es[k] ELSE es[k + 1]
    BY ONLY <1>1, <2>1, <2>2, RemoveAtFacts
  <2> DEFINE At(k) == IF k < i THEN k ELSE k + 1
  <2>4. \A k \in 1..Len(new) : At(k) \in 1..Len(es) /\ At(k) # i /\ new[k] = es[At(k)]
    BY <1>1, <2>1, <2>3
  <2>5. \A k, m \in 1..Len(new) : At(k) = At(m) => k = m
    BY <1>1, <2>1, <2>3
  <2>6. \A j \in 1..Len(es) : j # i => \E k \in 1..Len(new) : At(k) = j
    <3>. TAKE j \in 1..Len(es)
    <3>. HAVE j # i
    <3>1. CASE j < i
      <4>1. j \in 1..Len(new) /\ At(j) = j
        BY <1>1, <2>1, <2>3, <3>1
      <4>. QED BY <4>1
    <3>2. CASE ~ (j < i)
      <4>1. j - 1 \in 1..Len(new) /\ At(j - 1) = j
        BY <1>1, <2>1, <2>3, <3>2
      <4>. QED BY <4>1
    <3>. QED BY <3>1, <3>2
  <2>. HIDE DEF At
  <2>7. Holds(new, V)
    BY <1>2, <2>3, <2>4, <2>5 DEF Holds
  <2> DEFINE b == es[i].username
  <2>8. b \in Buddy /\ UserId[b] = w
    BY <1>1, <1>2, <2>1
  <2>9. NamesOf(new) = NamesOf(es) \ {b}
    <3>1. ASSUME NEW c \in NamesOf(new)
          PROVE  c \in NamesOf(es) \ {b}
      <4>1. PICK k \in 1..Len(new) : new[k].username = c
        BY <3>1 DEF NamesOf
      <4>. QED BY <1>2, <2>1, <2>4, <4>1 DEF NamesOf
    <3>2. ASSUME NEW c \in NamesOf(es) \ {b}
          PROVE  c \in NamesOf(new)
      <4>1. PICK j \in 1..Len(es) : es[j].username = c
        BY <3>2 DEF NamesOf
      <4>2. j # i
        BY <3>2, <4>1
      <4>3. PICK k \in 1..Len(new) : At(k) = j
        BY <2>6, <4>2
      <4>. QED BY <2>4, <4>1, <4>3 DEF NamesOf
    <3>. QED BY <3>1, <3>2
  <2>. HIDE DEF b
  <2>. QED BY <2>3, <2>7, <2>8, <2>9
<1>. QED BY <1>5, <1>6

LEMMA HoldsRemoved ==
  ASSUME NEW V \in SoundViews, NEW W \in SoundViews, NEW es, Holds(es, V),
         NEW p, TellsRemoved(V, p, W), NEW new, new = RemoveById(es, p.id)
  PROVE  /\ Holds(new, W)
         /\ \E b \in Buddy : p.id = UserId[b] /\ NamesOf(new) = NamesOf(es) \ {b}
<1>1. PICK b \in Buddy : p = RemovedPacket(b) /\ Becomes(V, W, b, Unknown)
  BY DEF TellsRemoved
<1>2. p.id = UserId[b]
  BY <1>1 DEF RemovedPacket
<1>3. /\ Holds(new, V)
      /\ \/ new = es /\ \A i \in 1..Len(es) : es[i].userid # UserId[b]
         \/ \E c \in Buddy : UserId[c] = UserId[b] /\ NamesOf(new) = NamesOf(es) \ {c}
  BY <1>2, HoldsWithout
<1>4. NamesOf(new) = NamesOf(es) \ {b}
  <2>1. CASE new = es /\ \A i \in 1..Len(es) : es[i].userid # UserId[b]
    BY <2>1 DEF Holds, NamesOf
  <2>2. CASE \E c \in Buddy : UserId[c] = UserId[b] /\ NamesOf(new) = NamesOf(es) \ {c}
    BY <2>2, Ids
  <2>. QED BY <1>3, <2>1, <2>2
<1>5. ASSUME NEW i \in 1..Len(new)
      PROVE  W.truth[new[i].username] = V.truth[new[i].username]
  <2>1. new[i].username \in Buddy /\ new[i].username \in NamesOf(new)
    BY <1>3, HeldRows DEF NamesOf
  <2>2. new[i].username # b
    BY <1>4, <2>1
  <2>. QED BY <1>1, <2>1, <2>2 DEF Becomes
<1>6. Holds(new, W)
  BY <1>3, <1>5 DEF Holds
<1>. QED BY <1>2, <1>4, <1>6

LEMMA HoldsNames ==
  ASSUME NEW V \in SoundViews, NEW W \in SoundViews, NEW es, Holds(es, V),
         NEW p, TellsNames(V, p, W), NEW new, new = InitEntries(es, p.items)
  PROVE  Holds(new, W) /\ NamesOf(es) \subseteq NamesOf(new)
<1>1. PICK o \in Seq(Buddy), n \in Nicks :
        /\ p = NamesPacket(o, n)
        /\ \A k, m \in 1..Len(o) : o[k] = o[m] => k = m
        /\ \A k \in 1..Len(o) : ~V.truth[o[k]].friend
        /\ \A b \in Buddy : W.truth[b] = IF Among(b, o) THEN Befriended(n) ELSE V.truth[b]
  BY DEF TellsNames
<1> DEFINE g == [k \in 1..Len(o) |-> NewEntry(o[k], UserId[o[k]], n)]
           L == Len(es)
<1>2. Len(o) \in Nat /\ \A k \in 1..Len(o) : o[k] \in Buddy
  BY OrderFacts
<1>3. new = es \o g
  <2> DEFINE it == p.items
  <2>1. /\ Len(it) = Len(o)
        /\ \A k \in 1..Len(o) : it[k].name = o[k] /\ it[k].id = UserId[o[k]] /\ it[k].nick = n
    BY <1>1, NamesItems
  <2>2. new = InitEntries(es, it)
    OBVIOUS
  <2>. HIDE DEF it
  <2>3. [k \in 1..Len(it) |-> NewEntry(it[k].name, it[k].id, it[k].nick)] = g
    BY <2>1
  <2>. QED BY <2>1, <2>2, <2>3 DEF InitEntries
<1>4. /\ g \in [1..Len(o) -> Row]
      /\ \A k \in 1..Len(o) : /\ g[k].username = o[k] /\ g[k].userid = UserId[o[k]]
                              /\ g[k].sid = NoSid
  BY <1>2, NewRow
<1>5. g \in Seq(Row) /\ Len(g) = Len(o)
  BY <1>2, <1>4, FunctionIsSeq
<1>6. es \in Seq(Row) /\ L \in Nat
  BY HeldRows
<1>. HIDE DEF g
<1>7. /\ new \in Seq(Row) /\ Len(new) = L + Len(o)
      /\ \A i \in 1..(L + Len(o)) : new[i] = IF i <= L THEN es[i] ELSE g[i - L]
  <2>1. /\ es \o g \in Seq(Row) /\ Len(es \o g) = Len(es) + Len(g)
        /\ \A i \in 1..(Len(es) + Len(g)) :
             (es \o g)[i] = IF i <= Len(es) THEN es[i] ELSE g[i - Len(es)]
    BY ONLY <1>5, <1>6, ConcatProperties
  <2>. QED BY ONLY <1>3, <1>5, <2>1 DEF L
<1>8. \A i \in 1..Len(new) :
        \/ i \in 1..L /\ new[i] = es[i]
        \/ \E k \in 1..Len(o) : i = L + k /\ new[i] = g[k]
  <2>. TAKE i \in 1..Len(new)
  <2>1. CASE i <= L
    BY <1>6, <1>7, <2>1
  <2>2. CASE ~ (i <= L)
    <3>1. i - L \in 1..Len(o) /\ i = L + (i - L) /\ i \in 1..(L + Len(o))
      BY <1>2, <1>6, <1>7, <2>2
    <3>. QED BY <1>7, <2>2, <3>1
  <2>. QED BY <2>1, <2>2
<1>9. NamesOf(es) \subseteq NamesOf(new)
  <2>1. ASSUME NEW i \in 1..L
        PROVE  i \in 1..Len(new) /\ new[i] = es[i]
    BY <1>2, <1>6, <1>7
  <2>. QED BY <2>1 DEF NamesOf, L
<1>10. /\ \A i \in 1..L : /\ es[i].username \in Buddy /\ V.truth[es[i].username].friend
                           /\ es[i].userid = UserId[es[i].username]
                           /\ es[i].sid = V.truth[es[i].username].sid
       /\ \A i, j \in 1..L : es[i].username = es[j].username => i = j
  BY HeldRows DEF Holds, L
<1>. HIDE DEF L
<1>11. \A k \in 1..Len(o) : W.truth[o[k]].friend /\ W.truth[o[k]].sid = NoSid
  BY <1>1, <1>2, UnknownFacts DEF Among
<1>12. \A i \in 1..L : ~ Among(es[i].username, o) /\ W.truth[es[i].username] = V.truth[es[i].username]
  BY <1>1, <1>10 DEF Among
<1>13. ASSUME NEW i \in 1..Len(new)
       PROVE  /\ W.truth[new[i].username].friend /\ new[i].userid = UserId[new[i].username]
              /\ new[i].sid = W.truth[new[i].username].sid
  BY <1>4, <1>8, <1>10, <1>11, <1>12
<1>14. ASSUME NEW i \in 1..Len(new), NEW j \in 1..Len(new), new[i].username = new[j].username
       PROVE  i = j
  <2>1. \A a \in 1..L, k \in 1..Len(o) : es[a].username # g[k].username
    BY <1>4, <1>12 DEF Among
  <2>2. \A k, m \in 1..Len(o) : g[k].username = g[m].username => k = m
    BY <1>1, <1>4
  <2>3. CASE i \in 1..L /\ new[i] = es[i]
    BY <1>8, <1>10, <1>14, <2>1, <2>3
  <2>4. ASSUME NEW k \in 1..Len(o), i = L + k, new[i] = g[k]
        PROVE  i = j
    BY <1>8, <1>14, <2>1, <2>2, <2>4
  <2>. QED BY <1>8, <2>3, <2>4
<1>. QED BY <1>7, <1>9, <1>13, <1>14 DEF Holds

\* Whatever the server tells and whatever word the removal reads, the entries
\* are friends of the server's, once each, and lose none but the removed one.
LEMMA ListKeepsOrder ==
  ASSUME NEW V \in SoundViews, NEW W \in SoundViews, NEW es, Holds(es, V),
         NEW p, Tells(V, p, W), NEW new \in Results(es, p)
  PROVE  /\ Holds(new, W)
         /\ \A b \in NamesOf(es) \ NamesOf(new) : Forgets(es, new, p, b)
<1>1. CASE TellsNames(V, p, W)
  <2>1. new = InitEntries(es, p.items)
    BY <1>1, Kinds, ResultsOf
  <2>2. Holds(new, W) /\ NamesOf(es) \subseteq NamesOf(new)
    BY <1>1, <2>1, HoldsNames
  <2>. QED BY <2>2
<1>2. CASE TellsOnline(V, p, W)
  <2>1. new = UpdateOnline(es, p.items)
    BY <1>2, Kinds, ResultsOf
  <2>2. Holds(new, W) /\ NamesOf(new) = NamesOf(es)
    BY <1>2, <2>1, HoldsOnline
  <2>. QED BY <2>2
<1>3. CASE TellsGames(V, p, W) \/ TellsGames2(V, p, W)
  <2>1. p.kind \in {"games", "games2"}
    BY <1>3, Kinds
  <2>2. \E q : \E w \in HeapWords :
          new = RemoveById(q, w) /\ Holds(q, W) /\ NamesOf(q) = NamesOf(es)
    <3>1. CASE TellsGames(V, p, W)
      <4>1. PICK w \in HeapWords : new = RemoveById(FirstGames(es, p.items), w)
        BY <3>1, Kinds, ResultsOf
      <4> DEFINE q == FirstGames(es, p.items)
      <4>2. Holds(q, W) /\ NamesOf(q) = NamesOf(es)
        BY <3>1, HoldsGames
      <4>. HIDE DEF q
      <4>3. new = RemoveById(q, w)
        BY <4>1 DEF q
      <4>. QED BY <4>2, <4>3
    <3>2. CASE TellsGames2(V, p, W)
      <4>1. PICK w \in HeapWords : new = RemoveById(SecondGames(es, p.items), w)
        BY <3>2, Kinds, ResultsOf
      <4> DEFINE q == SecondGames(es, p.items)
      <4>2. Holds(q, W) /\ NamesOf(q) = NamesOf(es)
        BY <3>2, HoldsGames
      <4>. HIDE DEF q
      <4>3. new = RemoveById(q, w)
        BY <4>1 DEF q
      <4>. QED BY <4>2, <4>3
    <3>. QED BY <1>3, <3>1, <3>2
  <2>3. PICK q : \E w \in HeapWords :
          new = RemoveById(q, w) /\ Holds(q, W) /\ NamesOf(q) = NamesOf(es)
    BY <2>2
  <2>4. PICK w \in HeapWords : new = RemoveById(q, w)
    BY <2>3
  <2>5. /\ Holds(new, W)
        /\ \/ new = q
           \/ \E b \in Buddy : UserId[b] = w /\ NamesOf(new) = NamesOf(q) \ {b}
    BY <2>3, <2>4, HoldsWithout
  <2>. QED BY <2>1, <2>3, <2>5 DEF Forgets
<1>4. CASE TellsStatus(V, p, W)
  <2>1. new = UpdateStatus(es, p.items)
    BY <1>4, Kinds, ResultsOf
  <2>2. Holds(new, W) /\ NamesOf(new) = NamesOf(es)
    BY <1>4, <2>1, HoldsStatus
  <2>. QED BY <2>2
<1>5. CASE TellsNick(V, p, W)
  <2>1. new = UpdateNick(es, p)
    BY <1>5, Kinds, ResultsOf
  <2>2. Holds(new, W) /\ NamesOf(new) = NamesOf(es)
    BY <1>5, <2>1, HoldsNick
  <2>. QED BY <2>2
<1>6. CASE TellsRemoved(V, p, W)
  <2>1. p.kind = "removed" /\ new = RemoveById(es, p.id)
    BY <1>6, Kinds, ResultsOf
  <2>2. /\ Holds(new, W)
        /\ \E b \in Buddy : p.id = UserId[b] /\ NamesOf(new) = NamesOf(es) \ {b}
    BY <1>6, <2>1, HoldsRemoved
  <2>. QED BY <2>1, <2>2 DEF Forgets
<1>. QED BY <1>1, <1>2, <1>3, <1>4, <1>5, <1>6 DEF Tells

\* Whatever the server tells, the entries show.
LEMMA ListDoesAsTold ==
  ASSUME NEW V \in SoundViews, NEW W \in SoundViews, NEW es, Shows(es, V),
         NEW p, Tells(V, p, W), NEW new \in Results(es, p),
         ~(p.kind \in {"games", "games2"} /\ Len(new) < Len(es))
  PROVE  Shows(new, W)
<1>1. CASE TellsNames(V, p, W)
  <2>1. new = InitEntries(es, p.items)
    BY <1>1, Kinds, ResultsOf
  <2>. QED BY <1>1, <2>1, ShowsNames
<1>2. CASE TellsOnline(V, p, W)
  <2>1. new = UpdateOnline(es, p.items)
    BY <1>2, Kinds, ResultsOf
  <2>. QED BY <1>2, <2>1, ShowsOnline
<1>3. CASE TellsGames(V, p, W)
  <2> DEFINE q == FirstGames(es, p.items)
  <2>1. p.kind = "games"
    BY <1>3, Kinds
  <2>2. PICK w \in HeapWords : new = RemoveById(q, w)
    BY <2>1, ResultsOf
  <2>3. Shows(q, W)
    BY <1>3, ShowsGames
  <2>4. Len(q) = Len(es)
    BY <1>3, ShowsHolds, HoldsGames
  <2>5. Holds(q, W)
    BY <2>3, ShowsHolds
  <2>. HIDE DEF q
  <2>6. new = q
    <3>1. new = q \/ Len(new) = Len(q) - 1
      BY <2>2, <2>5, HoldsWithout
    <3>2. ~(Len(new) < Len(q))
      BY <2>1, <2>4
    <3>3. Len(q) \in Nat
      BY <2>5, HeldRows
    <3>. QED BY ONLY <3>1, <3>2, <3>3
  <2>. QED BY <2>3, <2>6
<1>4. CASE TellsGames2(V, p, W)
  <2> DEFINE q == SecondGames(es, p.items)
  <2>1. p.kind = "games2"
    BY <1>4, Kinds
  <2>2. PICK w \in HeapWords : new = RemoveById(q, w)
    BY <2>1, ResultsOf
  <2>3. Shows(q, W)
    BY <1>4, ShowsGames2
  <2>4. Len(q) = Len(es)
    BY <1>4, ShowsHolds, HoldsGames
  <2>5. Holds(q, W)
    BY <2>3, ShowsHolds
  <2>. HIDE DEF q
  <2>6. new = q
    <3>1. new = q \/ Len(new) = Len(q) - 1
      BY <2>2, <2>5, HoldsWithout
    <3>2. ~(Len(new) < Len(q))
      BY <2>1, <2>4
    <3>3. Len(q) \in Nat
      BY <2>5, HeldRows
    <3>. QED BY ONLY <3>1, <3>2, <3>3
  <2>. QED BY <2>3, <2>6
<1>5. CASE TellsStatus(V, p, W)
  <2>1. new = UpdateStatus(es, p.items)
    BY <1>5, Kinds, ResultsOf
  <2>. QED BY <1>5, <2>1, ShowsStatus
<1>6. CASE TellsNick(V, p, W)
  <2>1. new = UpdateNick(es, p)
    BY <1>6, Kinds, ResultsOf
  <2>. QED BY <1>6, <2>1, ShowsNick
<1>7. CASE TellsRemoved(V, p, W)
  <2>1. new = RemoveById(es, p.id)
    BY <1>7, Kinds, ResultsOf
  <2>. QED BY <1>7, <2>1, ShowsRemoved
<1>. QED BY <1>1, <1>2, <1>3, <1>4, <1>5, <1>6, <1>7 DEF Tells

-----------------------------------------------------------------------------
(* The Java library's friends after a packet *)

LEMMA HeardRows ==
  ASSUME NEW V \in SoundViews, NEW E, NEW fs, Hears(fs, V, E)
  PROVE  /\ fs \in Seq(JRow) /\ Len(fs) \in Nat
         /\ \A i \in 1..Len(fs) :
              /\ fs[i] \in JRow /\ fs[i].name \in Buddy /\ fs[i].userid = UserId[fs[i].name]
              /\ fs[i].sid \in Int /\ fs[i].sid <= V.last
<1>1. /\ fs \in Seq(JRow)
      /\ \A i \in 1..Len(fs) : fs[i].userid = UserId[fs[i].name] /\ fs[i].sid <= V.last
  BY DEF Hears
<1>2. Len(fs) \in Nat /\ \A i \in 1..Len(fs) : fs[i] \in JRow
  BY <1>1, LenProperties, ElementOfSeq
<1>3. \A f \in JRow : f.sid \in Int
  <2>. TAKE f \in JRow
  <2>1. f.sid \in NullSid..MaxSid
    BY JRowFacts
  <2>. QED BY <2>1, SyncAssumption DEF NullSid
<1>. QED BY <1>1, <1>2, <1>3, JRowFacts

LEMMA OneIsFirst ==
  ASSUME NEW fs, Len(fs) \in Nat, NEW i \in 1..Len(fs), NEW k \in 1..Len(fs), NEW b,
         FirstNamed(fs, i, b), FirstNamed(fs, k, b)
  PROVE  i = k
<1>1. i <= k /\ k <= i
  BY DEF FirstNamed
<1>. QED BY <1>1

LEMMA FriendFoundById ==
  ASSUME NEW V \in SoundViews, NEW E, NEW fs, Hears(fs, V, E), NEW b \in Buddy,
         NEW i \in 1..Len(fs)
  PROVE  FriendByUserId(fs, UserId[b]) = i <=> FirstNamed(fs, i, b)
<1> DEFINE I == {k \in 1..Len(fs) : fs[k].userid = UserId[b]}
           j == FriendByUserId(fs, UserId[b])
<1>1. FirstOf(j, I)
  BY LookUps
<1>2. \A k \in 1..Len(fs) : k \in I <=> fs[k].name = b
  BY HeardRows, Ids
<1>3. I \subseteq 1..Len(fs) /\ Len(fs) \in Nat /\ i # 0
  BY HeardRows
<1>. HIDE DEF I, j
<1>4. ASSUME j = i
      PROVE  FirstNamed(fs, i, b)
  <2>1. i \in I /\ \A k \in I : i <= k
    BY <1>1, <1>3, <1>4 DEF FirstOf
  <2>. QED BY <1>2, <2>1 DEF FirstNamed
<1>5. ASSUME FirstNamed(fs, i, b)
      PROVE  j = i
  <2>1. i \in I /\ \A k \in I : i <= k
    BY <1>2, <1>3, <1>5 DEF FirstNamed
  <2>2. j \in I /\ \A k \in I : j <= k
    BY <1>1, <2>1 DEF FirstOf
  <2>3. j <= i /\ i <= j /\ j \in 1..Len(fs)
    BY <1>3, <2>1, <2>2
  <2>. QED BY <2>3
<1>. QED BY <1>4, <1>5 DEF j

\* An online friend's session id finds the first entry of that name, and none
\* of another name.
LEMMA FriendFoundBySid ==
  ASSUME NEW V \in SoundViews, NEW E, NEW fs, Hears(fs, V, E), NEW b \in Buddy,
         V.truth[b].sid # NoSid, NEW i \in 1..Len(fs)
  PROVE  /\ FriendBySid(fs, V.truth[b].sid) = i => fs[i].name = b
         /\ b \notin E /\ FirstNamed(fs, i, b) =>
              FriendBySid(fs, V.truth[b].sid) = i /\ FriendRight(fs[i], V.truth[b])
<1> DEFINE I == {k \in 1..Len(fs) : fs[k].sid = V.truth[b].sid}
           j == FriendBySid(fs, V.truth[b].sid)
<1>1. FirstOf(j, I)
  BY LookUps
<1>2. \A k \in 1..Len(fs) : k \in I => fs[k].name = b
  BY DEF Hears
<1>3. I \subseteq 1..Len(fs) /\ Len(fs) \in Nat /\ i # 0
  BY HeardRows
<1>4. \A k \in 1..Len(fs) : fs[k].sid = V.truth[b].sid => k \in I
  OBVIOUS
<1>. HIDE DEF I, j
<1>5. j = i => fs[i].name = b
  BY <1>1, <1>2, <1>3 DEF FirstOf
<1>6. ASSUME b \notin E, FirstNamed(fs, i, b)
      PROVE  j = i /\ FriendRight(fs[i], V.truth[b])
  <2>1. V.truth[b].friend
    BY ViewFacts
  <2>2. PICK k \in 1..Len(fs) : FirstNamed(fs, k, b) /\ FriendRight(fs[k], V.truth[b])
    BY <1>6, <2>1 DEF Hears
  <2>3. i = k
    BY <1>3, <1>6, <2>2, OneIsFirst
  <2>4. i \in I
    BY <1>4, <2>2, <2>3 DEF FriendRight
  <2>5. j \in I /\ \A m \in I : j <= m
    BY <1>1, <2>4 DEF FirstOf
  <2>6. j \in 1..Len(fs) /\ fs[j].name = b
    BY <1>2, <1>3, <2>5
  <2>7. i <= j /\ j <= i
    BY <1>6, <2>4, <2>5, <2>6 DEF FirstNamed
  <2>. QED BY <1>3, <2>2, <2>3, <2>6, <2>7
<1>. QED BY <1>5, <1>6 DEF j

LEMMA NoFriendFound ==
  ASSUME NEW V \in SoundViews, NEW E, NEW fs, Hears(fs, V, E)
  PROVE  FriendBySid(fs, MaxSid + 1) = 0
<1>1. {i \in 1..Len(fs) : fs[i].sid = MaxSid + 1} = {}
  <2>1. \A i \in 1..Len(fs) : fs[i].sid \in Int /\ fs[i].sid <= V.last
    BY HeardRows
  <2>2. MaxSid \in Nat /\ V.last \in 0..MaxSid
    BY ViewFacts, SyncAssumption
  <2>. QED BY <2>1, <2>2
<1>2. FirstOf(FriendBySid(fs, MaxSid + 1), {i \in 1..Len(fs) : fs[i].sid = MaxSid + 1})
  BY LookUps
<1>. QED BY <1>1, <1>2 DEF FirstOf

\* The same names in the same places, with the new view's session ids.
Rewrites(new, fs, V, W, E) ==
  /\ new \in Seq(JRow) /\ Len(new) = Len(fs)
  /\ \A i \in 1..Len(fs) : /\ new[i].name = fs[i].name /\ new[i].userid = fs[i].userid
                           /\ new[i].sid <= W.last
  /\ \A i \in 1..Len(fs), b \in Buddy :
       W.truth[b].sid # NoSid /\ new[i].sid = W.truth[b].sid => fs[i].name = b
  /\ \A b \in Buddy : W.truth[b].friend => V.truth[b].friend
  /\ \A b \in Buddy, i \in 1..Len(fs) :
       W.truth[b].friend /\ b \notin E /\ FirstNamed(fs, i, b) =>
         FriendRight(new[i], W.truth[b])

LEMMA HearsAgain ==
  ASSUME NEW V, NEW W, NEW E, NEW fs, Hears(fs, V, E), NEW new, Rewrites(new, fs, V, W, E)
  PROVE  Hears(new, W, E)
<1>0. /\ new \in Seq(JRow) /\ Len(new) = Len(fs)
      /\ \A i \in 1..Len(fs) : /\ new[i].name = fs[i].name /\ new[i].userid = fs[i].userid
                               /\ new[i].sid <= W.last
      /\ \A i \in 1..Len(fs), b \in Buddy :
           W.truth[b].sid # NoSid /\ new[i].sid = W.truth[b].sid => fs[i].name = b
      /\ \A b \in Buddy : W.truth[b].friend => V.truth[b].friend
      /\ \A b \in Buddy, i \in 1..Len(fs) :
           W.truth[b].friend /\ b \notin E /\ FirstNamed(fs, i, b) =>
             FriendRight(new[i], W.truth[b])
  BY DEF Rewrites
<1>1. /\ \A i \in 1..Len(fs) : fs[i].userid = UserId[fs[i].name]
      /\ \A b \in Buddy : V.truth[b].friend /\ b \notin E =>
           \E i \in 1..Len(fs) : FirstNamed(fs, i, b)
  BY DEF Hears
<1>2. \A i \in 1..Len(new) : new[i].userid = UserId[new[i].name] /\ new[i].sid <= W.last
  BY <1>0, <1>1
<1>3. \A i \in 1..Len(new), b \in Buddy :
        W.truth[b].sid # NoSid /\ new[i].sid = W.truth[b].sid => new[i].name = b
  BY <1>0
<1>4. \A b, i : i \in 1..Len(fs) /\ FirstNamed(fs, i, b) => FirstNamed(new, i, b)
  BY <1>0 DEF FirstNamed
<1>5. ASSUME NEW b \in Buddy, W.truth[b].friend, b \notin E
      PROVE  \E i \in 1..Len(new) : FirstNamed(new, i, b) /\ FriendRight(new[i], W.truth[b])
  <2>1. PICK i \in 1..Len(fs) : FirstNamed(fs, i, b)
    BY <1>0, <1>1, <1>5
  <2>. QED BY <1>0, <1>4, <1>5, <2>1
<1>. QED BY <1>0, <1>2, <1>3, <1>5 DEF Hears

LEMMA SameNames ==
  ASSUME NEW fs, NEW new, Len(new) = Len(fs), \A i \in 1..Len(fs) : new[i].name = fs[i].name
  PROVE  NamesIn(new) = NamesIn(fs)
<1>1. \A x : x \in NamesIn(new) <=> \E i \in 1..Len(fs) : new[i].name = x
  BY DEF NamesIn
<1>2. \A x : x \in NamesIn(fs) <=> \E i \in 1..Len(fs) : fs[i].name = x
  BY DEF NamesIn
<1>. QED BY <1>1, <1>2

LEMMA HearsOnline ==
  ASSUME NEW V \in SoundViews, NEW W \in SoundViews, NEW E, NEW fs, Hears(fs, V, E),
         NEW p, TellsOnline(V, p, W), NEW new, new = ReceivedBuddyListOnline(fs, p.items)
  PROVE  Hears(new, W, E) /\ NamesIn(new) = NamesIn(fs)
<1>1. PICK o \in Seq(Buddy), r \in [Buddy -> 0..MaxSid] :
        /\ p = OnlinePacket(o, r)
        /\ \A k \in 1..Len(o) : V.truth[o[k]].friend /\ (r[o[k]] # NoSid => V.last < r[o[k]])
        /\ V.last <= W.last
        /\ \A b \in Buddy :
             IF Among(b, o) THEN W.truth[b] = Moved(V.truth[b], r[b])
             ELSE W.truth[b] = V.truth[b]
  BY DEF TellsOnline
<1> DEFINE items == p.items
           n == Len(o)
<1>2. /\ SidItems(items, n)
      /\ \A k \in 1..n : items[k].id = UserId[o[k]] /\ items[k].sid = r[o[k]]
  BY <1>1, OnlineItems
<1>3. n \in Nat /\ \A k \in 1..n : o[k] \in Buddy
  BY OrderFacts
<1>. HIDE DEF items
<1>4. fs \in Seq(JRow) /\ new = ReceivedBuddyListOnline(fs, items)
  BY HeardRows DEF items
<1>5. /\ new \in Seq(JRow) /\ Len(new) = Len(fs)
      /\ \A i \in 1..Len(fs) :
           \/ new[i] = fs[i] /\ \A k \in 1..n : FriendByUserId(fs, items[k].id) # i
           \/ \E k \in 1..n : /\ FriendByUserId(fs, items[k].id) = i
                             /\ new[i] = WithSid(fs[i], items[k].sid)
  BY <1>2, <1>3, <1>4, HeardEffect
<1>. HIDE DEF n
<1>6. ASSUME NEW b \in Buddy, Among(b, o)
      PROVE  /\ W.truth[b].friend = V.truth[b].friend /\ W.truth[b].sid = r[b]
             /\ W.truth[b].said = NoText /\ r[b] \in 0..MaxSid
             /\ r[b] # NoSid => V.last < r[b]
  <2>1. V.truth[b] \in Person /\ r[b] \in 0..MaxSid
    BY ViewFacts
  <2>2. W.truth[b] = Moved(V.truth[b], r[b])
    BY <1>1, <1>6
  <2>3. /\ W.truth[b].friend = V.truth[b].friend /\ W.truth[b].sid = r[b]
        /\ W.truth[b].said = NoText
    BY ONLY <2>1, <2>2, PersonFacts
  <2>. QED BY <1>1, <1>6, <2>1, <2>3 DEF Among
<1>7. ASSUME NEW i \in 1..Len(fs)
      PROVE  \/ new[i] = fs[i] /\ \A b \in Buddy : Among(b, o) => ~ FirstNamed(fs, i, b)
             \/ /\ fs[i].name \in Buddy /\ Among(fs[i].name, o)
                /\ new[i].name = fs[i].name /\ new[i].userid = fs[i].userid
                /\ new[i].sid = r[fs[i].name]
  <2>1. CASE new[i] = fs[i] /\ \A k \in 1..n : FriendByUserId(fs, items[k].id) # i
    <3>1. ASSUME NEW b \in Buddy, Among(b, o), FirstNamed(fs, i, b)
          PROVE  FALSE
      <4>1. PICK k \in 1..n : o[k] = b
        BY <3>1 DEF Among, n
      <4>2. FriendByUserId(fs, UserId[b]) = i
        BY <3>1, FriendFoundById
      <4>. QED BY <1>2, <2>1, <4>1, <4>2
    <3>. QED BY <2>1, <3>1
  <2>2. ASSUME NEW k \in 1..n, FriendByUserId(fs, items[k].id) = i,
               new[i] = WithSid(fs[i], items[k].sid)
        PROVE  /\ fs[i].name \in Buddy /\ Among(fs[i].name, o)
               /\ new[i].name = fs[i].name /\ new[i].userid = fs[i].userid
               /\ new[i].sid = r[fs[i].name]
    <3>1. FirstNamed(fs, i, o[k])
      BY <1>2, <1>3, <2>2, FriendFoundById
    <3>2. fs[i].name = o[k]
      BY <3>1 DEF FirstNamed
    <3>3. fs[i] \in JRow /\ r[o[k]] \in 0..MaxSid /\ new[i] = WithSid(fs[i], r[o[k]])
      BY <1>2, <1>3, <2>2, HeardRows
    <3>4. /\ new[i].name = fs[i].name /\ new[i].userid = fs[i].userid
          /\ new[i].sid = r[o[k]]
      <4> DEFINE f == fs[i]
                 x == r[o[k]]
      <4>1. f \in JRow /\ x \in 0..MaxSid /\ new[i] = WithSid(f, x)
        BY <3>3
      <4>. HIDE DEF f, x
      <4>2. LET q == WithSid(f, x)
            IN  q.name = f.name /\ q.userid = f.userid /\ q.sid = x
        BY ONLY <4>1, WithFactsOfFriends
      <4>. QED BY <4>1, <4>2 DEF f, x
    <3>. QED BY <1>3, <3>2, <3>4 DEF Among, n
  <2>. QED BY <1>5, <2>1, <2>2
<1>8. ASSUME NEW i \in 1..Len(fs)
      PROVE  /\ new[i].name = fs[i].name /\ new[i].userid = fs[i].userid
             /\ new[i].sid <= W.last
  <2>0. V.last \in Nat /\ W.last \in Nat /\ V.last <= W.last
    BY <1>1, ViewFacts
  <2>1. CASE new[i] = fs[i]
    <3>1. fs[i].sid \in Int /\ fs[i].sid <= V.last
      BY HeardRows
    <3>. QED BY <2>0, <2>1, <3>1
  <2>2. CASE new[i] # fs[i]
    <3> DEFINE c == fs[i].name
    <3>1. /\ c \in Buddy /\ Among(c, o) /\ new[i].sid = r[c]
          /\ new[i].name = fs[i].name /\ new[i].userid = fs[i].userid
      BY <1>7, <2>2
    <3>. HIDE DEF c
    <3>2. W.truth[c].sid = r[c]
      BY <1>6, <3>1
    <3>3. r[c] # NoSid => r[c] <= W.last
      BY <3>1, <3>2, ViewFacts
    <3>4. new[i].sid <= W.last
      BY <2>0, <3>1, <3>3 DEF NoSid
    <3>. QED BY <3>1, <3>4
  <2>. QED BY <2>1, <2>2
<1>9. ASSUME NEW i \in 1..Len(fs), NEW b \in Buddy, W.truth[b].sid # NoSid,
             new[i].sid = W.truth[b].sid
      PROVE  fs[i].name = b
  <2>1. CASE new[i] = fs[i]
    <3>1. fs[i].sid \in Int /\ fs[i].sid <= V.last /\ V.last \in Nat
      BY HeardRows, ViewFacts
    <3>2. ~ Among(b, o)
      <4>1. ASSUME Among(b, o)
            PROVE  FALSE
        <5>1. W.truth[b].sid = r[b] /\ V.last < r[b] /\ r[b] \in 0..MaxSid
          BY <1>6, <1>9, <4>1
        <5>2. fs[i].sid = r[b]
          BY <1>9, <2>1, <5>1
        <5>. QED BY <3>1, <5>1, <5>2
      <4>. QED BY <4>1
    <3>3. W.truth[b] = V.truth[b]
      BY <1>1, <3>2
    <3>. QED BY <1>9, <2>1, <3>3 DEF Hears
  <2>2. CASE new[i] # fs[i]
    <3> DEFINE c == fs[i].name
    <3>1. c \in Buddy /\ Among(c, o) /\ new[i].sid = r[c]
      BY <1>7, <2>2
    <3>. HIDE DEF c
    <3>2. W.truth[b].sid = W.truth[c].sid
      BY <1>6, <1>9, <3>1
    <3>3. b = c
      BY <1>9, <3>1, <3>2, ViewFacts
    <3>. QED BY <3>3 DEF c
  <2>. QED BY <2>1, <2>2
<1>10. \A b \in Buddy : W.truth[b].friend => V.truth[b].friend
  BY <1>1, <1>6
<1>11. ASSUME NEW b \in Buddy, NEW i \in 1..Len(fs), W.truth[b].friend, b \notin E,
              FirstNamed(fs, i, b)
       PROVE  FriendRight(new[i], W.truth[b])
  <2>1. fs[i].name = b
    BY <1>11 DEF FirstNamed
  <2>2. CASE Among(b, o)
    <3>1. new[i].sid = r[b]
      BY <1>7, <1>11, <2>1, <2>2
    <3>2. W.truth[b].sid = r[b] /\ W.truth[b].said = NoText
      BY <1>6, <2>2
    <3>. QED BY <3>1, <3>2 DEF FriendRight
  <2>3. CASE ~ Among(b, o)
    <3>1. new[i] = fs[i] /\ W.truth[b] = V.truth[b]
      BY <1>1, <1>7, <2>1, <2>3
    <3>2. V.truth[b].sid # NoSid => FriendRight(fs[i], V.truth[b])
      BY <1>11, FriendFoundBySid
    <3>. QED BY <3>1, <3>2 DEF FriendRight
  <2>. QED BY <2>2, <2>3
<1>12. Hears(new, W, E)
  <2>1. Rewrites(new, fs, V, W, E)
    BY ONLY <1>5, <1>8, <1>9, <1>10, <1>11 DEF Rewrites
  <2>. QED BY <2>1, HearsAgain
<1>13. NamesIn(new) = NamesIn(fs)
  BY <1>5, <1>8, SameNames
<1>. QED BY <1>12, <1>13

LEMMA HearsStatus ==
  ASSUME NEW V \in SoundViews, NEW W \in SoundViews, NEW E, NEW fs, Hears(fs, V, E),
         NEW p, TellsStatus(V, p, W), NEW new, new = ReceivedStatusMessage(fs, p.items)
  PROVE  Hears(new, W, E) /\ NamesIn(new) = NamesIn(fs)
<1>1. PICK o \in Seq(Buddy), msg \in Statuses :
        /\ p = StatusPacket(o, SidOrStrange(V), msg)
        /\ \A k \in 1..Len(o) : V.truth[o[k]].friend => V.truth[o[k]].sid # NoSid
        /\ W.last = V.last
        /\ \A b \in Buddy :
             IF V.truth[b].friend /\ Among(b, o)
             THEN W.truth[b] = Said(V.truth[b], msg)
             ELSE W.truth[b] = V.truth[b]
  BY DEF TellsStatus
<1> DEFINE items == p.items
           n == Len(o)
<1>2. /\ WordItems(items, n)
      /\ \A k \in 1..n : items[k].sid = SidOrStrange(V)[o[k]] /\ items[k].msg = msg
  BY <1>1, StatusItems
<1>3. n \in Nat /\ \A k \in 1..n : o[k] \in Buddy
  BY OrderFacts
<1>. HIDE DEF items
<1>4. \A k \in 1..n : items[k].sid = IF V.truth[o[k]].friend THEN V.truth[o[k]].sid ELSE MaxSid + 1
  BY <1>2, <1>3 DEF SidOrStrange
<1>5. /\ new \in Seq(JRow) /\ Len(new) = Len(fs)
      /\ \A i \in 1..Len(fs) :
           \/ new[i] = fs[i] /\ \A k \in 1..n : FriendBySid(fs, items[k].sid) # i
           \/ \E k \in 1..n : /\ FriendBySid(fs, items[k].sid) = i
                             /\ new[i] = WithMessage(fs[i], items[k].msg)
  <2>1. fs \in Seq(JRow) /\ new = ReceivedStatusMessage(fs, items)
    BY HeardRows DEF items
  <2>2. HeardWords(ReceivedStatusMessage(fs, items), fs, items, n)
    BY <1>2, <1>3, <2>1, WordsAreHeard
  <2>. QED BY ONLY <2>1, <2>2 DEF HeardWords
<1>6. ASSUME NEW b \in Buddy
      PROVE  /\ W.truth[b].friend = V.truth[b].friend /\ W.truth[b].sid = V.truth[b].sid
             /\ V.truth[b].friend /\ Among(b, o) => W.truth[b].said = msg
             /\ ~ (V.truth[b].friend /\ Among(b, o)) => W.truth[b] = V.truth[b]
  <2>1. CASE V.truth[b].friend /\ Among(b, o)
    <3>1. W.truth[b] = Said(V.truth[b], msg) /\ V.truth[b] \in Person
      BY <1>1, <2>1, ViewFacts
    <3>2. /\ W.truth[b].friend = V.truth[b].friend /\ W.truth[b].sid = V.truth[b].sid
          /\ W.truth[b].said = msg
      BY ONLY <3>1, msg \in Statuses, PersonFacts
    <3>. QED BY <2>1, <3>2
  <2>2. CASE ~ (V.truth[b].friend /\ Among(b, o))
    BY <1>1, <2>2
  <2>. QED BY <2>1, <2>2
<1>7. ASSUME NEW i \in 1..Len(fs)
      PROVE  \/ /\ new[i] = fs[i]
                /\ \A k \in 1..n : V.truth[o[k]].friend => FriendBySid(fs, V.truth[o[k]].sid) # i
             \/ /\ fs[i].name \in Buddy /\ Among(fs[i].name, o) /\ V.truth[fs[i].name].friend
                /\ new[i].name = fs[i].name /\ new[i].userid = fs[i].userid
                /\ new[i].sid = fs[i].sid /\ new[i].statusMessage = msg
  <2>1. CASE new[i] = fs[i] /\ \A k \in 1..n : FriendBySid(fs, items[k].sid) # i
    BY <1>4, <2>1
  <2>2. ASSUME NEW k \in 1..n, FriendBySid(fs, items[k].sid) = i,
               new[i] = WithMessage(fs[i], items[k].msg)
        PROVE  /\ fs[i].name \in Buddy /\ Among(fs[i].name, o) /\ V.truth[fs[i].name].friend
               /\ new[i].name = fs[i].name /\ new[i].userid = fs[i].userid
               /\ new[i].sid = fs[i].sid /\ new[i].statusMessage = msg
    <3>1. V.truth[o[k]].friend
      <4>1. ASSUME ~ V.truth[o[k]].friend
            PROVE  FALSE
        <5>1. FriendBySid(fs, MaxSid + 1) = i /\ i # 0
          BY <1>4, <2>2, <4>1
        <5>. QED BY <5>1, NoFriendFound
      <4>. QED BY <4>1
    <3>2. o[k] \in Buddy /\ V.truth[o[k]].sid # NoSid /\ items[k].sid = V.truth[o[k]].sid
      BY <1>1, <1>3, <1>4, <3>1 DEF n
    <3>3. fs[i].name = o[k]
      BY <2>2, <3>2, FriendFoundBySid
    <3>4. fs[i] \in JRow /\ new[i] = WithMessage(fs[i], msg)
      BY <1>2, <2>2, HeardRows
    <3>5. /\ new[i].name = fs[i].name /\ new[i].userid = fs[i].userid
          /\ new[i].sid = fs[i].sid /\ new[i].statusMessage = msg
      BY ONLY <3>4, msg \in Statuses, WithFactsOfFriends
    <3>. QED BY <3>1, <3>2, <3>3, <3>5 DEF Among, n
  <2>. QED BY <1>5, <2>1, <2>2
<1>. HIDE DEF n
<1>8. ASSUME NEW i \in 1..Len(fs)
      PROVE  /\ new[i].name = fs[i].name /\ new[i].userid = fs[i].userid
             /\ new[i].sid = fs[i].sid
  BY <1>7
<1>9. \A i \in 1..Len(fs) : new[i].sid <= W.last
  BY <1>1, <1>8, HeardRows
<1>10. \A i \in 1..Len(fs), b \in Buddy :
         W.truth[b].sid # NoSid /\ new[i].sid = W.truth[b].sid => fs[i].name = b
  BY <1>6, <1>8 DEF Hears
<1>11. ASSUME NEW b \in Buddy, NEW i \in 1..Len(fs), W.truth[b].friend, b \notin E,
              FirstNamed(fs, i, b)
       PROVE  FriendRight(new[i], W.truth[b])
  <2>1. fs[i].name = b /\ V.truth[b].friend /\ W.truth[b].sid = V.truth[b].sid
    BY <1>6, <1>11 DEF FirstNamed
  <2>2. CASE V.truth[b].sid = NoSid
    BY <2>1, <2>2 DEF FriendRight
  <2>3. CASE V.truth[b].sid # NoSid
    <3>1. FriendBySid(fs, V.truth[b].sid) = i /\ FriendRight(fs[i], V.truth[b])
      BY <1>11, <2>3, FriendFoundBySid
    <3>2. new[i].sid = W.truth[b].sid
      BY <1>8, <2>1, <2>3, <3>1 DEF FriendRight
    <3>3. CASE Among(b, o)
      <4>1. PICK k \in 1..n : o[k] = b
        BY <3>3 DEF Among, n
      <4>2. new[i].statusMessage = msg
        BY <1>7, <2>1, <3>1, <4>1
      <4>. QED BY <1>6, <2>1, <3>2, <3>3, <4>2 DEF FriendRight
    <3>4. CASE ~ Among(b, o)
      <4>1. new[i] = fs[i] /\ W.truth[b] = V.truth[b]
        BY <1>6, <1>7, <2>1, <3>4
      <4>. QED BY <3>1, <4>1
    <3>. QED BY <3>3, <3>4
  <2>. QED BY <2>2, <2>3
<1>12. \A b \in Buddy : W.truth[b].friend => V.truth[b].friend
  BY <1>6
<1>13. Hears(new, W, E)
  <2>1. Rewrites(new, fs, V, W, E)
    BY ONLY <1>5, <1>8, <1>9, <1>10, <1>11, <1>12 DEF Rewrites
  <2>. QED BY <2>1, HearsAgain
<1>14. NamesIn(new) = NamesIn(fs)
  BY <1>5, <1>8, SameNames
<1>. QED BY <1>13, <1>14

LEMMA FirstExists ==
  ASSUME NEW fs, Len(fs) \in Nat, NEW b, b \in NamesIn(fs)
  PROVE  \E i \in 1..Len(fs) : FirstNamed(fs, i, b)
<1> DEFINE I == {i \in 1..Len(fs) : fs[i].name = b}
<1>1. I \in SUBSET Nat /\ I # {}
  BY DEF NamesIn
<1>2. Min(I) \in I /\ \A k \in I : Min(I) <= k
  BY <1>1, LeastOfNat
<1>. QED BY <1>2 DEF FirstNamed

\* A packet that the list does not hear.
LEMMA HearsNothing ==
  ASSUME NEW V \in SoundViews, NEW W \in SoundViews, NEW E, NEW fs, Hears(fs, V, E),
         V.last <= W.last,
         \A b \in Buddy : W.truth[b].friend =>
           /\ V.truth[b].friend /\ W.truth[b].sid = V.truth[b].sid
           /\ W.truth[b].said = V.truth[b].said
  PROVE  Hears(fs, W, E)
<1>1. fs \in Seq(JRow)
  BY HeardRows
<1>2. ASSUME NEW i \in 1..Len(fs)
      PROVE  fs[i].sid <= W.last
  <2>1. fs[i].sid \in Int /\ fs[i].sid <= V.last /\ V.last \in Nat /\ W.last \in Nat
    BY HeardRows, ViewFacts
  <2>. QED BY <2>1
<1>3. \A i \in 1..Len(fs), b \in Buddy :
        W.truth[b].sid # NoSid /\ fs[i].sid = W.truth[b].sid => fs[i].name = b
  <2>. TAKE i \in 1..Len(fs), b \in Buddy
  <2>1. W.truth[b].sid # NoSid => W.truth[b].friend
    BY ViewFacts
  <2>. QED BY <2>1 DEF Hears
<1>4. ASSUME NEW b \in Buddy, NEW i \in 1..Len(fs), W.truth[b].friend, b \notin E,
             FirstNamed(fs, i, b)
      PROVE  FriendRight(fs[i], W.truth[b])
  <2>1. V.truth[b].sid # NoSid => FriendRight(fs[i], V.truth[b])
    BY <1>4, FriendFoundBySid
  <2>. QED BY <1>4, <2>1 DEF FriendRight
<1>5. Rewrites(fs, fs, V, W, E)
  BY <1>1, <1>2, <1>3, <1>4 DEF Rewrites
<1>. QED BY <1>5, HearsAgain

\* What a packet of names adds.
\* o's buddies behind fs, none of them with a session id.
Adds(new, fs, o) ==
  /\ Len(o) \in Nat /\ Len(fs) \in Nat /\ new \in Seq(JRow) /\ Len(new) = Len(fs) + Len(o)
  /\ \A i \in 1..Len(fs) : i \in 1..Len(new) /\ new[i] = fs[i]
  /\ \A k \in 1..Len(o) :
       /\ Len(fs) + k \in 1..Len(new)
       /\ new[Len(fs) + k].name = o[k] /\ new[Len(fs) + k].userid = UserId[o[k]]
       /\ new[Len(fs) + k].sid = NullSid
  /\ \A i \in 1..Len(new) : i \in 1..Len(fs) \/ \E k \in 1..Len(o) : i = Len(fs) + k

LEMMA AddedFriends ==
  ASSUME NEW fs \in Seq(JRow), NEW o \in Seq(Buddy), NEW n \in Nicks
  PROVE  Adds(ReceivedByFriends(fs, NamesPacket(o, n)), fs, o)
<1> DEFINE g == [k \in 1..Len(o) |-> Friend(UserId[o[k]], o[k], n)]
           L == Len(fs)
           new == ReceivedByFriends(fs, NamesPacket(o, n))
<1>1. new = ReceivedByFriends(fs, NamesPacket(o, n))
  OBVIOUS
<1>. HIDE DEF new
<1>2. Len(o) \in Nat /\ L \in Nat /\ \A k \in 1..Len(o) : o[k] \in Buddy
  BY OrderFacts, LenProperties
<1>3. new = fs \o g
  <2> DEFINE p == NamesPacket(o, n)
             it == p.items
  <2>1. /\ p.kind = "names" /\ Len(it) = Len(o)
        /\ \A k \in 1..Len(o) : it[k].name = o[k] /\ it[k].id = UserId[o[k]] /\ it[k].nick = n
    BY NamesItems
  <2>. HIDE DEF p
  <2>2. new = ReceivedBuddyList(fs, it)
    BY <1>1, <2>1 DEF ReceivedByFriends, p
  <2>. HIDE DEF it
  <2>3. [k \in 1..Len(it) |-> Friend(it[k].id, it[k].name, it[k].nick)] = g
    BY <2>1
  <2>. QED BY <2>2, <2>3 DEF ReceivedBuddyList
<1>4. ASSUME NEW b \in Buddy
      PROVE  LET f == Friend(UserId[b], b, n)
             IN  f \in JRow /\ f.name = b /\ f.userid = UserId[b] /\ f.sid = NullSid
  <2>1. NullSid \in NullSid..MaxSid /\ UserId[b] \in Nat
    BY SyncAssumption DEF NullSid
  <2>. QED BY <2>1 DEF Friend, JRow
<1>5. /\ g \in [1..Len(o) -> JRow]
      /\ \A k \in 1..Len(o) : g[k].name = o[k] /\ g[k].userid = UserId[o[k]] /\ g[k].sid = NullSid
  BY <1>2, <1>4
<1>6. g \in Seq(JRow) /\ Len(g) = Len(o)
  BY <1>2, <1>5, FunctionIsSeq
<1>. HIDE DEF g
<1>7. /\ new \in Seq(JRow) /\ Len(new) = L + Len(o)
      /\ \A i \in 1..(L + Len(o)) : new[i] = IF i <= L THEN fs[i] ELSE g[i - L]
  <2>1. /\ fs \o g \in Seq(JRow) /\ Len(fs \o g) = Len(fs) + Len(g)
        /\ \A i \in 1..(Len(fs) + Len(g)) :
             (fs \o g)[i] = IF i <= Len(fs) THEN fs[i] ELSE g[i - Len(fs)]
    BY ONLY fs \in Seq(JRow), <1>6, ConcatProperties
  <2>. QED BY ONLY <1>3, <1>6, <2>1 DEF L
<1>8. ASSUME NEW i \in 1..L
      PROVE  i \in 1..Len(new) /\ new[i] = fs[i]
  BY <1>2, <1>7
<1>9. ASSUME NEW k \in 1..Len(o)
      PROVE  L + k \in 1..Len(new) /\ new[L + k] = g[k]
  <2>1. L + k \in 1..(L + Len(o)) /\ ~ (L + k <= L) /\ (L + k) - L = k
    BY <1>2
  <2>. QED BY ONLY <1>7, <2>1
<1>10. ASSUME NEW i \in 1..Len(new)
       PROVE  i \in 1..L \/ \E k \in 1..Len(o) : i = L + k
  <2>1. CASE i <= L
    BY <1>2, <2>1
  <2>2. CASE ~ (i <= L)
    <3>1. i - L \in 1..Len(o) /\ i = L + (i - L)
      BY <1>2, <1>7, <2>2
    <3>. QED BY <3>1
  <2>. QED BY <2>1, <2>2
<1>11. Adds(new, fs, o)
  BY <1>2, <1>5, <1>7, <1>8, <1>9, <1>10 DEF Adds
<1>. QED BY <1>11 DEF new

LEMMA HearsNames ==
  ASSUME NEW V \in SoundViews, NEW W \in SoundViews, NEW E, NEW fs, Hears(fs, V, E),
         E \intersect NamesIn(fs) = {},
         NEW p, TellsNames(V, p, W), NEW new, new = ReceivedByFriends(fs, p)
  PROVE  Hears(new, W, E \ NamesIn(new))
<1>1. PICK o \in Seq(Buddy), n \in Nicks :
        /\ p = NamesPacket(o, n)
        /\ \A k \in 1..Len(o) : ~V.truth[o[k]].friend
        /\ W.last = V.last
        /\ \A b \in Buddy : W.truth[b] = IF Among(b, o) THEN Befriended(n) ELSE V.truth[b]
  BY DEF TellsNames
<1> DEFINE L == Len(fs)
<1>2. /\ Len(o) \in Nat /\ L \in Nat /\ new \in Seq(JRow) /\ Len(new) = L + Len(o)
      /\ \A i \in 1..L : i \in 1..Len(new) /\ new[i] = fs[i]
      /\ \A k \in 1..Len(o) :
           /\ L + k \in 1..Len(new)
           /\ new[L + k].name = o[k] /\ new[L + k].userid = UserId[o[k]]
           /\ new[L + k].sid = NullSid
      /\ \A i \in 1..Len(new) : i \in 1..L \/ \E k \in 1..Len(o) : i = L + k
  <2>1. fs \in Seq(JRow)
    BY HeardRows
  <2>2. Adds(ReceivedByFriends(fs, NamesPacket(o, n)), fs, o)
    BY <2>1, AddedFriends
  <2>. QED BY <1>1, <2>2 DEF Adds
<1>. HIDE DEF L
<1>3. ASSUME NEW i \in 1..Len(new)
      PROVE  new[i].userid = UserId[new[i].name] /\ new[i].sid <= W.last
  <2>1. CASE i \in 1..L
    BY <1>1, <1>2, <2>1, HeardRows DEF L
  <2>2. ASSUME NEW k \in 1..Len(o), i = L + k
        PROVE  new[i].userid = UserId[new[i].name] /\ new[i].sid <= W.last
    <3>1. NullSid <= W.last
      BY ViewFacts DEF NullSid
    <3>. QED BY <1>2, <2>2, <3>1
  <2>. QED BY <1>2, <2>1, <2>2
<1>4. \A b \in Buddy : W.truth[b].sid # NoSid => W.truth[b] = V.truth[b] /\ ~ Among(b, o)
  BY <1>1, UnknownFacts
<1>5. ASSUME NEW i \in 1..Len(new), NEW b \in Buddy, W.truth[b].sid # NoSid,
             new[i].sid = W.truth[b].sid
      PROVE  new[i].name = b
  <2>1. CASE i \in 1..L
    <3>1. new[i] = fs[i] /\ i \in 1..Len(fs)
      BY <1>2, <2>1 DEF L
    <3>2. V.truth[b].sid # NoSid /\ fs[i].sid = V.truth[b].sid
      BY <1>4, <1>5, <3>1
    <3>. QED BY <3>1, <3>2 DEF Hears
  <2>2. ASSUME NEW k \in 1..Len(o), i = L + k
        PROVE  FALSE
    <3>1. W.truth[b].sid \in Nat /\ W.truth[b].sid = NullSid
      BY <1>2, <1>5, <2>2, ViewFacts
    <3>. QED BY <3>1 DEF NullSid
  <2>. QED BY <1>2, <2>1, <2>2
<1>6. \A i \in 1..L : new[i].name = fs[i].name
  BY <1>2
<1>7. ASSUME NEW b \in Buddy, W.truth[b].friend, b \notin E \ NamesIn(new)
      PROVE  \E i \in 1..Len(new) : FirstNamed(new, i, b) /\ FriendRight(new[i], W.truth[b])
  <2>1. CASE Among(b, o)
    <3>1. b \in NamesIn(new)
      BY <1>2, <2>1 DEF Among, NamesIn
    <3>2. W.truth[b].sid = NoSid
      BY <1>4, <2>1
    <3>3. PICK i \in 1..Len(new) : FirstNamed(new, i, b)
      BY <1>2, <3>1, FirstExists
    <3>. QED BY <3>2, <3>3 DEF FriendRight
  <2>2. CASE ~ Among(b, o)
    <3>1. W.truth[b] = V.truth[b]
      BY <1>1, <2>2
    <3>2. b \notin E
      <4>1. ASSUME b \in E
            PROVE  FALSE
        <5>1. PICK i \in 1..Len(new) : new[i].name = b
          BY <1>7, <4>1 DEF NamesIn
        <5>2. i \notin 1..L
          BY <1>6, <4>1, <5>1 DEF NamesIn, L
        <5>3. PICK k \in 1..Len(o) : i = L + k
          BY <1>2, <5>2
        <5>4. o[k] = b
          BY <1>2, <5>1, <5>3
        <5>. QED BY <2>2, <5>4 DEF Among
      <4>. QED BY <4>1
    <3>3. PICK i \in 1..L : FirstNamed(fs, i, b) /\ FriendRight(fs[i], V.truth[b])
      BY <1>7, <3>1, <3>2 DEF Hears, L
    <3>4. FirstNamed(new, i, b)
      <4>1. fs[i].name = b /\ \A k \in 1..L : fs[k].name = b => i <= k
        BY <3>3 DEF FirstNamed, L
      <4>2. ASSUME NEW k \in 1..Len(new), new[k].name = b
            PROVE  i <= k
        <5>1. CASE k \in 1..L
          BY <1>6, <4>1, <4>2, <5>1
        <5>2. ASSUME NEW m \in 1..Len(o), k = L + m
              PROVE  i <= k
          BY <1>2, <5>2
        <5>. QED BY <1>2, <5>1, <5>2
      <4>. QED BY <1>6, <4>1, <4>2 DEF FirstNamed
    <3>. QED BY <1>2, <3>1, <3>3, <3>4
  <2>. QED BY <2>1, <2>2
<1>. QED BY <1>2, <1>3, <1>5, <1>7 DEF Hears

\* Whatever the server tells, the friends hear.
LEMMA FriendsDoAsTold ==
  ASSUME NEW V \in SoundViews, NEW W \in SoundViews, NEW E, NEW fs, Hears(fs, V, E),
         E \intersect NamesIn(fs) = {},
         NEW p, Tells(V, p, W), NEW new, new = ReceivedByFriends(fs, p)
  PROVE  Hears(new, W, E \ NamesIn(new))
<1>0. E \ NamesIn(fs) = E
  OBVIOUS
<1>1. CASE TellsNames(V, p, W)
  BY <1>1, HearsNames
<1>2. CASE TellsOnline(V, p, W)
  <2>1. new = ReceivedBuddyListOnline(fs, p.items)
    <3>1. p.kind = "online"
      BY <1>2, Kinds
    <3>. QED BY <3>1 DEF ReceivedByFriends
  <2>. QED BY <1>0, <1>2, <2>1, HearsOnline
<1>3. CASE TellsStatus(V, p, W)
  <2>1. new = ReceivedStatusMessage(fs, p.items)
    <3>1. p.kind = "status"
      BY <1>3, Kinds
    <3>. QED BY <3>1 DEF ReceivedByFriends
  <2>. QED BY <1>0, <1>3, <2>1, HearsStatus
<1>4. ASSUME p.kind \in {"games", "games2", "nick", "removed"},
             V.last <= W.last,
             \A b \in Buddy : W.truth[b].friend =>
               /\ V.truth[b].friend /\ W.truth[b].sid = V.truth[b].sid
               /\ W.truth[b].said = V.truth[b].said
      PROVE  Hears(new, W, E \ NamesIn(new))
  <2>1. new = fs
    BY <1>4 DEF ReceivedByFriends
  <2>2. Hears(fs, W, E)
    BY <1>4, HearsNothing
  <2>. QED BY <1>0, <2>1, <2>2
<1>5. V.last \in Nat /\ \A b \in Buddy : V.truth[b] \in Person
  BY ViewFacts
<1>6. CASE TellsGames(V, p, W)
  <2>1. PICK o \in Seq(Buddy), g \in Games \union {0} :
          /\ W.last = V.last
          /\ \A b \in Buddy : W.truth[b] = IF Among(b, o) THEN Played(V.truth[b], g) ELSE V.truth[b]
    BY <1>6 DEF TellsGames
  <2>2. ASSUME NEW b \in Buddy
        PROVE  /\ W.truth[b].friend = V.truth[b].friend /\ W.truth[b].sid = V.truth[b].sid
               /\ W.truth[b].said = V.truth[b].said
    BY <1>5, <2>1, PersonFacts
  <2>. QED BY <1>4, <1>5, <1>6, <2>1, <2>2, Kinds
<1>7. CASE TellsGames2(V, p, W)
  <2>1. PICK o \in Seq(Buddy), g \in Games \union {0} :
          /\ W.last = V.last
          /\ \A b \in Buddy : W.truth[b] = IF Among(b, o) THEN Talked(V.truth[b], g) ELSE V.truth[b]
    BY <1>7 DEF TellsGames2
  <2>2. ASSUME NEW b \in Buddy
        PROVE  /\ W.truth[b].friend = V.truth[b].friend /\ W.truth[b].sid = V.truth[b].sid
               /\ W.truth[b].said = V.truth[b].said
    BY <1>5, <2>1, PersonFacts
  <2>. QED BY <1>4, <1>5, <1>7, <2>1, <2>2, Kinds
<1>8. CASE TellsNick(V, p, W)
  <2>1. PICK b \in Buddy, n \in Nicks :
          W.last = V.last /\ Becomes(V, W, b, Renamed(V.truth[b], n))
    BY <1>8 DEF TellsNick
  <2>2. /\ W.truth[b].friend = V.truth[b].friend /\ W.truth[b].sid = V.truth[b].sid
        /\ W.truth[b].said = V.truth[b].said
    BY <1>5, <2>1, PersonFacts DEF Becomes
  <2>3. \A c \in Buddy : c # b => W.truth[c] = V.truth[c]
    BY <2>1 DEF Becomes
  <2>4. \A c \in Buddy : /\ W.truth[c].friend = V.truth[c].friend /\ W.truth[c].sid = V.truth[c].sid
                         /\ W.truth[c].said = V.truth[c].said
    BY <2>2, <2>3
  <2>. QED BY <1>4, <1>5, <1>8, <2>1, <2>4, Kinds
<1>9. CASE TellsRemoved(V, p, W)
  <2>1. PICK b \in Buddy : W.last = V.last /\ Becomes(V, W, b, Unknown)
    BY <1>9 DEF TellsRemoved
  <2>2. ~ W.truth[b].friend /\ \A c \in Buddy : c # b => W.truth[c] = V.truth[c]
    BY <2>1 DEF Becomes, Unknown
  <2>. QED BY <1>4, <1>5, <1>9, <2>1, <2>2, Kinds
<1>. QED BY <1>1, <1>2, <1>3, <1>6, <1>7, <1>8, <1>9 DEF Tells

LEMMA StillApart ==
  ASSUME NEW E, NEW X
  PROVE  (E \ X) \intersect X = {}
OBVIOUS

\* A list with nothing but names of people who are not online.
LEMMA HearsFresh ==
  ASSUME NEW W \in SoundViews, NEW E, NEW new \in Seq(JRow),
         \A i \in 1..Len(new) : /\ new[i].userid = UserId[new[i].name] /\ new[i].sid = NullSid
                                /\ W.truth[new[i].name].sid = NoSid,
         \A b \in Buddy : W.truth[b].friend /\ b \notin E => b \in NamesIn(new)
  PROVE  Hears(new, W, E)
<1>1. Len(new) \in Nat
  BY LenProperties
<1>2. \A i \in 1..Len(new) : new[i].sid <= W.last
  <2>1. NullSid <= W.last
    BY ViewFacts DEF NullSid
  <2>. QED BY <2>1
<1>3. \A i \in 1..Len(new), b \in Buddy : new[i].sid # W.truth[b].sid
  <2>1. \A b \in Buddy : W.truth[b].sid # NullSid
    BY ViewFacts DEF NullSid
  <2>. QED BY <2>1
<1>4. ASSUME NEW b \in Buddy, W.truth[b].friend, b \notin E
      PROVE  \E i \in 1..Len(new) : FirstNamed(new, i, b) /\ FriendRight(new[i], W.truth[b])
  <2>1. PICK i \in 1..Len(new) : FirstNamed(new, i, b)
    BY <1>1, <1>4, FirstExists
  <2>2. W.truth[b].sid = NoSid
    BY <2>1 DEF FirstNamed
  <2>. QED BY <2>1, <2>2 DEF FriendRight
<1>. QED BY <1>2, <1>3, <1>4 DEF Hears

-----------------------------------------------------------------------------
(* Paths *)

LEMMA NoPath ==
  ASSUME NEW V, NEW W, NEW q, Len(q) = 0
  PROVE  /\ Path(V, q, W) => V = W
         /\ V \in SoundViews => Path(V, q, V)
<1>1. Path(V, q, W) => V = W
  BY DEF Path
<1>2. ASSUME V \in SoundViews
      PROVE  Path(V, q, V)
  <2> DEFINE v == [n \in 0..0 |-> V]
  <2>1. v \in [0..Len(q) -> SoundViews] /\ v[0] = V /\ v[Len(q)] = V
    BY <1>2
  <2>2. \A n \in 1..Len(q) : FALSE
    OBVIOUS
  <2>. HIDE DEF v
  <2>. QED BY <2>1, <2>2 DEF Path
<1>. QED BY <1>1, <1>2

LEMMA PathHead ==
  ASSUME NEW V, NEW W, NEW q, NEW r, Len(r) \in Nat, Len(q) = Len(r) + 1,
         \A n \in 1..Len(r) : r[n] = q[n + 1], Path(V, q, W)
  PROVE  \E U \in SoundViews : Tells(V, q[1], U) /\ Path(U, r, W)
<1>1. PICK v \in [0..Len(q) -> SoundViews] :
        /\ v[0] = V /\ v[Len(q)] = W
        /\ \A n \in 1..Len(q) : Tells(v[n - 1], q[n], v[n])
  BY DEF Path
<1> DEFINE u == [n \in 0..Len(r) |-> v[n + 1]]
<1>2. \A n \in 0..Len(r) : n + 1 \in 0..Len(q)
  OBVIOUS
<1>3. u \in [0..Len(r) -> SoundViews] /\ u[0] = v[1] /\ u[Len(r)] = W
  BY <1>1, <1>2
<1>4. \A n \in 1..Len(r) : Tells(u[n - 1], r[n], u[n])
  <2>. TAKE n \in 1..Len(r)
  <2>1. /\ n + 1 \in 1..Len(q) /\ (n + 1) - 1 = n
        /\ n - 1 \in 0..Len(r) /\ (n - 1) + 1 = n /\ n \in 0..Len(r)
    OBVIOUS
  <2>2. u[n - 1] = v[n] /\ u[n] = v[n + 1] /\ r[n] = q[n + 1]
    BY <2>1
  <2>3. Tells(v[(n + 1) - 1], q[n + 1], v[n + 1])
    BY <1>1, <2>1
  <2>. HIDE DEF u
  <2>. QED BY <2>1, <2>2, <2>3
<1>5. v[1] \in SoundViews /\ Tells(V, q[1], v[1])
  <2>1. 1 \in 1..Len(q) /\ 1 \in 0..Len(q) /\ 1 - 1 = 0
    OBVIOUS
  <2>. QED BY <1>1, <2>1
<1>. HIDE DEF u
<1>6. Path(v[1], r, W)
  BY <1>3, <1>4 DEF Path
<1>. QED BY <1>5, <1>6

LEMMA PathLast ==
  ASSUME NEW V, NEW W, NEW X \in SoundViews, NEW q, NEW r, Len(q) \in Nat, Len(r) = Len(q) + 1,
         \A n \in 1..Len(q) : r[n] = q[n], Path(V, q, W), Tells(W, r[Len(q) + 1], X)
  PROVE  Path(V, r, X)
<1>1. PICK v \in [0..Len(q) -> SoundViews] :
        /\ v[0] = V /\ v[Len(q)] = W
        /\ \A n \in 1..Len(q) : Tells(v[n - 1], q[n], v[n])
  BY DEF Path
<1> DEFINE u == [n \in 0..Len(r) |-> IF n = Len(r) THEN X ELSE v[n]]
<1>2. \A n \in 0..Len(r) : n = Len(r) \/ n \in 0..Len(q)
  OBVIOUS
<1>3. u \in [0..Len(r) -> SoundViews] /\ u[Len(r)] = X /\ \A n \in 0..Len(q) : u[n] = v[n]
  BY <1>1, <1>2
<1>. HIDE DEF u
<1>4. \A n \in 1..Len(r) : Tells(u[n - 1], r[n], u[n])
  <2>. TAKE n \in 1..Len(r)
  <2>1. CASE n = Len(r)
    <3>1. n = Len(q) + 1 /\ n - 1 = Len(q) /\ Len(q) \in 0..Len(q)
      BY <2>1
    <3>. QED BY <1>1, <1>3, <2>1, <3>1
  <2>2. CASE n # Len(r)
    <3>1. n \in 1..Len(q) /\ n - 1 \in 0..Len(q) /\ n \in 0..Len(q)
      BY <2>2
    <3>. QED BY <1>1, <1>3, <3>1
  <2>. QED BY <2>1, <2>2
<1>5. u[0] = V
  BY <1>1, <1>3
<1>. QED BY <1>3, <1>4, <1>5 DEF Path

-----------------------------------------------------------------------------
(* Orders *)

LEMMA Ordered ==
  ASSUME NEW S \in SUBSET Buddy, NEW o \in Orders(S)
  PROVE  /\ o \in Seq(Buddy) /\ Len(o) = Cardinality(S) /\ Len(o) \in Nat
         /\ \A k \in 1..Len(o) : o[k] \in S
         /\ \A b \in Buddy : Among(b, o) <=> b \in S
         /\ \A k, m \in 1..Len(o) : o[k] = o[m] => k = m
<1> DEFINE n == Cardinality(S)
<1>1. IsFiniteSet(S)
  BY SyncAssumption, FS_Subset
<1>2. n \in Nat
  BY <1>1, FS_CardinalityType
<1>3. o \in [1..n -> S] /\ \A b \in S : \E k \in 1..n : o[k] = b
  BY DEF Orders
<1>4. IsFiniteSet(1..n) /\ Cardinality(1..n) = n
  <2>1. 1 \in Int /\ n \in Int
    BY <1>2
  <2>2. IsFiniteSet(1..n) /\ Cardinality(1..n) = IF 1 > n THEN 0 ELSE n - 1 + 1
    BY ONLY <2>1, FS_Interval
  <2>3. (IF 1 > n THEN 0 ELSE n - 1 + 1) = n
    BY <1>2
  <2>. QED BY <2>2, <2>3
<1>5. o \in Surjection(1..n, S)
  BY <1>3 DEF Surjection
<1>6. o \in Injection(1..n, S)
  BY ONLY <1>4, <1>5, n = Cardinality(S), FS_SurjSameCardinalityImpliesInj
<1>7. \A k, m \in 1..n : o[k] = o[m] => k = m
  BY <1>3, <1>6 DEF Injection, IsInjective
<1>8. o \in Seq(S) /\ Len(o) = n
  BY <1>2, <1>3, FunctionIsSeq
<1>9. o \in Seq(Buddy)
  BY <1>8, SeqMonotonic
<1>. HIDE DEF n
<1>. QED BY <1>2, <1>3, <1>7, <1>8, <1>9 DEF Among, n

LEMMA OneOrdered ==
  ASSUME NEW b \in Buddy
  PROVE  /\ <<b>> \in Seq(Buddy) /\ Len(<<b>>) = 1 /\ <<b>>[1] = b
         /\ \A c \in Buddy : Among(c, <<b>>) <=> c = b
         /\ \A k \in 1..Len(<<b>>) : <<b>>[k] = b
         /\ \A k, m \in 1..Len(<<b>>) : k = m
<1>1. <<b>> \in Seq(Buddy) /\ Len(<<b>>) = 1 /\ <<b>>[1] = b
  OBVIOUS
<1>2. \A k \in 1..Len(<<b>>) : k = 1
  BY <1>1
<1>3. 1 \in 1..Len(<<b>>)
  BY <1>1
<1>. QED BY <1>1, <1>2, <1>3 DEF Among

-----------------------------------------------------------------------------
(* The invariant *)

Now == [truth |-> truth, unheard |-> unheard, last |-> lastSid]

\* The counters and flags.
Control ==
  /\ connected \in BOOLEAN /\ struck \in BOOLEAN /\ events \in 0..MaxEvents
  /\ early \subseteq Buddy /\ (~connected => early = {})
  /\ early \intersect NamesIn(friends) = {}

Traffic == wire \in Seq(Packets) /\ Len(wire) <= MaxWire

\* The packets on their way make of what the clients show what the server knows.
Pipeline ==
  \E V \in SoundViews : /\ Holds(entries, V) /\ (~struck => Shows(entries, V))
                        /\ Hears(friends, V, early) /\ Path(V, wire, Now)

IInv == Control /\ Traffic /\ Now \in SoundViews /\ Pipeline

LEMMA NowFacts ==
  /\ Now.truth = truth /\ Now.unheard = unheard /\ Now.last = lastSid
  /\ Now'.truth = truth' /\ Now'.unheard = unheard' /\ Now'.last = lastSid'
BY DEF Now

LEMMA TellsAPacket ==
  ASSUME NEW V \in SoundViews, NEW W \in SoundViews, NEW p, Tells(V, p, W)
  PROVE  p \in Packets
<1>1. SidOf(V) \in [Buddy -> 0..MaxSid]
  BY ViewFacts DEF SidOf
<1>2. SidOrStrange(V) \in [Buddy -> 0..(MaxSid + 1)]
  <2>1. MaxSid + 1 \in 0..(MaxSid + 1) /\ \A n \in 0..MaxSid : n \in 0..(MaxSid + 1)
    BY SyncAssumption
  <2>. QED BY <2>1, ViewFacts DEF SidOrStrange
<1>3. CASE TellsNames(V, p, W)
  BY <1>3 DEF TellsNames, Packets
<1>4. CASE TellsOnline(V, p, W)
  BY <1>4 DEF TellsOnline, Packets
<1>5. CASE TellsGames(V, p, W)
  BY <1>1, <1>5 DEF TellsGames, Packets
<1>6. CASE TellsGames2(V, p, W)
  BY <1>1, <1>6 DEF TellsGames2, Packets
<1>7. CASE TellsStatus(V, p, W)
  BY <1>2, <1>7 DEF TellsStatus, Packets
<1>8. CASE TellsNick(V, p, W)
  BY <1>8 DEF TellsNick, Packets
<1>9. CASE TellsRemoved(V, p, W)
  BY <1>9 DEF TellsRemoved, Packets
<1>. QED BY <1>3, <1>4, <1>5, <1>6, <1>7, <1>8, <1>9 DEF Tells

\* Whatever the server sends, as long as the packet says what it does.
LEMMA SendStep ==
  ASSUME IInv, NEW p, Send(p), Now' \in SoundViews, Tells(Now, p, Now')
  PROVE  IInv'
<1>1. /\ wire' = Append(wire, p) /\ Len(wire) < MaxWire /\ events < MaxEvents
      /\ events' = events + 1 /\ UNCHANGED <<entries, struck, friends, connected, early>>
  BY DEF Send
<1>2. wire \in Seq(Packets) /\ Now \in SoundViews /\ Len(wire) \in Nat
  BY LenProperties DEF IInv, Traffic
<1>3. p \in Packets
  BY <1>2, TellsAPacket
<1>4. /\ wire' \in Seq(Packets) /\ Len(wire') = Len(wire) + 1
      /\ \A n \in 1..Len(wire) : wire'[n] = wire[n]
      /\ wire'[Len(wire) + 1] = p
  BY <1>1, <1>2, <1>3, AppendProperties
<1>5. Traffic'
  BY <1>1, <1>2, <1>4, SyncAssumption DEF Traffic
<1>6. Control'
  BY <1>1, SyncAssumption DEF IInv, Control, NamesIn
<1>7. PICK V \in SoundViews : /\ Holds(entries, V) /\ (~struck => Shows(entries, V))
                           /\ Hears(friends, V, early) /\ Path(V, wire, Now)
  BY DEF IInv, Pipeline
<1>8. Path(V, wire', Now')
  BY <1>2, <1>4, <1>7, PathLast
<1>9. Pipeline'
  BY <1>1, <1>7, <1>8 DEF Pipeline
<1>. QED BY <1>5, <1>6, <1>9 DEF IInv

-----------------------------------------------------------------------------
(* What the server does, as views *)

\* The session id that b gets when the buddies of o move.
SidAt(V, o, b) ==
  IF V.truth[b].sid # NoSid THEN NoSid ELSE V.last + (CHOOSE k \in 1..Len(o) : o[k] = b)

MovedView(V, S, o) ==
  [truth   |-> [b \in Buddy |-> IF b \in S THEN Moved(V.truth[b], SidAt(V, o, b)) ELSE V.truth[b]],
   unheard |-> V.unheard \ S,
   last    |-> V.last + Len(o)]

LEMMA MoveTells ==
  ASSUME NEW V \in SoundViews, NEW S \in SUBSET Buddy, \A b \in S : V.truth[b].friend,
         NEW o \in Orders(S), V.last + Len(o) <= MaxSid,
         NEW r, r = [b \in Buddy |-> IF b \in S THEN SidAt(V, o, b) ELSE NoSid]
  PROVE  /\ r \in [Buddy -> 0..MaxSid]
         /\ MovedView(V, S, o) \in SoundViews
         /\ Tells(V, OnlinePacket(o, r), MovedView(V, S, o))
<1> DEFINE n == Len(o)
           W == MovedView(V, S, o)
           pos(b) == CHOOSE k \in 1..n : o[k] = b
<1>1. /\ o \in Seq(Buddy) /\ n \in Nat /\ \A k \in 1..n : o[k] \in S
      /\ \A b \in Buddy : Among(b, o) <=> b \in S
  BY Ordered
<1>2. \A b \in S : pos(b) \in 1..n /\ o[pos(b)] = b
  BY <1>1 DEF Among
<1>3. MaxSid \in Nat /\ V.last \in Nat /\ V.last + n <= MaxSid
  BY ViewFacts, SyncAssumption
<1>4. \A b \in Buddy : r[b] = IF b \in S THEN SidAt(V, o, b) ELSE NoSid
  OBVIOUS
<1>5. ASSUME NEW b \in S
      PROVE  \/ r[b] = NoSid
             \/ r[b] = V.last + pos(b) /\ r[b] \in Nat /\ V.last < r[b] /\ r[b] <= V.last + n
  <2>1. r[b] = IF V.truth[b].sid # NoSid THEN NoSid ELSE V.last + pos(b)
    BY <1>4 DEF SidAt
  <2>2. pos(b) \in 1..n
    BY <1>2
  <2>. HIDE DEF pos, n
  <2>. QED BY <1>1, <1>3, <2>1, <2>2
<1>6. r \in [Buddy -> 0..MaxSid]
  <2>1. \A b \in Buddy : r[b] \in 0..MaxSid
    <3>. TAKE b \in Buddy
    <3>1. CASE b \notin S
      BY <1>3, <1>4, <3>1 DEF NoSid
    <3>2. CASE b \in S
      <4>1. CASE r[b] = NoSid
        BY <1>3, <4>1 DEF NoSid
      <4>2. CASE r[b] \in Nat /\ r[b] <= V.last + n
        <5> DEFINE x == r[b]
                   y == V.last
        <5>1. x \in Nat /\ x <= y + n /\ y + n <= MaxSid /\ y \in Nat /\ n \in Nat /\ MaxSid \in Nat
          BY <1>1, <1>3, <4>2
        <5>. HIDE DEF x, y, n
        <5>2. x \in 0..MaxSid
          BY ONLY <5>1
        <5>. QED BY <5>2 DEF x
      <4>. QED BY <1>5, <3>2, <4>1, <4>2
    <3>. QED BY <3>1, <3>2
  <2>. QED BY <2>1
<1>7. /\ \A b \in Buddy : W.truth[b] = IF b \in S THEN Moved(V.truth[b], r[b]) ELSE V.truth[b]
      /\ W.unheard = V.unheard \ S /\ W.last = V.last + n
      /\ W = [truth |-> W.truth, unheard |-> W.unheard, last |-> W.last]
      /\ W.truth = [b \in Buddy |-> W.truth[b]]
  BY <1>4 DEF MovedView
<1>. HIDE DEF W, pos, n
<1>8. \A b \in Buddy : /\ W.truth[b] \in Person /\ W.truth[b].friend = V.truth[b].friend
                       /\ W.truth[b].sid = IF b \in S THEN r[b] ELSE V.truth[b].sid
  <2>. TAKE b \in Buddy
  <2>1. V.truth[b] \in Person /\ r[b] \in 0..MaxSid
    BY <1>6, ViewFacts
  <2>2. CASE b \in S
    BY <1>7, <2>1, <2>2, PersonFacts
  <2>3. CASE b \notin S
    BY <1>7, <2>1, <2>3
  <2>. QED BY <2>2, <2>3
<1>9. W \in SoundViews
  <2>1. W \in Views
    <3>1. W.truth \in [Buddy -> Person]
      BY <1>7, <1>8
    <3>2. W.last \in 0..MaxSid
      BY <1>1, <1>3, <1>7 DEF n
    <3>3. W.unheard \subseteq Buddy
      BY <1>7, ViewFacts
    <3>. QED BY <1>7, <3>1, <3>2, <3>3 DEF Views
  <2>2. ASSUME NEW b \in Buddy, W.truth[b].sid # NoSid
        PROVE  W.truth[b].friend /\ W.truth[b].sid <= W.last
    <3>1. CASE b \in S
      BY <1>5, <1>7, <1>8, <2>2, <3>1
    <3>2. CASE b \notin S
      <4>1. V.truth[b].friend /\ V.truth[b].sid \in Nat /\ V.truth[b].sid <= V.last
        BY <1>8, <2>2, <3>2, ViewFacts
      <4>. QED BY <1>1, <1>3, <1>7, <1>8, <3>2, <4>1 DEF n
    <3>. QED BY <3>1, <3>2
  <2>3. ASSUME NEW b \in Buddy, NEW c \in Buddy, W.truth[b].sid # NoSid,
               W.truth[b].sid = W.truth[c].sid
        PROVE  b = c
    <3>1. CASE b \in S /\ c \in S
      <4>1. V.last + pos(b) = V.last + pos(c)
        BY <1>5, <1>8, <2>3, <3>1
      <4>2. pos(b) = pos(c)
        BY <1>2, <1>3, <3>1, <4>1
      <4>. QED BY <1>2, <3>1, <4>2
    <3>2. CASE b \in S /\ c \notin S
      <4>1. V.last < r[b] /\ r[b] \in Nat /\ V.truth[c].sid = r[b] /\ r[b] # NoSid
        BY <1>5, <1>8, <2>3, <3>2
      <4>2. V.truth[c].sid <= V.last
        BY <4>1, ViewFacts
      <4>. QED BY <1>3, <4>1, <4>2
    <3>3. CASE b \notin S /\ c \in S
      <4>1. V.last < r[c] /\ r[c] \in Nat /\ V.truth[b].sid = r[c] /\ r[c] # NoSid
        BY <1>5, <1>8, <2>3, <3>3
      <4>2. V.truth[b].sid <= V.last
        BY <4>1, ViewFacts
      <4>. QED BY <1>3, <4>1, <4>2
    <3>4. CASE b \notin S /\ c \notin S
      BY <1>8, <2>3, <3>4, ViewFacts
    <3>. QED BY <3>1, <3>2, <3>3, <3>4
  <2>. QED BY <2>1, <2>2, <2>3 DEF SoundViews
<1>10. TellsOnline(V, OnlinePacket(o, r), W)
  <2>1. \A k \in 1..Len(o) : V.truth[o[k]].friend /\ (r[o[k]] # NoSid => V.last < r[o[k]])
    BY <1>1, <1>5 DEF n
  <2>2. V.last <= W.last
    BY <1>1, <1>3, <1>7
  <2>3. \A b \in Buddy :
          IF Among(b, o) THEN W.truth[b] = Moved(V.truth[b], r[b])
          ELSE W.truth[b] = V.truth[b] /\ (b \in W.unheard <=> b \in V.unheard)
    BY <1>1, <1>7
  <2>. QED BY <1>1, <1>6, <2>1, <2>2, <2>3 DEF TellsOnline
<1>. QED BY <1>6, <1>9, <1>10 DEF Tells, W

\* A view that differs from a sound one in no session id is as sound.
LEMMA StillSound ==
  ASSUME NEW V \in SoundViews, NEW W, W \in [truth : [Buddy -> Person], unheard : SUBSET Buddy,
                                             last : {V.last}],
         \A b \in Buddy : \/ W.truth[b].sid = NoSid
                          \/ W.truth[b].sid = V.truth[b].sid /\ W.truth[b].friend = V.truth[b].friend
  PROVE  W \in SoundViews
<1>1. W.last = V.last /\ W \in Views
  BY ViewFacts DEF Views
<1>2. \A b \in Buddy : W.truth[b].sid # NoSid => W.truth[b].friend /\ W.truth[b].sid <= W.last
  BY <1>1, ViewFacts
<1>3. \A b, c \in Buddy : W.truth[b].sid # NoSid /\ W.truth[b].sid = W.truth[c].sid => b = c
  BY ViewFacts
<1>. QED BY <1>1, <1>2, <1>3 DEF SoundViews

\* A view in which f gives what is known of each buddy.
ViewOf(f, U, V) == [truth |-> f, unheard |-> U, last |-> V.last]

LEMMA ViewOfSound ==
  ASSUME NEW V \in SoundViews, NEW f, NEW U \in SUBSET Buddy,
         f = [b \in Buddy |-> f[b]],
         \A b \in Buddy : /\ f[b] \in Person
                          /\ \/ f[b].sid = NoSid
                             \/ f[b].sid = V.truth[b].sid /\ f[b].friend = V.truth[b].friend
  PROVE  /\ ViewOf(f, U, V) \in SoundViews
         /\ ViewOf(f, U, V).truth = f /\ ViewOf(f, U, V).unheard = U
         /\ ViewOf(f, U, V).last = V.last
<1> DEFINE W == ViewOf(f, U, V)
<1>1. W.truth = f /\ W.unheard = U /\ W.last = V.last
  BY DEF ViewOf
<1>2. W \in [truth : [Buddy -> Person], unheard : SUBSET Buddy, last : {V.last}]
  <2>1. f \in [Buddy -> Person]
    OBVIOUS
  <2>. QED BY <2>1 DEF ViewOf
<1>. HIDE DEF W
<1>3. W \in SoundViews
  BY <1>1, <1>2, StillSound
<1>. QED BY <1>1, <1>3 DEF W

SaidTruth(V, o, m) ==
  [b \in Buddy |-> IF V.truth[b].friend /\ Among(b, o) THEN Said(V.truth[b], m) ELSE V.truth[b]]

LEMMA SayTells ==
  ASSUME NEW V \in SoundViews, NEW o \in Seq(Buddy), NEW m \in Statuses,
         \A k \in 1..Len(o) : V.truth[o[k]].friend => V.truth[o[k]].sid # NoSid,
         NEW U \in SUBSET Buddy,
         \A b \in Buddy : b \in U <=> IF V.truth[b].friend /\ Among(b, o) THEN Behind(V, o, b)
                                      ELSE b \in V.unheard
  PROVE  LET W == ViewOf(SaidTruth(V, o, m), U, V)
         IN  W \in SoundViews /\ Tells(V, StatusPacket(o, SidOrStrange(V), m), W)
<1> DEFINE f == SaidTruth(V, o, m)
           W == ViewOf(f, U, V)
<1>1. /\ f = [b \in Buddy |-> f[b]]
      /\ \A b \in Buddy :
           f[b] = IF V.truth[b].friend /\ Among(b, o) THEN Said(V.truth[b], m) ELSE V.truth[b]
  BY DEF SaidTruth
<1>2. \A b \in Buddy : V.truth[b] \in Person
  BY ViewFacts
<1>. HIDE DEF f
<1>3. \A b \in Buddy : f[b] \in Person /\ f[b].sid = V.truth[b].sid /\ f[b].friend = V.truth[b].friend
  BY <1>1, <1>2, PersonFacts
<1>4. W \in SoundViews /\ W.truth = f /\ W.unheard = U /\ W.last = V.last
  BY <1>1, <1>3, ViewOfSound
<1>. HIDE DEF W
<1>5. TellsStatus(V, StatusPacket(o, SidOrStrange(V), m), W)
  BY <1>1, <1>4 DEF TellsStatus
<1>. QED BY <1>4, <1>5 DEF Tells, W, f

PlayedTruth(V, o, g) ==
  [b \in Buddy |-> IF Among(b, o) THEN Played(V.truth[b], g) ELSE V.truth[b]]
TalkedTruth(V, o, g) ==
  [b \in Buddy |-> IF Among(b, o) THEN Talked(V.truth[b], g) ELSE V.truth[b]]

LEMMA PlayTells ==
  ASSUME NEW V \in SoundViews, NEW o \in Seq(Buddy), NEW g \in Games \union {0},
         \A k \in 1..Len(o) : V.truth[o[k]].friend /\ V.truth[o[k]].sid # NoSid
  PROVE  /\ LET W == ViewOf(PlayedTruth(V, o, g), V.unheard, V)
            IN  W \in SoundViews /\ Tells(V, GamesPacket(o, SidOf(V), g), W)
         /\ LET W == ViewOf(TalkedTruth(V, o, g), V.unheard, V)
            IN  W \in SoundViews /\ Tells(V, Games2Packet(o, SidOf(V), g), W)
<1> DEFINE f == PlayedTruth(V, o, g)
           h == TalkedTruth(V, o, g)
           W == ViewOf(f, V.unheard, V)
           X == ViewOf(h, V.unheard, V)
<1>1. /\ f = [b \in Buddy |-> f[b]]
      /\ \A b \in Buddy : f[b] = IF Among(b, o) THEN Played(V.truth[b], g) ELSE V.truth[b]
      /\ h = [b \in Buddy |-> h[b]]
      /\ \A b \in Buddy : h[b] = IF Among(b, o) THEN Talked(V.truth[b], g) ELSE V.truth[b]
  BY DEF PlayedTruth, TalkedTruth
<1>2. V.unheard \in SUBSET Buddy /\ \A b \in Buddy : V.truth[b] \in Person
  BY ViewFacts
<1>. HIDE DEF f, h
<1>3. \A b \in Buddy :
        /\ f[b] \in Person /\ f[b].sid = V.truth[b].sid /\ f[b].friend = V.truth[b].friend
        /\ h[b] \in Person /\ h[b].sid = V.truth[b].sid /\ h[b].friend = V.truth[b].friend
  BY <1>1, <1>2, PersonFacts
<1>4. W \in SoundViews /\ W.truth = f /\ W.unheard = V.unheard /\ W.last = V.last
  BY <1>1, <1>2, <1>3, ViewOfSound
<1>5. X \in SoundViews /\ X.truth = h /\ X.unheard = V.unheard /\ X.last = V.last
  BY <1>1, <1>2, <1>3, ViewOfSound
<1>. HIDE DEF W, X
<1>6. TellsGames(V, GamesPacket(o, SidOf(V), g), W)
  BY <1>1, <1>4 DEF TellsGames
<1>7. TellsGames2(V, Games2Packet(o, SidOf(V), g), X)
  BY <1>1, <1>5 DEF TellsGames2
<1>. QED BY <1>4, <1>5, <1>6, <1>7 DEF Tells, W, X, f, h

LEMMA RenameTells ==
  ASSUME NEW V \in SoundViews, NEW b \in Buddy, V.truth[b].friend, NEW n \in Nicks
  PROVE  LET W == ViewOf([V.truth EXCEPT ![b] = Renamed(V.truth[b], n)], V.unheard, V)
         IN  W \in SoundViews /\ Tells(V, NickPacket(b, n), W)
<1> DEFINE f == [V.truth EXCEPT ![b] = Renamed(V.truth[b], n)]
           W == ViewOf(f, V.unheard, V)
<1>1. V.truth \in [Buddy -> Person] /\ V.unheard \in SUBSET Buddy
  BY DEF SoundViews, Views
<1>2. /\ f = [c \in Buddy |-> f[c]] /\ f[b] = Renamed(V.truth[b], n)
      /\ \A c \in Buddy : c # b => f[c] = V.truth[c]
  BY <1>1
<1>3. \A c \in Buddy : V.truth[c] \in Person
  BY <1>1
<1>. HIDE DEF f
<1>4. \A c \in Buddy : f[c] \in Person /\ f[c].sid = V.truth[c].sid /\ f[c].friend = V.truth[c].friend
  BY <1>2, <1>3, PersonFacts
<1>5. W \in SoundViews /\ W.truth = f /\ W.unheard = V.unheard /\ W.last = V.last
  BY <1>1, <1>2, <1>4, ViewOfSound
<1>. HIDE DEF W
<1>6. TellsNick(V, NickPacket(b, n), W)
  BY <1>2, <1>5 DEF TellsNick, Becomes
<1>. QED BY <1>5, <1>6 DEF Tells, W, f

LEMMA UnfriendTells ==
  ASSUME NEW V \in SoundViews, NEW b \in Buddy, V.truth[b].friend
  PROVE  LET W == ViewOf([V.truth EXCEPT ![b] = Unknown], V.unheard \ {b}, V)
         IN  W \in SoundViews /\ Tells(V, RemovedPacket(b), W)
<1> DEFINE f == [V.truth EXCEPT ![b] = Unknown]
           W == ViewOf(f, V.unheard \ {b}, V)
<1>1. V.truth \in [Buddy -> Person] /\ V.unheard \ {b} \in SUBSET Buddy
  BY DEF SoundViews, Views
<1>2. /\ f = [c \in Buddy |-> f[c]] /\ f[b] = Unknown
      /\ \A c \in Buddy : c # b => f[c] = V.truth[c]
  BY <1>1
<1>3. \A c \in Buddy : V.truth[c] \in Person
  BY <1>1
<1>. HIDE DEF f
<1>4. \A c \in Buddy : /\ f[c] \in Person
                       /\ \/ f[c].sid = NoSid
                          \/ f[c].sid = V.truth[c].sid /\ f[c].friend = V.truth[c].friend
  <2>1. Unknown \in Person /\ Unknown.sid = NoSid
    <3>1. 0 \in 0..MaxSid
      BY SyncAssumption
    <3>. QED BY <3>1 DEF Unknown, Person, NoSid
  <2>. QED BY <1>2, <1>3, <2>1
<1>5. W \in SoundViews /\ W.truth = f /\ W.unheard = V.unheard \ {b} /\ W.last = V.last
  BY <1>1, <1>2, <1>4, ViewOfSound
<1>. HIDE DEF W
<1>6. TellsRemoved(V, RemovedPacket(b), W)
  BY <1>2, <1>5 DEF TellsRemoved, Becomes
<1>. QED BY <1>5, <1>6 DEF Tells, W, f

NamedTruth(V, S, n) == [b \in Buddy |-> IF b \in S THEN Befriended(n) ELSE V.truth[b]]

LEMMA NamesTell ==
  ASSUME NEW V \in SoundViews, NEW S \in SUBSET Buddy, NEW o \in Seq(Buddy),
         \A b \in Buddy : Among(b, o) <=> b \in S,
         \A k \in 1..Len(o) : o[k] \in S,
         \A k, m \in 1..Len(o) : o[k] = o[m] => k = m,
         \A b \in S : ~ V.truth[b].friend, NEW n \in Nicks
  PROVE  LET W == ViewOf(NamedTruth(V, S, n), V.unheard, V)
         IN  W \in SoundViews /\ Tells(V, NamesPacket(o, n), W)
<1> DEFINE f == NamedTruth(V, S, n)
           W == ViewOf(f, V.unheard, V)
<1>1. V.truth \in [Buddy -> Person] /\ V.unheard \in SUBSET Buddy
  BY DEF SoundViews, Views
<1>2. /\ f = [c \in Buddy |-> f[c]]
      /\ \A b \in Buddy : f[b] = IF b \in S THEN Befriended(n) ELSE V.truth[b]
  BY DEF NamedTruth
<1>3. \A c \in Buddy : V.truth[c] \in Person
  BY <1>1
<1>. HIDE DEF f
<1>4. \A c \in Buddy : /\ f[c] \in Person
                       /\ \/ f[c].sid = NoSid
                          \/ f[c].sid = V.truth[c].sid /\ f[c].friend = V.truth[c].friend
  BY <1>2, <1>3, UnknownFacts
<1>5. W \in SoundViews /\ W.truth = f /\ W.unheard = V.unheard /\ W.last = V.last
  BY <1>1, <1>2, <1>4, ViewOfSound
<1>. HIDE DEF W
<1>6. TellsNames(V, NamesPacket(o, n), W)
  BY <1>2, <1>5 DEF TellsNames
<1>. QED BY <1>5, <1>6 DEF Tells, W, f

-----------------------------------------------------------------------------
(* The server's steps *)

LEMMA NowIs ==
  ASSUME IInv
  PROVE  /\ Now \in SoundViews /\ truth \in [Buddy -> Person] /\ unheard \subseteq Buddy
         /\ \A b \in Buddy : b \in Friends <=> truth[b].friend
         /\ Friends \subseteq Buddy
<1>1. Now \in SoundViews
  BY DEF IInv
<1>2. Now.truth \in [Buddy -> Person] /\ Now.unheard \subseteq Buddy
  BY <1>1 DEF SoundViews, Views
<1>. QED BY <1>1, <1>2, NowFacts DEF Friends

LEMMA MoveStep ==
  ASSUME IInv, NEW S \in SUBSET Friends, NEW o \in Orders(S), Move(o)
  PROVE  IInv'
<1> DEFINE r == [b \in Buddy |-> IF b \in S THEN SidAt(Now, o, b) ELSE NoSid]
           T == {o[k] : k \in 1..Len(o)}
           sidOf(b) == IF truth[b].sid # NoSid THEN NoSid
                       ELSE lastSid + (CHOOSE k \in 1..Len(o) : o[k] = b)
           q == [k \in 1..Len(o) |-> [id |-> UserId[o[k]], sid |-> sidOf(o[k])]]
<1>1. S \in SUBSET Buddy /\ \A b \in S : Now.truth[b].friend
  BY NowIs, NowFacts
<1>2. /\ \A k \in 1..Len(o) : o[k] \in S
      /\ \A b \in Buddy : Among(b, o) <=> b \in S
  BY <1>1, Ordered
<1>3. T = S
  BY <1>1, <1>2 DEF Among
<1>4. /\ lastSid + Len(o) <= MaxSid /\ lastSid' = lastSid + Len(o)
      /\ truth' = [b \in Buddy |-> IF b \in T THEN Moved(truth[b], sidOf(b)) ELSE truth[b]]
      /\ unheard' = unheard \ T
      /\ Send([kind |-> "online", items |-> q])
  BY DEF Move, Moved, Items
<1>5. \A b \in Buddy : sidOf(b) = SidAt(Now, o, b)
  BY NowFacts DEF SidAt
<1>6. \A b \in Buddy : r[b] = IF b \in S THEN SidAt(Now, o, b) ELSE NoSid
  OBVIOUS
<1>7. q = [k \in 1..Len(o) |-> [id |-> UserId[o[k]], sid |-> r[o[k]]]]
  <2>1. \A k \in 1..Len(o) : sidOf(o[k]) = r[o[k]]
    BY <1>1, <1>2, <1>5, <1>6
  <2>. HIDE DEF r, sidOf
  <2>. QED BY <2>1
<1>8. Send(OnlinePacket(o, r))
  BY <1>4, <1>7 DEF OnlinePacket
<1>9. Now' = MovedView(Now, S, o)
  <2> DEFINE f == [b \in Buddy |-> IF b \in S THEN Moved(Now.truth[b], SidAt(Now, o, b))
                                   ELSE Now.truth[b]]
  <2>1. truth' = f
    <3>. HIDE DEF T, sidOf
    <3>1. \A b \in Buddy : (IF b \in T THEN Moved(truth[b], sidOf(b)) ELSE truth[b])
            = IF b \in S THEN Moved(Now.truth[b], SidAt(Now, o, b)) ELSE Now.truth[b]
      BY <1>3, <1>5, NowFacts
    <3>. QED BY <1>4, <3>1
  <2>2. unheard' = Now.unheard \ S /\ lastSid' = Now.last + Len(o)
    BY <1>3, <1>4, NowFacts
  <2>3. Now' = [truth |-> truth', unheard |-> unheard', last |-> lastSid']
    BY DEF Now
  <2>4. MovedView(Now, S, o) = [truth |-> f, unheard |-> Now.unheard \ S, last |-> Now.last + Len(o)]
    BY DEF MovedView
  <2>. HIDE DEF f
  <2>. QED BY <2>1, <2>2, <2>3, <2>4
<1>10. /\ MovedView(Now, S, o) \in SoundViews
       /\ Tells(Now, OnlinePacket(o, r), MovedView(Now, S, o))
  <2>1. Now.last + Len(o) <= MaxSid /\ Now \in SoundViews
    BY <1>4, NowFacts, NowIs
  <2>2. r = [b \in Buddy |-> IF b \in S THEN SidAt(Now, o, b) ELSE NoSid]
    OBVIOUS
  <2>. HIDE DEF r
  <2>. QED BY ONLY <1>1, <2>1, <2>2, o \in Orders(S), MoveTells
<1>. HIDE DEF r
<1>. QED BY ONLY IInv, <1>8, <1>9, <1>10, SendStep

LEMMA SayStep ==
  ASSUME IInv, NEW S \in SUBSET (OnlineFriends \union (Buddy \ Friends)),
         NEW o \in Orders(S), NEW m \in Statuses, Say(o, m)
  PROVE  IInv'
<1> DEFINE strangers == {k \in 1..Len(o) : ~truth[o[k]].friend}
           behind == {o[k] : k \in {n \in 1..Len(o) : \E i \in strangers : i <= n}}
           T == {b \in Friends : \E k \in 1..Len(o) : o[k] = b}
           q == [k \in 1..Len(o) |->
                   [sid |-> IF o[k] \in Friends THEN truth[o[k]].sid ELSE MaxSid + 1, msg |-> m]]
<1>1. S \in SUBSET Buddy /\ \A b \in S : truth[b].friend => truth[b].sid # NoSid
  BY NowIs DEF OnlineFriends
<1>2. o \in Seq(Buddy) /\ \A k \in 1..Len(o) : o[k] \in S /\ o[k] \in Buddy
  BY <1>1, Ordered
<1>3. /\ truth' = [b \in Buddy |-> IF b \in T THEN Said(truth[b], m) ELSE truth[b]]
      /\ unheard' = (unheard \ T) \union (behind \intersect T)
      /\ Send([kind |-> "status", items |-> q])
      /\ lastSid' = lastSid
  BY DEF Say, Said, Items
<1>4. \A b \in Buddy : b \in T <=> Now.truth[b].friend /\ Among(b, o)
  BY NowIs, NowFacts DEF Among
<1>5. \A b \in Buddy : b \in behind <=> Behind(Now, o, b)
  <2>. TAKE b \in Buddy
  <2>1. ASSUME b \in behind
        PROVE  Behind(Now, o, b)
    BY <2>1, NowFacts DEF Behind
  <2>2. ASSUME Behind(Now, o, b)
        PROVE  b \in behind
    <3>1. PICK i, k \in 1..Len(o) : o[k] = b /\ i <= k /\ ~truth[o[i]].friend
      BY <2>2, NowFacts DEF Behind
    <3>2. i \in strangers
      BY <3>1
    <3>. QED BY <3>1, <3>2
  <2>. QED BY <2>1, <2>2
<1>6. q = [k \in 1..Len(o) |-> [sid |-> SidOrStrange(Now)[o[k]], msg |-> m]]
  <2>1. \A k \in 1..Len(o) : (IF o[k] \in Friends THEN truth[o[k]].sid ELSE MaxSid + 1)
                               = SidOrStrange(Now)[o[k]]
    BY <1>2, NowIs, NowFacts DEF SidOrStrange
  <2>. QED BY <2>1
<1>7. Send(StatusPacket(o, SidOrStrange(Now), m))
  BY <1>3, <1>6 DEF StatusPacket
<1>8. truth' = SaidTruth(Now, o, m)
  <2>1. \A b \in Buddy : (IF b \in T THEN Said(truth[b], m) ELSE truth[b])
          = IF Now.truth[b].friend /\ Among(b, o) THEN Said(Now.truth[b], m) ELSE Now.truth[b]
    BY <1>4, NowFacts
  <2>. HIDE DEF T
  <2>. QED BY <1>3, <2>1 DEF SaidTruth
<1>. HIDE DEF behind, T
<1>9. /\ unheard' \in SUBSET Buddy
      /\ \A b \in Buddy : b \in unheard' <=>
           IF Now.truth[b].friend /\ Among(b, o) THEN Behind(Now, o, b) ELSE b \in Now.unheard
  <2>1. \A b \in T : b \in Buddy
    BY NowIs DEF T
  <2>. QED BY <1>3, <1>4, <1>5, <2>1, NowIs, NowFacts
<1>10. Now' = ViewOf(SaidTruth(Now, o, m), unheard', Now)
  BY <1>3, <1>8, NowFacts DEF Now, ViewOf
<1>11. \A k \in 1..Len(o) : Now.truth[o[k]].friend => Now.truth[o[k]].sid # NoSid
  BY <1>1, <1>2, NowFacts
<1>12. Now \in SoundViews
  BY NowIs
<1>13. Now' \in SoundViews /\ Tells(Now, StatusPacket(o, SidOrStrange(Now), m), Now')
  BY ONLY <1>2, <1>9, <1>10, <1>11, <1>12, m \in Statuses, SayTells
<1>. QED BY ONLY IInv, <1>7, <1>13, SendStep

LEMMA PlayStep ==
  ASSUME IInv, NEW S \in SUBSET OnlineFriends, NEW o \in Orders(S),
         NEW g \in Games \union {0}, Play(o, g)
  PROVE  IInv'
<1> DEFINE q == [k \in 1..Len(o) |-> [sid |-> truth[o[k]].sid, game |-> g]]
<1>1. S \in SUBSET Buddy /\ \A b \in S : truth[b].friend /\ truth[b].sid # NoSid
  BY NowIs DEF OnlineFriends
<1>2. o \in Seq(Buddy) /\ \A k \in 1..Len(o) : o[k] \in S /\ o[k] \in Buddy
  BY <1>1, Ordered
<1>3. /\ truth' = [b \in Buddy |-> IF Among(b, o) THEN Played(truth[b], g) ELSE truth[b]]
      /\ Send([kind |-> "games", items |-> q])
      /\ unheard' = unheard /\ lastSid' = lastSid
  BY DEF Play, Played, Among, Items
<1>4. q = [k \in 1..Len(o) |-> [sid |-> SidOf(Now)[o[k]], game |-> g]]
  <2>1. \A k \in 1..Len(o) : truth[o[k]].sid = SidOf(Now)[o[k]]
    BY <1>2, NowFacts DEF SidOf
  <2>. QED BY <2>1
<1>5. Send(GamesPacket(o, SidOf(Now), g))
  BY <1>3, <1>4 DEF GamesPacket
<1>6. Now' = ViewOf(PlayedTruth(Now, o, g), Now.unheard, Now)
  BY <1>3, NowFacts DEF Now, ViewOf, PlayedTruth
<1>7. Now \in SoundViews
  BY NowIs
<1>8. \A k \in 1..Len(o) : Now.truth[o[k]].friend /\ Now.truth[o[k]].sid # NoSid
  BY <1>1, <1>2, NowFacts
<1>9. Now' \in SoundViews /\ Tells(Now, GamesPacket(o, SidOf(Now), g), Now')
  BY ONLY <1>2, <1>6, <1>7, <1>8, g \in Games \union {0}, PlayTells
<1>. QED BY ONLY IInv, <1>5, <1>9, SendStep

LEMMA TalkStep ==
  ASSUME IInv, NEW b \in OnlineFriends, NEW g \in Games \union {0}, Talk(b, g)
  PROVE  IInv'
<1> DEFINE o == <<b>>
           f == [truth EXCEPT ![b].game2 = g]
           q == <<[sid |-> truth[b].sid, game |-> g]>>
<1>1. b \in Buddy /\ truth[b].friend /\ truth[b].sid # NoSid
  BY NowIs DEF OnlineFriends
<1>2. /\ o \in Seq(Buddy) /\ Len(o) = 1 /\ o[1] = b
      /\ \A c \in Buddy : Among(c, o) <=> c = b
      /\ \A k \in 1..Len(o) : o[k] = b
  BY <1>1, OneOrdered
<1>3. truth' = f /\ Send([kind |-> "games2", items |-> q])
      /\ unheard' = unheard /\ lastSid' = lastSid
  BY DEF Talk
<1>4. q = [k \in 1..Len(o) |-> [sid |-> SidOf(Now)[o[k]], game |-> g]]
  <2>1. SidOf(Now)[b] = truth[b].sid
    BY <1>1, NowFacts DEF SidOf
  <2>2. q = [k \in 1..1 |-> [sid |-> truth[b].sid, game |-> g]]
    OBVIOUS
  <2>3. \A k \in 1..1 : [sid |-> truth[b].sid, game |-> g] = [sid |-> SidOf(Now)[o[k]], game |-> g]
    BY <1>2, <2>1
  <2>. HIDE DEF o, q
  <2>. QED BY <1>2, <2>2, <2>3
<1>5. Send(Games2Packet(o, SidOf(Now), g))
  BY <1>3, <1>4 DEF Games2Packet
<1>6. truth' = TalkedTruth(Now, o, g)
  <2>1. f = [c \in Buddy |-> IF c = b THEN [truth[b] EXCEPT !.game2 = g] ELSE truth[c]]
    BY <1>1, NowIs
  <2>. HIDE DEF f, o
  <2>2. \A c \in Buddy : (IF c = b THEN [truth[b] EXCEPT !.game2 = g] ELSE truth[c])
                           = IF Among(c, o) THEN Talked(Now.truth[c], g) ELSE Now.truth[c]
    BY <1>2, NowFacts DEF Talked
  <2>. QED BY <1>3, <2>1, <2>2 DEF TalkedTruth
<1>. HIDE DEF o, f, q
<1>7. Now' = ViewOf(TalkedTruth(Now, o, g), Now.unheard, Now)
  BY <1>3, <1>6, NowFacts DEF Now, ViewOf
<1>8. Now \in SoundViews
  BY NowIs
<1>9. \A k \in 1..Len(o) : Now.truth[o[k]].friend /\ Now.truth[o[k]].sid # NoSid
  BY <1>1, <1>2, NowFacts
<1>10. Now' \in SoundViews /\ Tells(Now, Games2Packet(o, SidOf(Now), g), Now')
  BY ONLY <1>2, <1>7, <1>8, <1>9, g \in Games \union {0}, PlayTells
<1>. QED BY ONLY IInv, <1>5, <1>10, SendStep

LEMMA RenameStep ==
  ASSUME IInv, NEW b \in Friends, NEW n \in Nicks, Rename(b, n)
  PROVE  IInv'
<1> DEFINE f == [truth EXCEPT ![b].nick = n]
           h == [Now.truth EXCEPT ![b] = Renamed(Now.truth[b], n)]
<1>1. b \in Buddy /\ Now.truth[b].friend /\ Now \in SoundViews
  BY NowIs, NowFacts
<1>2. truth' = f /\ Send(NickPacket(b, n)) /\ unheard' = unheard /\ lastSid' = lastSid
  BY DEF Rename, NickPacket
<1>3. f = h
  BY NowFacts DEF Renamed
<1>. HIDE DEF f, h
<1>4. Now' = ViewOf(h, Now.unheard, Now)
  BY <1>2, <1>3, NowFacts DEF Now, ViewOf
<1>5. Now' \in SoundViews /\ Tells(Now, NickPacket(b, n), Now')
  BY ONLY <1>1, <1>4, n \in Nicks, RenameTells DEF h
<1>. QED BY ONLY IInv, <1>2, <1>5, SendStep

LEMMA UnfriendStep ==
  ASSUME IInv, NEW b \in Friends, Unfriend(b)
  PROVE  IInv'
<1> DEFINE f == [truth EXCEPT ![b] = Unknown]
           h == [Now.truth EXCEPT ![b] = Unknown]
<1>1. b \in Buddy /\ Now.truth[b].friend /\ Now \in SoundViews
  BY NowIs, NowFacts
<1>2. truth' = f /\ Send(RemovedPacket(b)) /\ unheard' = unheard \ {b} /\ lastSid' = lastSid
  BY DEF Unfriend, RemovedPacket
<1>3. f = h
  BY NowFacts
<1>. HIDE DEF f, h
<1>4. Now' = ViewOf(h, Now.unheard \ {b}, Now)
  BY <1>2, <1>3, NowFacts DEF Now, ViewOf
<1>5. Now' \in SoundViews /\ Tells(Now, RemovedPacket(b), Now')
  BY ONLY <1>1, <1>4, UnfriendTells DEF h
<1>. QED BY ONLY IInv, <1>2, <1>5, SendStep

LEMMA BefriendStep ==
  ASSUME IInv, NEW b \in Buddy \ Friends, NEW n \in Nicks, Befriend(b, n)
  PROVE  IInv'
<1> DEFINE o == <<b>>
           S == {b}
           f == [truth EXCEPT ![b] = Befriended(n)]
           h == NamedTruth(Now, S, n)
           q == <<[name |-> b, id |-> UserId[b], nick |-> n]>>
<1>1. b \in Buddy /\ ~Now.truth[b].friend /\ Now \in SoundViews
  BY NowIs, NowFacts
<1>2. /\ o \in Seq(Buddy) /\ Len(o) = 1 /\ o[1] = b
      /\ \A c \in Buddy : Among(c, o) <=> c = b
      /\ \A k \in 1..Len(o) : o[k] = b
      /\ \A k, m \in 1..Len(o) : k = m
  BY <1>1, OneOrdered
<1>3. /\ truth' = f /\ Send([kind |-> "names", items |-> q])
      /\ unheard' = unheard /\ lastSid' = lastSid
  BY DEF Befriend, Befriended
<1>4. q = [k \in 1..Len(o) |-> [name |-> o[k], id |-> UserId[o[k]], nick |-> n]]
  <2>1. q = [k \in 1..1 |-> [name |-> b, id |-> UserId[b], nick |-> n]]
    OBVIOUS
  <2>2. \A k \in 1..1 : [name |-> b, id |-> UserId[b], nick |-> n]
                          = [name |-> o[k], id |-> UserId[o[k]], nick |-> n]
    BY <1>2
  <2>. HIDE DEF o, q
  <2>. QED BY <1>2, <2>1, <2>2
<1>5. Send(NamesPacket(o, n))
  BY <1>3, <1>4 DEF NamesPacket
<1>6. f = h
  BY <1>1, NowIs, NowFacts DEF NamedTruth
<1>7. /\ S \in SUBSET Buddy
      /\ \A c \in Buddy : Among(c, o) <=> c \in S
      /\ \A k \in 1..Len(o) : o[k] \in S
      /\ \A k, m \in 1..Len(o) : o[k] = o[m] => k = m
      /\ \A c \in S : ~Now.truth[c].friend
  BY <1>1, <1>2
<1>. HIDE DEF o, f, q, S
<1>8. Now' = ViewOf(NamedTruth(Now, S, n), Now.unheard, Now)
  BY <1>3, <1>6, NowFacts DEF Now, ViewOf
<1>9. Now' \in SoundViews /\ Tells(Now, NamesPacket(o, n), Now')
  BY ONLY <1>1, <1>2, <1>7, <1>8, n \in Nicks, NamesTell
<1>. QED BY ONLY IInv, <1>5, <1>9, SendStep

-----------------------------------------------------------------------------
(* The first state, and the clients' steps *)

LEMMA HearsNobody ==
  ASSUME NEW W \in SoundViews, NEW E, \A b \in Buddy : W.truth[b].friend => b \in E
  PROVE  Hears(<< >>, W, E)
<1> DEFINE q == << >>
<1>1. q \in Seq(JRow) /\ Len(q) = 0
  OBVIOUS
<1>. HIDE DEF q
<1>2. \A i \in 1..Len(q) : FALSE
  BY <1>1
<1>3. Hears(q, W, E)
  BY ONLY <1>1, <1>2, \A b \in Buddy : W.truth[b].friend => b \in E, W \in SoundViews, HearsFresh
<1>. QED BY <1>3 DEF q

LEMMA Greeting ==
  ASSUME Init
  PROVE  IInv
<1>1. PICK S \in SUBSET Buddy, n \in Nicks :
        /\ truth = [b \in Buddy |-> IF b \in S THEN Befriended(n) ELSE Unknown]
        /\ \E o \in Orders(S) : wire = <<NamesPacket(o, n)>>
  BY DEF Init, Befriended, NamesPacket, Items
<1>2. PICK o \in Orders(S) : wire = <<NamesPacket(o, n)>>
  BY <1>1
<1> DEFINE V == [truth |-> [b \in Buddy |-> Unknown], unheard |-> {}, last |-> 0]
           f == [b \in Buddy |-> Unknown]
<1>3. /\ entries = <<>> /\ struck = FALSE /\ friends = <<>> /\ connected = FALSE /\ early = {} /\ unheard = {}
      /\ lastSid = 0 /\ events = 0
  BY DEF Init
<1>4. /\ V.truth = f /\ \A b \in Buddy : V.truth[b] = Unknown
      /\ V.unheard = {} /\ V.last = 0
  OBVIOUS
<1>5. Unknown \in Person /\ ~Unknown.friend /\ Unknown.sid = NoSid
  BY UnknownFacts
<1>6. V \in SoundViews
  <2>1. V \in Views
    <3>1. f \in [Buddy -> Person] /\ 0 \in 0..MaxSid /\ {} \in SUBSET Buddy
      BY <1>5, SyncAssumption
    <3>. HIDE DEF f
    <3>2. V = [truth |-> f, unheard |-> {}, last |-> 0]
      BY DEF f
    <3>. HIDE DEF V
    <3>. QED BY <3>1, <3>2 DEF Views
  <2>. HIDE DEF V
  <2>. QED BY <1>4, <1>5, <2>1 DEF SoundViews
<1>. HIDE DEF V, f
<1>7. /\ o \in Seq(Buddy) /\ \A b \in Buddy : Among(b, o) <=> b \in S
      /\ \A k \in 1..Len(o) : o[k] \in S
      /\ \A k, m \in 1..Len(o) : o[k] = o[m] => k = m
  BY Ordered
<1>8. \A b \in S : ~V.truth[b].friend
  BY <1>4, <1>5
<1>9. Now = ViewOf(NamedTruth(V, S, n), V.unheard, V)
  <2>1. truth = NamedTruth(V, S, n)
    <3>1. \A b \in Buddy : (IF b \in S THEN Befriended(n) ELSE Unknown)
                             = IF b \in S THEN Befriended(n) ELSE V.truth[b]
      BY <1>4
    <3>. QED BY <1>1, <3>1 DEF NamedTruth
  <2>. QED BY <1>3, <1>4, <2>1 DEF Now, ViewOf
<1>10. Now \in SoundViews /\ Tells(V, NamesPacket(o, n), Now)
  BY ONLY <1>6, <1>7, <1>8, <1>9, S \in SUBSET Buddy, n \in Nicks, NamesTell
<1>11. NamesPacket(o, n) \in Packets
  BY <1>6, <1>10, TellsAPacket
<1> DEFINE p == NamesPacket(o, n)
<1>. HIDE DEF p
<1>12. wire \in Seq(Packets) /\ Len(wire) = 1 /\ wire[1] = p
  <2>1. wire = <<p>> /\ p \in Packets
    BY <1>2, <1>11 DEF p
  <2>. QED BY <2>1
<1>13. Path(V, wire, Now)
  <2> DEFINE q == << >>
  <2>1. Len(q) = 0
    OBVIOUS
  <2>. HIDE DEF q
  <2>2. Path(V, q, V)
    BY <1>6, <2>1, NoPath
  <2>3. Len(q) \in Nat /\ Len(wire) = Len(q) + 1 /\ \A i \in 1..Len(q) : wire[i] = q[i]
    BY <1>12, <2>1
  <2>4. Tells(V, wire[Len(q) + 1], Now)
    BY <1>10, <1>12, <2>1 DEF p
  <2>. QED BY <1>10, <2>2, <2>3, <2>4, PathLast
<1>14. Shows(entries, V)
  BY <1>3, <1>4, <1>5 DEF Shows
<1>15. Hears(friends, V, early)
  <2>1. \A b \in Buddy : V.truth[b].friend => b \in {}
    BY <1>4, <1>5
  <2>2. Hears(<< >>, V, {})
    BY ONLY <1>6, <2>1, HearsNobody
  <2>. QED BY <1>3, <2>2
<1>16. Control
  <2>1. NamesIn(friends) = {}
    <3>1. \A i \in 1..Len(friends) : FALSE
      BY <1>3
    <3>. QED BY <3>1 DEF NamesIn
  <2>2. events \in 0..MaxEvents
    BY <1>3, SyncAssumption
  <2>3. connected \in BOOLEAN /\ struck \in BOOLEAN
    BY <1>3
  <2>. QED BY <1>3, <2>1, <2>2, <2>3 DEF Control
<1>17. Traffic
  BY <1>12, SyncAssumption DEF Traffic
<1>18. Pipeline
  BY <1>6, <1>13, <1>14, <1>15, ShowsHolds DEF Pipeline
<1>. QED BY <1>10, <1>16, <1>17, <1>18 DEF IInv

\* What the first packet on the wire says.
LEMMA NextPacket ==
  ASSUME IInv, wire # <<>>
  PROVE  /\ Tail(wire) \in Seq(Packets) /\ Len(Tail(wire)) <= MaxWire
         /\ \E V \in SoundViews, U \in SoundViews :
              /\ Holds(entries, V) /\ (~struck => Shows(entries, V))
              /\ Hears(friends, V, early)
              /\ Tells(V, Head(wire), U) /\ Path(U, Tail(wire), Now)
<1>1. wire \in Seq(Packets) /\ Len(wire) <= MaxWire
  BY DEF IInv, Traffic
<1>2. PICK V \in SoundViews : /\ Holds(entries, V) /\ (~struck => Shows(entries, V))
                           /\ Hears(friends, V, early) /\ Path(V, wire, Now)
  BY DEF IInv, Pipeline
<1>3. Len(wire) \in Nat /\ Len(wire) # 0
  BY <1>1, LenProperties, EmptySeq
<1>4. /\ Tail(wire) \in Seq(Packets) /\ Len(Tail(wire)) = Len(wire) - 1
      /\ \A n \in 1..Len(Tail(wire)) : Tail(wire)[n] = wire[n + 1]
      /\ Head(wire) = wire[1]
  BY <1>1, HeadTailProperties
<1>5. Len(Tail(wire)) \in Nat /\ Len(wire) = Len(Tail(wire)) + 1
  BY <1>3, <1>4
<1> DEFINE r == Tail(wire)
<1>. HIDE DEF r
<1>6. \E U \in SoundViews : Tells(V, wire[1], U) /\ Path(U, r, Now)
  BY <1>2, <1>4, <1>5, PathHead DEF r
<1>7. Len(r) <= MaxWire
  <2>1. Len(wire) = Len(r) + 1 /\ Len(r) \in Nat /\ MaxWire \in Nat
    BY <1>5, SyncAssumption DEF r
  <2>. QED BY <1>1, <2>1
<1>. QED BY <1>2, <1>4, <1>6, <1>7 DEF r

LEMMA ReceiveStep ==
  ASSUME IInv, Receive
  PROVE  IInv'
<1>1. /\ wire # <<>> /\ entries' \in Results(entries, Head(wire))
      /\ struck' = (struck \/ (Head(wire).kind \in {"games", "games2"}
                                 /\ Len(entries') < Len(entries)))
      /\ friends' = ReceivedByFriends(friends, Head(wire))
      /\ early' = IF connected THEN early \ NamesIn(friends') ELSE early
      /\ wire' = Tail(wire)
      /\ UNCHANGED <<connected, truth, unheard, lastSid, events>>
  BY DEF Receive, NamesIn
<1>2. PICK V \in SoundViews, U \in SoundViews :
        /\ Holds(entries, V) /\ (~struck => Shows(entries, V)) /\ Hears(friends, V, early)
        /\ Tells(V, Head(wire), U) /\ Path(U, Tail(wire), Now)
  BY <1>1, NextPacket
<1>3. /\ early \intersect NamesIn(friends) = {} /\ early \subseteq Buddy
      /\ ~connected => early = {}
  BY DEF IInv, Control
<1>4. Holds(entries', U) /\ (~struck' => Shows(entries', U))
  <2>1. Holds(entries', U)
    BY <1>1, <1>2, ListKeepsOrder
  <2>2. ASSUME ~struck'
        PROVE  Shows(entries', U)
    <3>1. /\ Shows(entries, V)
          /\ ~(Head(wire).kind \in {"games", "games2"} /\ Len(entries') < Len(entries))
      BY <1>1, <1>2, <2>2
    <3>. QED BY <1>1, <1>2, <3>1, ListDoesAsTold
  <2>. QED BY <2>1, <2>2
<1>5. early' = early \ NamesIn(friends')
  BY <1>1, <1>3
<1>6. Hears(friends', U, early')
  BY <1>1, <1>2, <1>3, <1>5, FriendsDoAsTold
<1>7. Now' = Now
  BY <1>1 DEF Now
<1>8. Pipeline'
  BY <1>1, <1>2, <1>4, <1>6, <1>7 DEF Pipeline
<1>9. Control'
  <2>1. early' \intersect NamesIn(friends)' = {} /\ early' \subseteq Buddy
        /\ (~connected => early' = {})
    BY <1>3, <1>5 DEF NamesIn
  <2>2. struck' \in BOOLEAN
    BY <1>1 DEF IInv, Control
  <2>. QED BY <1>1, <2>1, <2>2 DEF IInv, Control
<1>10. Traffic'
  BY <1>1, NextPacket DEF Traffic
<1>. QED BY <1>7, <1>8, <1>9, <1>10 DEF IInv

LEMMA GotConnectedStep ==
  ASSUME IInv, GotConnected
  PROVE  IInv'
<1>1. /\ ~connected /\ connected' = TRUE /\ early' = NamesIn(friends) /\ friends' = <<>>
      /\ UNCHANGED <<entries, struck, wire, truth, unheard, lastSid, events>>
  BY DEF GotConnected, NamesIn
<1>2. PICK V \in SoundViews : /\ Holds(entries, V) /\ (~struck => Shows(entries, V))
                           /\ Hears(friends, V, early) /\ Path(V, wire, Now)
  BY DEF IInv, Pipeline
<1>3. early = {}
  BY <1>1 DEF IInv, Control
<1>4. \A b \in Buddy : V.truth[b].friend => b \in NamesIn(friends)
  BY <1>2, <1>3 DEF Hears, FirstNamed, NamesIn
<1>5. Hears(friends', V, early')
  <2>1. Hears(<< >>, V, NamesIn(friends))
    BY ONLY <1>2, <1>4, HearsNobody
  <2>. QED BY <1>1, <2>1
<1>6. Now' = Now
  BY <1>1 DEF Now
<1>7. Pipeline'
  BY <1>1, <1>2, <1>5, <1>6 DEF Pipeline
<1>8. Control'
  <2>1. NamesIn(friends) \subseteq Buddy
    BY <1>2, HeardRows DEF NamesIn
  <2>2. NamesIn(friends)' = {}
    BY <1>1 DEF NamesIn
  <2>. QED BY <1>1, <2>1, <2>2 DEF IInv, Control
<1>9. Traffic'
  BY <1>1 DEF IInv, Traffic
<1>. QED BY <1>6, <1>7, <1>8, <1>9 DEF IInv

NamesUpTo(fs, n) == {fs[i].name : i \in 1..n}

\* The names that the reader is adding when the list is replaced.
LEMMA HearsRest ==
  ASSUME NEW V \in SoundViews, NEW U \in SoundViews, NEW fs, Hears(fs, V, {}),
         NEW p, TellsNames(V, p, U), NEW k \in Nat, k <= Len(p.items),
         NEW listed, listed = ReceivedByFriends(fs, p),
         NEW new, new = SubSeq(listed, Len(fs) + k + 1, Len(listed)),
         NEW E, E = NamesUpTo(listed, Len(fs) + k) \ NamesIn(new)
  PROVE  Hears(new, U, E) /\ E \subseteq Buddy
<1>1. PICK o \in Seq(Buddy), n \in Nicks :
        /\ p = NamesPacket(o, n)
        /\ \A b \in Buddy : U.truth[b] = IF Among(b, o) THEN Befriended(n) ELSE V.truth[b]
  BY DEF TellsNames
<1> DEFINE m == Len(fs) + k
<1>2. fs \in Seq(JRow) /\ Len(fs) \in Nat
  BY HeardRows
<1>3. /\ Len(o) \in Nat /\ listed \in Seq(JRow) /\ Len(listed) = Len(fs) + Len(o)
      /\ \A i \in 1..Len(fs) : i \in 1..Len(listed) /\ listed[i] = fs[i]
      /\ \A j \in 1..Len(o) :
           /\ Len(fs) + j \in 1..Len(listed)
           /\ listed[Len(fs) + j].name = o[j] /\ listed[Len(fs) + j].userid = UserId[o[j]]
           /\ listed[Len(fs) + j].sid = NullSid
  <2>1. Adds(ReceivedByFriends(fs, NamesPacket(o, n)), fs, o)
    BY <1>2, AddedFriends
  <2>. QED BY <1>1, <2>1 DEF Adds
<1>4. k <= Len(o)
  BY <1>1, NamesItems
<1>5. m \in 0..Len(listed) /\ Len(listed) - m = Len(o) - k
  <2> DEFINE x == Len(o)
             y == Len(fs)
             z == Len(listed)
  <2>1. /\ x \in Nat /\ y \in Nat /\ k \in Nat /\ k <= x
        /\ z = y + x /\ m = y + k
    BY <1>2, <1>3, <1>4
  <2>. HIDE DEF x, y, z, m
  <2>2. m \in 0..z /\ z - m = x - k
    BY ONLY <2>1
  <2>. QED BY <2>2 DEF x, z
<1>6. new = SubSeq(listed, m + 1, Len(listed))
  OBVIOUS
<1>. HIDE DEF m
<1>7. /\ new \in Seq(JRow) /\ Len(new) = Len(o) - k
      /\ \A i \in 1..(Len(o) - k) : new[i] = listed[m + i]
  <2>1. listed \in Seq(JRow)
    BY <1>3
  <2>. HIDE DEF m
  <2>2. /\ new \in Seq(JRow) /\ Len(new) = Len(listed) - m
        /\ \A i \in 1..(Len(listed) - m) : new[i] = listed[m + i]
    BY ONLY <2>1, <1>5, <1>6, BackFacts
  <2>. QED BY <1>5, <2>2
<1>8. \A i \in 1..Len(new) :
        /\ k + i \in 1..Len(o) /\ new[i].name = o[k + i] /\ new[i].userid = UserId[o[k + i]]
        /\ new[i].sid = NullSid
  <2>. TAKE i \in 1..Len(new)
  <2>1. k + i \in 1..Len(o) /\ m + i = Len(fs) + (k + i) /\ i \in 1..(Len(o) - k)
    <3> DEFINE x == Len(o)
               y == Len(fs)
    <3>1. x \in Nat /\ y \in Nat /\ k \in Nat /\ k <= x /\ i \in 1..(x - k) /\ m = y + k
      BY <1>2, <1>3, <1>4, <1>7 DEF m
    <3>. HIDE DEF x, y
    <3>2. k + i \in 1..x /\ m + i = y + (k + i) /\ i \in 1..(x - k)
      BY ONLY <3>1
    <3>. QED BY <3>2 DEF x, y
  <2>. QED BY <1>3, <1>7, <2>1
<1>9. \A j \in 1..Len(o) : o[j] \in Buddy
  BY OrderFacts
<1>10. Befriended(n).sid = NoSid
  BY UnknownFacts
<1>11. \A i \in 1..Len(new) : /\ new[i].userid = UserId[new[i].name] /\ new[i].sid = NullSid
                              /\ U.truth[new[i].name].sid = NoSid
  <2>. TAKE i \in 1..Len(new)
  <2>1. new[i].name \in Buddy /\ Among(new[i].name, o)
    BY <1>8, <1>9 DEF Among
  <2>. QED BY <1>1, <1>8, <1>10, <2>1
<1>12. ASSUME NEW b \in Buddy, U.truth[b].friend, b \notin E
       PROVE  b \in NamesIn(new)
  <2>1. ASSUME NEW i \in 1..m, listed[i].name = b
        PROVE  b \in NamesIn(new)
    <3>1. b \in NamesUpTo(listed, Len(fs) + k)
      BY <2>1 DEF m, NamesUpTo
    <3>. QED BY <1>12, <3>1
  <2>2. CASE Among(b, o)
    <3>1. PICK j \in 1..Len(o) : o[j] = b
      BY <2>2 DEF Among
    <3>2. CASE j <= k
      <4>1. Len(fs) + j \in 1..m
        BY <1>2, <1>3, <3>2 DEF m
      <4>2. listed[Len(fs) + j].name = b
        BY <1>3, <3>1
      <4>. QED BY <2>1, <4>1, <4>2
    <3>3. CASE ~(j <= k)
      <4>1. j - k \in 1..Len(new) /\ k + (j - k) = j
        <5> DEFINE x == Len(o)
                   z == Len(new)
        <5>1. x \in Nat /\ k \in Nat /\ j \in 1..x /\ ~(j <= k) /\ z = x - k
          BY <1>3, <1>7, <3>3
        <5>. HIDE DEF x, z
        <5>2. j - k \in 1..z /\ k + (j - k) = j
          BY ONLY <5>1
        <5>. QED BY <5>2 DEF z
      <4>2. new[j - k].name = b
        BY <1>8, <3>1, <4>1
      <4>. QED BY <4>1, <4>2 DEF NamesIn
    <3>. QED BY <3>2, <3>3
  <2>3. CASE ~Among(b, o)
    <3>1. V.truth[b].friend
      BY <1>1, <1>12, <2>3
    <3>2. PICK i \in 1..Len(fs) : fs[i].name = b
      BY <3>1 DEF Hears, FirstNamed
    <3>3. i \in 1..m
      <4>1. k \in Nat /\ m = Len(fs) + k
        BY DEF m
      <4>. QED BY ONLY <1>2, <4>1, i \in 1..Len(fs)
    <3>4. listed[i].name = b
      BY <1>3, <3>2
    <3>. QED BY <2>1, <3>3, <3>4
  <2>. QED BY <2>2, <2>3
<1>13. Hears(new, U, E)
  BY <1>7, <1>11, <1>12, HearsFresh
<1>14. E \subseteq Buddy
  <2>1. \A i \in 1..m : i \in 1..Len(listed)
    BY <1>3, <1>5
  <2>2. \A i \in 1..Len(listed) : listed[i] \in JRow
    BY <1>3, ElementOfSeq
  <2>. QED BY <2>1, <2>2, JRowFacts DEF m, NamesUpTo
<1>. QED BY <1>13, <1>14

LEMMA GotConnectedWithinStep ==
  ASSUME IInv, NEW k \in 1..(Cardinality(Buddy) - 1), GotConnectedWithin(k)
  PROVE  IInv'
<1> DEFINE p == Head(wire)
           listed == ReceivedByFriends(friends, p)
<1>1. /\ ~connected /\ connected' = TRUE /\ wire # <<>> /\ p.kind = "names"
      /\ k <= Len(p.items)
      /\ friends' = SubSeq(listed, Len(friends) + k + 1, Len(listed))
      /\ early' = NamesUpTo(listed, Len(friends) + k) \ NamesIn(friends')
      /\ entries' \in Results(entries, p) /\ wire' = Tail(wire)
      /\ UNCHANGED <<struck, truth, unheard, lastSid, events>>
  BY DEF GotConnectedWithin, NamesIn, NamesUpTo
<1>. HIDE DEF p, listed
<1>2. PICK V \in SoundViews, U \in SoundViews :
        /\ Holds(entries, V) /\ (~struck => Shows(entries, V)) /\ Hears(friends, V, early)
        /\ Tells(V, p, U) /\ Path(U, Tail(wire), Now)
  BY <1>1, NextPacket DEF p
<1>3. early = {}
  BY <1>1 DEF IInv, Control
<1>4. k \in Nat
  OBVIOUS
<1>5. TellsNames(V, p, U)
  BY <1>1, <1>2, Kinds DEF Tells
<1>6. Holds(entries', U) /\ (~struck' => Shows(entries', U))
  <2>1. Holds(entries', U)
    BY <1>1, <1>2, ListKeepsOrder
  <2>2. ~(p.kind \in {"games", "games2"})
    BY <1>1
  <2>3. ASSUME Shows(entries, V)
        PROVE  Shows(entries', U)
    BY <1>1, <1>2, <2>2, <2>3, ListDoesAsTold
  <2>. QED BY <1>1, <1>2, <2>1, <2>3
<1>7. Hears(friends', U, early') /\ early' \subseteq Buddy
  <2>1. listed = ReceivedByFriends(friends, p)
    BY DEF listed
  <2>2. Hears(friends, V, {})
    BY <1>2, <1>3
  <2>3. /\ k <= Len(p.items)
        /\ friends' = SubSeq(listed, Len(friends) + k + 1, Len(listed))
        /\ early' = NamesUpTo(listed, Len(friends) + k) \ NamesIn(friends')
    BY <1>1
  <2>. QED BY ONLY <1>2, <1>4, <1>5, <2>1, <2>2, <2>3, HearsRest
<1>8. Now' = Now
  BY <1>1 DEF Now
<1>9. Pipeline'
  BY <1>1, <1>2, <1>6, <1>7, <1>8 DEF Pipeline
<1>10. Control'
  <2>1. early' \intersect NamesIn(friends') = {} /\ NamesIn(friends)' = NamesIn(friends')
    BY <1>1 DEF NamesIn
  <2>. QED BY <1>1, <1>7, <2>1 DEF IInv, Control
<1>11. Traffic'
  BY <1>1, NextPacket DEF Traffic
<1>. QED BY <1>8, <1>9, <1>10, <1>11 DEF IInv

-----------------------------------------------------------------------------
(* Theorems *)

LEMMA StepKeeps ==
  ASSUME IInv, [Next]_vars
  PROVE  IInv'
<1>1. CASE \E S \in SUBSET Friends : \E order \in Orders(S) : S # {} /\ Move(order)
  BY <1>1, MoveStep
<1>2. CASE \E S \in SUBSET (OnlineFriends \union (Buddy \ Friends)) :
             \E order \in Orders(S), msg \in Statuses : S # {} /\ Say(order, msg)
  BY <1>2, SayStep
<1>3. CASE \E S \in SUBSET OnlineFriends :
             \E order \in Orders(S), g \in Games \union {0} : S # {} /\ Play(order, g)
  BY <1>3, PlayStep
<1>4. CASE \E b \in OnlineFriends, g \in Games \union {0} : Talk(b, g)
  BY <1>4, TalkStep
<1>5. CASE \E b \in Friends, nick \in Nicks : Rename(b, nick)
  BY <1>5, RenameStep
<1>6. CASE \E b \in Friends : Unfriend(b)
  BY <1>6, UnfriendStep
<1>7. CASE \E b \in Buddy \ Friends, nick \in Nicks : Befriend(b, nick)
  BY <1>7, BefriendStep
<1>8. CASE Receive
  BY <1>8, ReceiveStep
<1>9. CASE GotConnected
  BY <1>9, GotConnectedStep
<1>10. CASE \E k \in 1..(Cardinality(Buddy) - 1) : GotConnectedWithin(k)
  BY <1>10, GotConnectedWithinStep
<1>11. CASE UNCHANGED vars
  <2>1. /\ UNCHANGED <<entries, struck, friends, connected, early, wire, events>>
        /\ Now' = Now
    BY <1>11 DEF vars, Now
  <2>. QED BY <2>1 DEF IInv, Control, Traffic, Pipeline, NamesIn
<1>. QED BY <1>1, <1>2, <1>3, <1>4, <1>5, <1>6, <1>7, <1>8, <1>9, <1>10, <1>11 DEF Next

(* The inductive invariant holds in every reachable state. *)
THEOREM Inductive == Spec => []IInv
BY Greeting, StepKeeps, PTL DEF Spec

(* Every field stays in its range: rows name buddies and carry session ids    *)
(* that were given out, whatever the packets on the wire and the heap hold.  *)
THEOREM TypeCorrect == Spec => []TypeOK
<1>1. ASSUME IInv
      PROVE  TypeOK
  <2>1. PICK V \in SoundViews : Holds(entries, V) /\ Hears(friends, V, early)
    BY <1>1 DEF IInv, Pipeline
  <2>2. /\ \A i \in 1..Len(entries) : entries[i] \in Row
        /\ \A i \in 1..Len(friends) : friends[i] \in JRow
    BY <2>1, HeldRows, HeardRows
  <2>3. truth \in [Buddy -> Person] /\ unheard \subseteq Buddy /\ lastSid \in 0..MaxSid
    BY <1>1, NowIs, NowFacts, ViewFacts
  <2>4. /\ connected \in BOOLEAN /\ struck \in BOOLEAN /\ early \subseteq Buddy /\ events \in 0..MaxEvents
        /\ Len(wire) <= MaxWire
    BY <1>1 DEF IInv, Control, Traffic
  <2>. QED BY <2>2, <2>3, <2>4 DEF TypeOK, Row, JRow, Person
<1>. QED BY <1>1, Inductive, PTL

LEMMA FriendsCounted ==
  ASSUME IInv, Shows(entries, Now)
  PROVE  EntryNames = Friends /\ Len(entries) = Cardinality(Friends)
<1>1. /\ Len(entries) \in Nat
      /\ \A i \in 1..Len(entries) : /\ entries[i].username \in Buddy
                                    /\ truth[entries[i].username].friend
  BY ShownRows, NowFacts
<1>2. /\ \A i, k \in 1..Len(entries) : entries[i].username = entries[k].username => i = k
      /\ \A b \in Buddy : truth[b].friend => \E i \in 1..Len(entries) : entries[i].username = b
  BY NowFacts DEF Shows
<1>3. EntryNames = Friends
  BY <1>1, <1>2 DEF EntryNames, Friends
<1>4. Len(entries) = Cardinality(Friends)
  <2> DEFINE n == Len(entries)
             f == [i \in 1..n |-> entries[i].username]
  <2>1. f \in Injection(1..n, Friends)
    BY <1>1, <1>2 DEF Injection, IsInjective, Friends
  <2>2. f \in Surjection(1..n, Friends)
    BY <1>1, <1>2 DEF Surjection, Friends
  <2>3. ExistsBijection(1..n, Friends)
    BY <2>1, <2>2 DEF ExistsBijection, Bijection
  <2>. HIDE DEF f
  <2>. QED BY <1>1, <2>3, FS_CountingElements
<1>. QED BY <1>3, <1>4

(* Once every packet has been applied the entries are the server's friends,  *)
(* once each, with all that the server knows of them, until a games packet   *)
(* takes one of them away.                                                   *)
THEOREM EntriesMirror == Spec => []Mirrors
<1>1. ASSUME IInv, wire = <<>>, ~struck
      PROVE  Mirrors
  <2>1. PICK V \in SoundViews : Shows(entries, V) /\ Path(V, wire, Now)
    BY <1>1 DEF IInv, Pipeline
  <2>2. Shows(entries, Now)
    <3>1. Len(wire) = 0
      BY <1>1
    <3>. QED BY <2>1, <3>1, NoPath
  <2>3. EntryNames = Friends /\ Len(entries) = Cardinality(Friends)
    BY <1>1, <2>2, FriendsCounted
  <2>4. \A i \in 1..Len(entries) : EntryRight(entries[i], Now)
    BY <2>2 DEF Shows
  <2>. QED BY <2>3, <2>4, NowFacts DEF Mirrors, EntryRight, EntryFields
<1>2. IInv => Mirrors
  <2>1. ASSUME IInv, ~(wire = <<>> /\ ~struck)
        PROVE  Mirrors
    BY <2>1 DEF Mirrors
  <2>. QED BY <1>1, <2>1
<1>. QED BY <1>2, Inductive, PTL

(* Whatever is still on the wire and whatever was taken away, a session id    *)
(* finds one entry.                                                          *)
THEOREM OneBuddyPerSid == Spec => []SidsIdentify
<1>1. ASSUME IInv
      PROVE  SidsIdentify
  <2>1. PICK V \in SoundViews : Holds(entries, V)
    BY <1>1 DEF IInv, Pipeline
  <2>2. ASSUME NEW i \in 1..Len(entries), NEW k \in 1..Len(entries), i # k,
               IsOnline(entries[i])
        PROVE  entries[i].sid # entries[k].sid
    <3>1. /\ entries[i].username \in Buddy /\ entries[k].username \in Buddy
          /\ entries[i].sid = V.truth[entries[i].username].sid
          /\ entries[k].sid = V.truth[entries[k].username].sid
      BY <2>1, HeldRows DEF Holds
    <3>2. entries[i].username # entries[k].username
      BY <2>1, <2>2 DEF Holds
    <3>. QED BY <2>2, <3>1, <3>2, ViewFacts DEF IsOnline
  <2>. QED BY <2>2 DEF SidsIdentify
<1>. QED BY <1>1, Inductive, PTL

(* The Java library's list, once every packet has been applied, finds every  *)
(* friend that it was told of after gotConnected, and who is online by his   *)
(* session id with what he said.                                             *)
THEOREM FriendsFound == Spec => []FriendsFollow
<1>1. ASSUME IInv, wire = <<>>, NEW b \in Friends \ early
      PROVE  /\ FriendByUserId(friends, UserId[b]) # 0
             /\ truth[b].sid # NoSid =>
                  LET i == FriendBySid(friends, truth[b].sid)
                  IN  /\ i # 0 /\ friends[i].name = b /\ IsOnlineFriend(friends[i])
                      /\ truth[b].said # NoText => friends[i].statusMessage = truth[b].said
  <2>1. PICK V \in SoundViews : Hears(friends, V, early) /\ Path(V, wire, Now)
    BY <1>1 DEF IInv, Pipeline
  <2>2. Now \in SoundViews /\ Hears(friends, Now, early)
    <3>1. Len(wire) = 0
      BY <1>1
    <3>. QED BY <1>1, <2>1, <3>1, NoPath DEF IInv
  <2>3. b \in Buddy /\ b \notin early /\ Now.truth[b].friend
    BY <1>1, NowIs, NowFacts
  <2>4. PICK i \in 1..Len(friends) : FirstNamed(friends, i, b)
    BY <2>2, <2>3 DEF Hears
  <2>5. i # 0
    BY <2>2, HeardRows
  <2>6. FriendByUserId(friends, UserId[b]) = i
    BY <2>2, <2>3, <2>4, FriendFoundById
  <2>7. ASSUME truth[b].sid # NoSid
        PROVE  /\ FriendBySid(friends, truth[b].sid) = i /\ friends[i].name = b
               /\ IsOnlineFriend(friends[i])
               /\ truth[b].said # NoText => friends[i].statusMessage = truth[b].said
    <3>1. Now.truth[b].sid # NoSid
      BY <2>7, NowFacts
    <3>2. FriendBySid(friends, Now.truth[b].sid) = i /\ FriendRight(friends[i], Now.truth[b])
      BY ONLY <2>2, <2>3, <2>4, <3>1, i \in 1..Len(friends), FriendFoundBySid
    <3>3. friends[i].name = b
      BY <2>4 DEF FirstNamed
    <3>4. friends[i].sid = truth[b].sid /\ truth[b].sid # NullSid
      BY <2>2, <2>3, <3>1, <3>2, NowFacts, ViewFacts DEF FriendRight, NullSid
    <3>. QED BY <2>7, <3>2, <3>3, <3>4, NowFacts DEF FriendRight, IsOnlineFriend
  <2>. QED BY <2>5, <2>6, <2>7
<1>2. IInv => FriendsFollow
  BY <1>1 DEF FriendsFollow
<1>. QED BY <1>2, Inductive, PTL

LEMMA AppliedForgets ==
  ASSUME IInv, wire # <<>>, entries' \in Results(entries, Head(wire)),
         NEW b \in EntryNames \ EntryNames'
  PROVE  Forgets(entries, entries', Head(wire), b)
<1>1. PICK V \in SoundViews, U \in SoundViews : Holds(entries, V) /\ Tells(V, Head(wire), U)
  BY NextPacket
<1>2. b \in NamesOf(entries) \ NamesOf(entries')
  BY DEF EntryNames, NamesOf
<1>. QED BY <1>1, <1>2, ListKeepsOrder

(* A friend leaves the entries only by the packet that ends that friendship, *)
(* or by a games packet whose stray word is that friend's user id, and leaves *)
(* alone.                                                                    *)
THEOREM RemovalForgets == Spec => OnlyRemovalForgets
<1> DEFINE A == \A b \in EntryNames \ EntryNames' :
                  /\ wire # <<>>
                  /\ \/ Head(wire).kind = "removed" /\ Head(wire).id = UserId[b]
                     \/ Head(wire).kind \in {"games", "games2"} /\ UserId[b] \in HeapWords
                  /\ EntryNames' = EntryNames \ {b}
<1>1. ASSUME IInv, [Next]_vars
      PROVE  [A]_vars
  <2>1. CASE entries' = entries
    BY <2>1 DEF EntryNames
  <2>2. CASE wire # <<>> /\ entries' \in Results(entries, Head(wire))
    <3>1. \A b \in EntryNames \ EntryNames' : Forgets(entries, entries', Head(wire), b)
      BY <1>1, <2>2, AppliedForgets
    <3>. QED BY <2>2, <3>1 DEF Forgets, NamesOf, EntryNames
  <2>3. entries' = entries \/ (wire # <<>> /\ entries' \in Results(entries, Head(wire)))
    BY <1>1 DEF Next, Move, Say, Play, Talk, Rename, Unfriend, Befriend, Send, Receive,
                GotConnected, GotConnectedWithin, vars
  <2>. QED BY <2>1, <2>2, <2>3
<1>. HIDE DEF A
<1>2. Spec => [][A]_vars
  BY <1>1, Inductive, PTL DEF Spec
<1>. QED BY <1>2 DEF OnlyRemovalForgets, A
=============================================================================
