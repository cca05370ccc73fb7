------------------------- MODULE OwnPresenceProofs -------------------------
(***************************************************************************)
(* What XFire is told of the gateway's user, for any plugin.xml, any       *)
(* number of resources and games, and any sequence of presences, log-outs, *)
(* lost connections and other log-ins.                                     *)
(***************************************************************************)
EXTENDS OwnPresence, SequenceFacts, FiniteSetTheorems

Lists == Seq(DOMAIN games \union {NoInfo})
Presence == [away : BOOLEAN, games : Lists]

\* There is a last one among the resources.
Bounded == \E n \in Nat : \A r \in DOMAIN presences : r <= n

\* A game that XFire was told of is the one remembered as sent, and only an
\* open connection has been told anything.
Sessions ==
  /\ client # "open" => told = NothingTold /\ toldAway = FALSE
  /\ \A slot \in Slot : told[slot] \in {0, lastsent[slot]}

IInv == /\ TypeOK /\ Bounded /\ Sessions
        /\ NeverToldWrong /\ UntoldOnlyIfRemembered /\ FaultsNeedAnUnknownGame
-----------------------------------------------------------------------------
\* The property's last resource is the one that getPresence returns.
LEMMA LastIsGreatest ==
  ASSUME NEW S \in SUBSET Nat, S # {}, NEW n \in Nat, \A s \in S : s <= n
  PROVE  (CHOOSE r \in S : \A s \in S : s <= r) = Max(S)
<1> DEFINE c == CHOOSE r \in S : \A s \in S : s <= r
<1>1. Max(S) \in S /\ \A s \in S : s <= Max(S)
  BY GreatestOfNat
<1>2. c \in S /\ \A s \in S : s <= c
  BY <1>1
<1>3. c <= Max(S) /\ Max(S) <= c /\ c \in Nat /\ Max(S) \in Nat
  BY <1>1, <1>2
<1>. QED BY <1>3
-----------------------------------------------------------------------------
(* Games *)

LEMMA GamesAreNumbered == DOMAIN games \subseteq Nat
<1>1. \A i \in WithId : Plugin[i].xfireid \in Nat
  BY OwnPresenceAssumption DEF WithId
<1>. QED BY <1>1 DEF games

LEMMA FirstIsAGame ==
  ASSUME NEW list \in Lists, NEW slot \in Slot
  PROVE  First(list, slot) \in DOMAIN games \union {0}
<1>1. CASE InSlot(list, slot) = {}
  BY <1>1 DEF First
<1>2. CASE InSlot(list, slot) # {}
  <2>1. InSlot(list, slot) \in SUBSET Nat /\ InSlot(list, slot) \subseteq 1..Len(list)
    BY DEF InSlot, Lists
  <2>2. Min(InSlot(list, slot)) \in InSlot(list, slot)
    BY <1>2, <2>1, LeastOfNat
  <2>3. /\ Min(InSlot(list, slot)) \in 1..Len(list)
        /\ list[Min(InSlot(list, slot))] # NoInfo
    BY <2>2, <2>1 DEF InSlot
  <2>4. list[Min(InSlot(list, slot))] \in DOMAIN games
    BY <2>3 DEF Lists
  <2>. QED BY <1>2, <2>4 DEF First
<1>. QED BY <1>1, <1>2

LEMMA GameInfoIsAGame ==
  ASSUME NEW goimid
  PROVE  GameInfo(goimid) \in DOMAIN games \union {NoInfo}
<1>1. Fitting(goimid) \in SUBSET Nat /\ Fitting(goimid) \subseteq DOMAIN games
  BY GamesAreNumbered DEF Fitting
<1>2. CASE Fitting(goimid) = {}
  BY <1>2 DEF GameInfo
<1>3. CASE Fitting(goimid) # {}
  BY <1>1, <1>3, LeastOfNat DEF GameInfo
<1>. QED BY <1>2, <1>3

LEMMA SetToSeqFunction ==
  ASSUME NEW S, NEW n \in Nat, Cardinality(S) = n, NEW f \in [1..n -> S], IsInjective(f)
  PROVE  SetToSeq(S) \in [1..n -> S]
BY DEF SetToSeq

\* A presence announces one game or none.
LEMMA AnnouncedIsAList ==
  ASSUME NEW announced \in {{}} \union {{g} : g \in OwnGames}
  PROVE  SetToSeq({GameInfo(g) : g \in announced}) \in Lists
<1>1. CASE announced = {}
  <2>1. {GameInfo(g) : g \in announced} = {}
    BY <1>1
  <2>2. Cardinality({}) = 0
    BY FS_EmptySet
  <2>3. PICK f \in [1..0 -> {}] : IsInjective(f)
    <3>1. [k \in 1..0 |-> 0] \in [1..0 -> {}] /\ IsInjective([k \in 1..0 |-> 0])
      BY DEF IsInjective
    <3>. QED BY <3>1
  <2>4. SetToSeq({}) \in [1..0 -> {}]
    BY <2>2, <2>3, 0 \in Nat, SetToSeqFunction
  <2>5. [1..0 -> {}] \subseteq Seq(DOMAIN games \union {NoInfo})
    OBVIOUS
  <2>. QED BY <2>1, <2>4, <2>5 DEF Lists
<1>2. CASE announced # {}
  <2>1. PICK g \in OwnGames : announced = {g}
    BY <1>2
  <2> DEFINE G == GameInfo(g)
  <2>2. {GameInfo(h) : h \in announced} = {G}
    BY <2>1
  <2>3. G \in DOMAIN games \union {NoInfo}
    BY GameInfoIsAGame
  <2> HIDE DEF G
  <2>4. Cardinality({G}) = 1
    BY FS_Singleton
  <2>5. [k \in 1..1 |-> G] \in [1..1 -> {G}] /\ IsInjective([k \in 1..1 |-> G])
    BY DEF IsInjective
  <2>6. SetToSeq({G}) \in [1..1 -> {G}]
    BY <2>4, <2>5, SetToSeqFunction
  <2>7. SetToSeq({G}) \in Seq(DOMAIN games \union {NoInfo})
    BY <2>3, <2>6
  <2>. QED BY <2>2, <2>7 DEF Lists
<1>. QED BY <1>1, <1>2
-----------------------------------------------------------------------------
(* What presenceChanged tells XFire *)

\* After what presenceChanged sends, XFire knows no other game of a slot than
\* the first, and if it does not know that, the gateway remembers it as sent.
LEMMA Telling ==
  ASSUME NEW own \in Presence, NEW before \in [Slot -> Nat], NEW reached \in BOOLEAN,
         lastsent \in [Slot -> DOMAIN games \union {0}],
         \A slot \in Slot : before[slot] \in {0, lastsent[slot]},
         ~reached => before = NothingTold,
         TellXFire(own, before, reached)
  PROVE  /\ lastsent' \in [Slot -> DOMAIN games \union {0}]
         /\ told' \in [Slot -> DOMAIN games \union {0}]
         /\ toldAway' = (reached /\ own.away)
         /\ fault' = LoopFaults(own.games)
         /\ ~reached => told' = NothingTold
         /\ \A slot \in Slot :
              /\ told'[slot] \in {0, lastsent'[slot]}
              /\ reached =>
                   /\ told'[slot] \in {0, First(own.games, slot)}
                   /\ First(own.games, slot) # told'[slot]
                        => lastsent'[slot] = First(own.games, slot)
<1> DEFINE now(slot) == First(own.games, slot)
<1>1. \A slot \in Slot : now(slot) \in DOMAIN games \union {0}
  BY FirstIsAGame DEF Presence
<1>2. DOMAIN games \subseteq Nat
  BY GamesAreNumbered
<1> HIDE DEF now
<1>3. /\ lastsent' = [slot \in Slot |-> IF now(slot) # 0 THEN now(slot) ELSE lastsent[slot]]
      /\ told' = [slot \in Slot |->
                    IF reached /\ (IF now(slot) # 0 THEN now(slot) # lastsent[slot]
                                                   ELSE lastsent[slot] > 0)
                      THEN now(slot) ELSE before[slot]]
      /\ toldAway' = (reached /\ own.away)
      /\ fault' = LoopFaults(own.games)
  BY DEF TellXFire, Remembers, Sends, now
<1>4. lastsent' \in [Slot -> DOMAIN games \union {0}]
  BY <1>1, <1>3
<1>5. told' \in [Slot -> DOMAIN games \union {0}]
  BY <1>1, <1>3
<1>6. ASSUME ~reached
      PROVE  told' = NothingTold
  BY <1>3, <1>6 DEF NothingTold
<1>7. ASSUME NEW slot \in Slot
      PROVE  /\ told'[slot] \in {0, lastsent'[slot]}
             /\ reached => /\ told'[slot] \in {0, now(slot)}
                           /\ now(slot) # told'[slot] => lastsent'[slot] = now(slot)
  <2>1. /\ now(slot) \in Nat /\ lastsent[slot] \in Nat
        /\ before[slot] \in {0, lastsent[slot]}
        /\ ~reached => before[slot] = 0
    BY <1>1, <1>2 DEF NothingTold
  <2>2. /\ lastsent'[slot] = IF now(slot) # 0 THEN now(slot) ELSE lastsent[slot]
        /\ told'[slot] = IF reached /\ (IF now(slot) # 0 THEN now(slot) # lastsent[slot]
                                                         ELSE lastsent[slot] > 0)
                           THEN now(slot) ELSE before[slot]
    BY <1>3
  <2>. QED BY <2>1, <2>2
<1>. QED BY <1>3, <1>4, <1>5, <1>6, <1>7 DEF now
-----------------------------------------------------------------------------
(* Steps *)

\* The presences are resources with their games, and there is a last one.
Presences(P) ==
  /\ DOMAIN P \subseteq Resource
  /\ \A r \in DOMAIN P : P[r] \in Presence
  /\ \E n \in Nat : \A r \in DOMAIN P : r <= n

LEMMA EffectiveIsLast ==
  ASSUME NEW P, Presences(P), DOMAIN P # {}
  PROVE  /\ Effective(P) = P[CHOOSE r \in DOMAIN P : \A s \in DOMAIN P : s <= r]
         /\ \E r \in DOMAIN P : Effective(P) = P[r]
<1>1. DOMAIN P \in SUBSET Nat
  BY OwnPresenceAssumption DEF Presences
<1>2. PICK n \in Nat : \A r \in DOMAIN P : r <= n
  BY DEF Presences
<1>3. Max(DOMAIN P) \in DOMAIN P
  BY <1>1, <1>2, GreatestOfNat
<1>4. (CHOOSE r \in DOMAIN P : \A s \in DOMAIN P : s <= r) = Max(DOMAIN P)
  BY <1>1, <1>2, LastIsGreatest
<1>. QED BY <1>3, <1>4 DEF Effective

\* presenceChanged, called with the presences of the next state.
LEMMA Changed ==
  ASSUME IInv, ~fault, Presences(presences'), presenceChanged(presences'), holes' = holes,
         events' \in 0..MaxEvents
  PROVE  IInv'
<1>1. /\ lastsent \in [Slot -> DOMAIN games \union {0}]
      /\ told \in [Slot -> DOMAIN games \union {0}]
      /\ client \in {"none", "open", "dead"}
      /\ holes' \subseteq Foreign
      /\ fault \in BOOLEAN
  BY DEF IInv, TypeOK
<1>2. CASE DOMAIN presences' # {}
  <2> DEFINE own == Effective(presences')
  <2>1. own \in Presence /\ own = LastResource'
    BY <1>2, EffectiveIsLast DEF Presences, LastResource
  <2>2. PICK before \in [Slot -> Nat], reached \in BOOLEAN :
          /\ \A slot \in Slot : before[slot] \in {0, lastsent[slot]}
          /\ ~reached => before = NothingTold
          /\ client' \in {"open", "dead"} \union {client}
          /\ client' \in {"none", "open", "dead"}
          /\ reached <=> client' = "open"
          /\ TellXFire(own, before, reached)
    <3>1. Present(presences')
      BY <1>2 DEF presenceChanged
    <3>2. CASE client = "none"
      <4>1. PICK open \in BOOLEAN : /\ client' = IF open THEN "open" ELSE "dead"
                                    /\ TellXFire(own, NothingTold, open)
        BY <3>1, <3>2 DEF Present
      <4>2. NothingTold \in [Slot -> Nat] /\ \A slot \in Slot : NothingTold[slot] = 0
        BY DEF NothingTold
      <4>. QED BY <4>1, <4>2
    <3>3. CASE client # "none"
      <4>1. client' = client /\ TellXFire(own, told, client = "open")
        BY <3>1, <3>3 DEF Present
      <4>2. told \in [Slot -> Nat]
        BY <1>1, GamesAreNumbered
      <4>3. /\ \A slot \in Slot : told[slot] \in {0, lastsent[slot]}
            /\ client # "open" => told = NothingTold
        BY DEF IInv, Sessions
      <4>. QED BY <1>1, <4>1, <4>2, <4>3
    <3>. QED BY <3>2, <3>3
  <2> HIDE DEF own
  <2>3. /\ lastsent' \in [Slot -> DOMAIN games \union {0}]
        /\ told' \in [Slot -> DOMAIN games \union {0}]
        /\ toldAway' = (reached /\ own.away)
        /\ fault' = LoopFaults(own.games)
        /\ ~reached => told' = NothingTold
        /\ \A slot \in Slot :
             /\ told'[slot] \in {0, lastsent'[slot]}
             /\ reached =>
                  /\ told'[slot] \in {0, First(own.games, slot)}
                  /\ First(own.games, slot) # told'[slot]
                       => lastsent'[slot] = First(own.games, slot)
    BY <1>1, <2>1, <2>2, Telling
  <2>4. own.away \in BOOLEAN /\ LoopFaults(own.games) \in BOOLEAN
    BY <2>1 DEF Presence, LoopFaults
  <2>5. TypeOK'
    <3>1. toldAway' \in BOOLEAN /\ fault' \in BOOLEAN
      BY <2>3, <2>4
    <3>. QED BY <1>1, <2>2, <2>3, <3>1 DEF TypeOK, Presences, Presence, Lists
  <2>6. Sessions'
    <3>1. ~reached => toldAway' = FALSE
      BY <2>3
    <3>. QED BY <2>2, <2>3, <3>1 DEF Sessions
  <2>7. NeverToldWrong'
    <3>1. reached => toldAway' = own.away
      BY <2>3, <2>4
    <3>. QED BY <2>1, <2>2, <2>3, <3>1 DEF NeverToldWrong, Connected
  <2>8. UntoldOnlyIfRemembered'
    BY <2>1, <2>2, <2>3 DEF UntoldOnlyIfRemembered, Connected
  <2>9. FaultsNeedAnUnknownGame'
    <3>1. SUFFICES ASSUME LoopFaults(own.games)
                   PROVE  FaultsNeedAnUnknownGame'
      BY <2>3 DEF FaultsNeedAnUnknownGame
    <3>2. PICK k \in 1..Len(own.games) : own.games[k] = NoInfo
      BY <3>1 DEF LoopFaults
    <3>3. PICK r \in DOMAIN presences' : own = presences'[r]
      BY <1>2, EffectiveIsLast DEF own
    <3>. QED BY <3>2, <3>3 DEF FaultsNeedAnUnknownGame
  <2>10. Bounded'
    BY DEF Bounded, Presences
  <2>. QED BY <2>5, <2>6, <2>7, <2>8, <2>9, <2>10 DEF IInv
<1>3. CASE DOMAIN presences' = {}
  <2>1. /\ client' = "none" /\ told' = NothingTold /\ toldAway' = FALSE
        /\ lastsent' = lastsent /\ fault' = fault
    BY <1>3 DEF presenceChanged, Absent
  <2>2. /\ NothingTold \in [Slot -> DOMAIN games \union {0}]
        /\ \A slot \in Slot : NothingTold[slot] = 0
    BY DEF NothingTold
  <2>3. TypeOK'
    BY <1>1, <2>1, <2>2 DEF TypeOK, Presences, Presence, Lists
  <2>4. Sessions'
    BY <2>1, <2>2 DEF Sessions
  <2>5. NeverToldWrong' /\ UntoldOnlyIfRemembered' /\ FaultsNeedAnUnknownGame'
    BY <2>1 DEF NeverToldWrong, UntoldOnlyIfRemembered, FaultsNeedAnUnknownGame, Connected
  <2>6. Bounded'
    BY DEF Bounded, Presences
  <2>. QED BY <2>3, <2>4, <2>5, <2>6 DEF IInv
<1>. QED BY <1>2, <1>3

\* The presences of an invariant state, and the games a resource has announced.
LEMMA PresencesAre ==
  ASSUME IInv
  PROVE  /\ Presences(presences)
         /\ \A r \in Resource : GamesOf(r) \in Lists
<1>1. Presences(presences)
  BY DEF IInv, TypeOK, Bounded, Presences, Presence, Lists
<1>2. <<>> \in Lists
  BY DEF Lists
<1>. QED BY <1>1, <1>2 DEF Presences, Presence, GamesOf

LEMMA EventCounts ==
  ASSUME IInv, Event
  PROVE  ~fault /\ events' \in 0..MaxEvents
<1>1. MaxEvents \in Nat
  BY OwnPresenceAssumption
<1>2. events \in 0..MaxEvents
  BY DEF IInv, TypeOK
<1>. QED BY <1>1, <1>2 DEF Event

LEMMA AvailableStep ==
  ASSUME IInv, NEW r \in Resource, NEW away \in BOOLEAN,
         NEW announced \in {{}} \union {{g} : g \in OwnGames},
         PresenceAvailable(r, away, announced)
  PROVE  IInv'
<1>1. ~fault /\ events' \in 0..MaxEvents /\ holes' = holes
  BY EventCounts DEF PresenceAvailable
<1>2. CASE \E g \in announced : LookupFaults(g)
  <2>1. /\ fault' = TRUE
        /\ UNCHANGED <<presences, client, lastsent, told, toldAway, holes>>
    BY <1>1, <1>2 DEF PresenceAvailable
  <2>2. holes # {}
    BY <1>2 DEF LookupFaults
  <2>. QED BY <1>1, <2>1, <2>2
         DEF IInv, TypeOK, Bounded, Sessions, NeverToldWrong, UntoldOnlyIfRemembered,
             FaultsNeedAnUnknownGame, Connected, LastResource
<1>3. CASE ~ \E g \in announced : LookupFaults(g)
  <2> DEFINE list == SetToSeq({GameInfo(g) : g \in announced})
             P == With(r, away, list)
  <2>1. presences' = P /\ presenceChanged(P)
    BY <1>3 DEF PresenceAvailable
  <2>2. list \in Lists
    BY AnnouncedIsAList
  <2> HIDE DEF list
  <2>3. [away |-> away, games |-> GamesOf(r) \o list] \in Presence
    BY <2>2, PresencesAre DEF Presence, Lists
  <2>4. /\ DOMAIN P = DOMAIN presences \union {r}
        /\ \A s \in DOMAIN P : P[s] \in Presence
    BY <2>3, PresencesAre DEF With, Presences
  <2>5. \E n \in Nat : \A s \in DOMAIN P : s <= n
    <3>1. PICK n \in Nat : \A s \in DOMAIN presences : s <= n
      BY DEF IInv, Bounded
    <3>2. r \in Nat /\ \A s \in DOMAIN presences : s \in Nat
      BY OwnPresenceAssumption, PresencesAre DEF Presences
    <3>3. CASE r <= n
      BY <2>4, <3>1, <3>3
    <3>4. CASE n <= r
      BY <2>4, <3>1, <3>2, <3>4
    <3>. QED BY <3>2, <3>3, <3>4
  <2>6. Presences(P)
    BY <2>4, <2>5, PresencesAre DEF Presences
  <2> HIDE DEF P
  <2>. QED BY <1>1, <2>1, <2>6, Changed
<1>. QED BY <1>2, <1>3

LEMMA UnavailableStep ==
  ASSUME IInv, NEW r \in Resource, PresenceUnavailable(r)
  PROVE  IInv'
<1>1. /\ ~fault /\ events' \in 0..MaxEvents /\ holes' = holes
      /\ presences' = Without(r) /\ presenceChanged(Without(r))
  BY EventCounts DEF PresenceUnavailable
<1>2. Presences(Without(r))
  BY PresencesAre DEF Without, Presences
<1>. QED BY <1>1, <1>2, Changed

LEMMA OtherStanzaStep ==
  ASSUME IInv, OtherStanza
  PROVE  IInv'
<1>1. /\ ~fault /\ events' \in 0..MaxEvents /\ holes' = holes
      /\ presences' = presences /\ presenceChanged(presences)
  BY EventCounts DEF OtherStanza
<1>. QED BY <1>1, PresencesAre, Changed

\* A hole that a buddy's game leaves behind makes a later fault possible.
LEMMA BuddyGameStep ==
  ASSUME IInv, NEW id \in Foreign \union DOMAIN games, BuddyGame(id)
  PROVE  IInv'
<1>1. /\ ~fault /\ events' \in 0..MaxEvents /\ holes' = Resolved(id)
      /\ UNCHANGED <<presences, client, lastsent, told, toldAway, fault>>
  BY EventCounts DEF BuddyGame
<1>2. holes' \subseteq Foreign
  BY <1>1 DEF Resolved, IInv, TypeOK
<1>. QED BY <1>1, <1>2
       DEF IInv, TypeOK, Bounded, Sessions, NeverToldWrong, UntoldOnlyIfRemembered,
           FaultsNeedAnUnknownGame, Connected, LastResource

\* A connection that is lost leaves nothing that was told.
LEMMA LostStep ==
  ASSUME IInv, ConnectionLost \/ OtherLogin
  PROVE  IInv'
<1>1. /\ ~fault /\ events' \in 0..MaxEvents
      /\ client' \in {"none", "dead"} /\ told' = NothingTold /\ toldAway' = FALSE
      /\ UNCHANGED <<presences, lastsent, holes, fault>>
  BY EventCounts DEF ConnectionLost, OtherLogin
<1>2. /\ NothingTold \in [Slot -> DOMAIN games \union {0}]
      /\ \A slot \in Slot : NothingTold[slot] = 0
  BY DEF NothingTold
<1>3. TypeOK'
  BY <1>1, <1>2 DEF IInv, TypeOK
<1>4. Sessions'
  BY <1>1, <1>2 DEF Sessions
<1>. QED BY <1>1, <1>3, <1>4
       DEF IInv, Bounded, NeverToldWrong, UntoldOnlyIfRemembered, FaultsNeedAnUnknownGame,
           Connected
-----------------------------------------------------------------------------
(* The invariant and the theorems *)

LEMMA InitInv == Init => IInv
<1> SUFFICES ASSUME Init PROVE IInv
  OBVIOUS
<1>1. /\ NothingTold \in [Slot -> DOMAIN games \union {0}]
      /\ \A slot \in Slot : NothingTold[slot] = 0
  BY DEF NothingTold
<1>2. DOMAIN presences = {} /\ lastsent = NothingTold /\ told = NothingTold
  BY DEF Init
<1>3. TypeOK
  <2>1. MaxEvents \in Nat
    BY OwnPresenceAssumption
  <2>2. events \in 0..MaxEvents
    BY <2>1 DEF Init
  <2>3. client = "none" /\ toldAway = FALSE /\ holes = {} /\ fault = FALSE
    BY DEF Init
  <2>. QED BY <1>1, <1>2, <2>2, <2>3 DEF TypeOK
<1>4. Bounded
  BY <1>2, 0 \in Nat DEF Bounded
<1>5. Sessions
  BY <1>1, <1>2 DEF Init, Sessions
<1>6. NeverToldWrong /\ UntoldOnlyIfRemembered /\ FaultsNeedAnUnknownGame
  BY <1>2 DEF Init, NeverToldWrong, UntoldOnlyIfRemembered, FaultsNeedAnUnknownGame, Connected
<1>. QED BY <1>3, <1>4, <1>5, <1>6 DEF IInv

LEMMA NextInv == IInv /\ [Next]_vars => IInv'
<1> SUFFICES ASSUME IInv, [Next]_vars PROVE IInv'
  OBVIOUS
<1>1. ASSUME NEW r \in Resource, NEW away \in BOOLEAN,
             NEW announced \in {{}} \union {{g} : g \in OwnGames},
             PresenceAvailable(r, away, announced)
      PROVE  IInv'
  BY <1>1, AvailableStep
<1>2. ASSUME NEW r \in Resource, PresenceUnavailable(r)
      PROVE  IInv'
  BY <1>2, UnavailableStep
<1>3. CASE OtherStanza
  BY <1>3, OtherStanzaStep
<1>4. ASSUME NEW id \in Foreign \union DOMAIN games, BuddyGame(id)
      PROVE  IInv'
  BY <1>4, BuddyGameStep
<1>5. CASE ConnectionLost \/ OtherLogin
  BY <1>5, LostStep
<1>6. CASE UNCHANGED vars
  BY <1>6 DEF vars, IInv, TypeOK, Bounded, Sessions, NeverToldWrong, UntoldOnlyIfRemembered,
              FaultsNeedAnUnknownGame, Connected, LastResource
<1>. QED BY <1>1, <1>2, <1>3, <1>4, <1>5, <1>6 DEF Next

LEMMA Invariant == Spec => []IInv
BY InitInv, NextInv, PTL DEF Spec

(* The state of the user's presence is well typed for any plugin.xml and any *)
(* resources (user.cpp, parsegamexml.cpp).                                   *)
THEOREM PresenceTypeCorrect == Spec => []TypeOK
<1>1. IInv => TypeOK
  BY DEF IInv
<1>. QED BY Invariant, <1>1, PTL

(* XFire is never told a status that is not the last resource's, nor a game  *)
(* that is not its first of the slot (presenceChanged).                      *)
THEOREM NothingToldWrong == Spec => []NeverToldWrong
<1>1. IInv => NeverToldWrong
  BY DEF IInv
<1>. QED BY Invariant, <1>1, PTL

(* A game that XFire does not know of is the one remembered as sent          *)
(* (presenceChanged, lastsentgame and lastsentgame2).                        *)
THEOREM OnlyTheRememberedUntold == Spec => []UntoldOnlyIfRemembered
<1>1. IInv => UntoldOnlyIfRemembered
  BY DEF IInv
<1>. QED BY Invariant, <1>1, PTL

(* A null game description is followed only when some game has none          *)
(* (getGameInfoByGOIMId, presenceChanged).                                   *)
THEOREM FaultsAreUnknownGames == Spec => []FaultsNeedAnUnknownGame
<1>1. IInv => FaultsNeedAnUnknownGame
  BY DEF IInv
<1>. QED BY Invariant, <1>1, PTL
=============================================================================
