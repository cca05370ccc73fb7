---------------------------- MODULE GfirePackets ----------------------------
(***************************************************************************)
(* gfire's packets: x_packets.c writes them byte by byte under lengths     *)
(* computed by hand, and xfire.c reads the server's by searching for the   *)
(* letters of an attribute's name (x_search.c), wherever they stand.       *)
(***************************************************************************)
EXTENDS WireFormat

(* Writing *)

Header(length, type, atts) == <<length % 256, length \div 256, type, 0, atts>>
AttName(att) == <<Len(att)>> \o att

\* One element: its number stands where a type belongs.
ArrayAtt(texts) ==
  <<Len(texts)>> \o FlattenSeq([k \in 1..Len(texts) |-> <<Len(texts[k]) % 256, 0>> \o texts[k]])

\* The text attribute as the writers spell it, with one byte of length.
TextAtt(att, text) == AttName(att) \o <<1, Len(text) % 256, 0>> \o text

MakeImCountingTheEnd(sid, text, imindex) ==
  Header(69 + Len(text), 2, 2) \o AttName(Name.sid) \o <<3>> \o sid
  \o AttName(Name.peermsg) \o <<5, 3>> \o AttName(Name.msgtype) \o <<2, 0, 0, 0, 0>>
  \o AttName(Name.imindex) \o <<2, imindex % 256, 0, 0, 0>> \o TextAtt(Name.im, text)

MakeIm(sid, text, imindex) ==
  Header(68 + Len(text), 2, 2) \o AttName(Name.sid) \o <<3>> \o sid
  \o AttName(Name.peermsg) \o <<5, 3>> \o AttName(Name.msgtype) \o <<2, 0, 0, 0, 0>>
  \o AttName(Name.imindex) \o <<2, imindex % 256, 0, 0, 0>> \o TextAtt(Name.im, text)

AliasChange(name) == Header(13 + Len(name), 14, 1) \o TextAtt(Name.nick, name)

\* Without an address the port is not sent either.
JoinGame(game, port, octets) ==
  Header(37, 4, 3) \o AttName(Name.gameid) \o <<2, game % 256, game \div 256, 0, 0>>
  \o AttName(Name.gip) \o <<2>> \o (IF octets = <<>> THEN Zeros(4) ELSE Reverse(octets))
  \o AttName(Name.gport)
  \o LET p == IF octets = <<>> THEN 0 ELSE port IN <<2, p % 256, p \div 256, 0, 0>>

\* Two packets in one write; the second byte of the versions' number is not
\* written, and their type is overwritten.
OpenConnection2(version) ==
  Header(51, 18, 2) \o AttName(Name.skin) \o <<4, 1, 2, 0, Len(Standard), 0>> \o Standard
  \o <<Len(XFire), 0>> \o XFire
  \o AttName(Name.version) \o <<4, 0, 2, Junk>> \o <<1, 0, 0, 0>> \o <<1, 0, 0, 0>>
  \o <<18, 0, 3, 0, 1>> \o AttName(Name.version) \o <<2, version % 256, 0, 0, 0>>

InvitationAccept(name) == Header(13 + Len(name), 7, 1) \o TextAtt(Name.name, name)
InvitationDeny(name) == Header(13 + Len(name), 8, 1) \o TextAtt(Name.name, name)

PleaseAddMe == Letters(60, 13)
AddNewBuddy(name) ==
  Header(13 + Len(name) + 7 + Len(PleaseAddMe), 6, 2)
  \o AttName(Name.name) \o ArrayAtt(<<name>>) \o AttName(Name.msg) \o ArrayAtt(<<PleaseAddMe>>)

\* User ids and session ids are kept as texts, two digits for a byte; chars
\* are signed.
HexVal(val) == LET v == IF val < 0 THEN val + 256 ELSE val IN <<v \div 16, v % 16>>
HexText(source) ==
  FlattenSeq([i \in 1..Len(source) |-> HexVal(IF source[i] > 127 THEN source[i] - 256 ELSE source[i])])
DecodeString(source) == [i \in 1..(Len(source) \div 2) |-> 16 * source[2 * i - 1] + source[2 * i]]

\* The name of a new buddy is copied into 26 bytes first.
NewBuddy(name) == IF Len(name) >= 26 THEN <<Junk>> ELSE AddNewBuddy(name)

DeleteBuddy(name) == Header(17, 9, 1) \o AttName(Name.userid) \o <<2>> \o DecodeString(name)

\* Four attributes are written; what is hashed is put together in 100 bytes.
CreateAuth(salt, passwd, name) ==
  LET hash_it == name \o passwd \o Letters(61, 13)
  IN  IF Len(hash_it) >= 100 THEN <<Junk>>
      ELSE Header(97 + Len(name), 1, 3) \o TextAtt(Name.name, name)
           \o AttName(Name.password) \o <<1, 40, 0>> \o Digest(Digest(hash_it) \o salt)
           \o AttName(Name.flags) \o <<2>> \o Zeros(4) \o AttName(Name.sid) \o <<3>> \o Zeros(16)

CreateAwayOld(away) ==
  Header(29 + Len(away), 11, 2) \o AttName(Name.type) \o <<2, 1, 0, 0, 0>>
  \o AttName(Name.status) \o <<5, 1>> \o TextAtt(Name.t, away)
CreateAway(away) == Header(9 + Len(away), 32, 1) \o <<46, 1, Len(away) % 256, 0>> \o away
\* Two attributes are announced.
SetBackOld == Header(15, 11, 2) \o AttName(Name.type) \o <<2, 0, 0, 0, 0>>
SetBack == Header(9, 32, 1) \o <<46, 1, 0, 0>>
KeepAlivePacket ==
  Header(26, 13, 2) \o AttName(Name.value) \o <<2, 0, 0, 0, 0>>
  \o AttName(Name.stats) \o <<4, 2, 0, 0>>

\* What is sent for a choice in the status menu; "Busy" is a game.  A string
\* that may be NULL is a sequence of at most one text.
AwayFromComputer == Letters(62, 18)
SetAway(state, msg) ==
  CASE msg # <<>>       -> CreateAway(msg[1])
    [] state = "Away"   -> CreateAway(AwayFromComputer)
    [] state = "Busy"   -> JoinGame(4236, 0, <<>>)
    [] OTHER            -> SetBack

\* A message goes out in parts of at most 255 bytes.
PartsOf(message) ==
  [k \in 1..((Len(message) + 254) \div 255) |->
     SubSeq(message, 255 * (k - 1) + 1,
            IF 255 * k < Len(message) THEN 255 * k ELSE Len(message))]
-----------------------------------------------------------------------------
(* Reading: what a search finds, and what stands behind it.  attLen is the *)
(* length the caller gives for the name and the bytes it skips.            *)

FindString2(p, att, start) ==
  LET at == {i \in start..(Len(p) - Len(att)) : Slice(p, i, Len(att)) = att}
  IN  IF at = {} THEN -1 ELSE Min(at)

\* The second occurrence of im: the first begins imindex.
FindStringOnce(p, att, number) ==
  LET at == {i \in 0..(Len(p) - Len(att)) : Slice(p, i, Len(att)) = att}
  IN  IF at = {} THEN Len(p) ELSE Min(at)

FindString(p, att, number) ==
  LET at == {i \in 0..(Len(p) - Len(att)) : Slice(p, i, Len(att)) = att}
      nth == {i \in at : Cardinality({j \in at : j <= i}) = number}
  IN  IF nth = {} THEN Len(p) ELSE Min(nth)

ReadVarAttr(p, att, attLen, start, max) ==
  LET at == FindString2(p, att, start) + attLen + 1
      n == Byte(p, at)
  IN  [value |-> IF n > max THEN <<Junk>>
                 ELSE Slice(p, at + 2, n) \o IF n = max THEN <<Junk>> ELSE <<>>,
       next |-> at + 2 + n]

ReadFixAttr(p, att, attLen, start, size) ==
  LET at == FindString2(p, att, start) + attLen
  IN  [value |-> Slice(p, at, size), next |-> at + size]

ReadDynamicAttr(p, att, width, start) ==
  LET at == FindString2(p, att, start) + Len(att) + 2
      n == Byte(p, at)
  IN  [values |-> [k \in 1..n |-> Slice(p, at + 2 + width * (k - 1), width)],
       next |-> at + 2 + width * n]

\* A text that fills its row is not ended and runs into the next one; one that
\* leaves the rows takes everything with it.
ReadDynamicVarAttr(p, att, start, value_len) ==
  LET at == FindString2(p, att, start) + Len(att) + 2
      number == Byte(p, at)
      one(read, k) ==
        LET n == Byte(p, read.next)
        IN  [values |-> Append(read.values, IF n < value_len THEN Slice(p, read.next + 2, n) ELSE <<Junk>>),
             spilt |-> read.spilt \/ n >= value_len * (number + 1 - k), next |-> read.next + 2 + n]
      all == FoldLeft(one, [values |-> <<>>, spilt |-> FALSE, next |-> at + 2], [k \in 1..number |-> k])
  IN  [values |-> IF all.spilt THEN [k \in 1..number |-> <<Junk>>] ELSE all.values, next |-> all.next]

LoginSalt(p) == SubSeq(p, 9, Len(p))
SendAuth(p, passwd, name) == CreateAuth(LoginSalt(p), passwd, name)

\* The alias is sent when the server has another.
LoginCheck(p, alias) ==
  LET nick == ReadVarAttr(p, Name.nick, 4, 0, 50).value
  IN  IF alias \in {<<>>, <<nick>>} THEN <<>> ELSE AliasChange(alias[1])

\* An empty nickname is replaced by the name.
ReadBuddys(p) ==
  LET friends == ReadDynamicVarAttr(p, Name.friends, 0, 100)
      nicks == ReadDynamicVarAttr(p, Name.nick, friends.next, 100)
      ids == ReadDynamicAttr(p, Name.userid, 4, nicks.next)
  IN  [k \in 1..Len(ids.values) |->
         [id |-> ids.values[k], name |-> friends.values[k],
          nick |-> IF nicks.values[k] = <<>> THEN friends.values[k] ELSE nicks.values[k]]]

ReadBuddyOnline(p) ==
  LET ids == ReadDynamicAttr(p, Name.userid, 4, 0)
      sids == ReadDynamicAttr(p, Name.sid, 16, 0)
  IN  [k \in 1..Len(sids.values) |->
         [id |-> IF k \in DOMAIN ids.values THEN ids.values[k] ELSE <<Junk>>, sid |-> sids.values[k]]]

Low2(cells) == cells[1] + 256 * cells[2]
GameStatus(p) ==
  LET sid == ReadDynamicAttr(p, Name.sid, 16, 0)
      game == ReadDynamicAttr(p, Name.gameid, 4, sid.next)
      ip == ReadDynamicAttr(p, Name.gip, 4, game.next)
      port == ReadDynamicAttr(p, Name.gport, 4, ip.next)
  IN  [k \in 1..Len(sid.values) |->
         [sid |-> sid.values[k], game |-> Low2(game.values[k]),
          ip |-> Reverse(ip.values[k]), port |-> Low2(port.values[k])]]

OnlineWord == Letters(63, 6)
ReadStatus(p) ==
  LET sid == ReadFixAttr(p, Name.sid, 4, 0, 16)
      type == ReadFixAttr(p, Name.type, 5, sid.next, 4)
      status == ReadFixAttr(p, Name.status, 6, type.next, 2)
  IN  [sid |-> sid.value,
       said |-> IF type.value[1] = 0 THEN OnlineWord
                ELSE ReadVarAttr(p, Name.t, 1, status.next, 200).value]

ReadStatusNew(p) ==
  LET sid == ReadFixAttr(p, Name.sid, 7, 0, 16)
  IN  [sid |-> sid.value, said |-> ReadVarAttr(p, Name.msg, 6, sid.next, 200).value]

ReadInvitation(p) == ReadVarAttr(p, Name.name, 7, 0, 26).value

\* A chat message is answered with its first 58 bytes, two of them changed.
GetIm(p) ==
  LET sid == ReadFixAttr(p, Name.sid, 4, 0, 16)
      type == ReadFixAttr(p, Name.msgtype, 8, sid.next, 4).value[1]
      im == FindString(p, Name.im, 2)
      reply == Header(62, 2, 2) \o Slice(p, 0, 57)
  IN  CASE type = 0 -> [sid |-> sid.value, text |-> Slice(p, im + 5, Byte(p, im + 3)),
                        reply |-> [reply EXCEPT ![36] = 2, ![46] = 1]]
        [] type = 2 -> [sid |-> sid.value, text |-> <<>>,
                        reply |-> Header(155, 2, 2) \o Slice(p, 0, 150)]
        [] OTHER    -> [sid |-> sid.value, text |-> <<>>, reply |-> <<>>]
-----------------------------------------------------------------------------
(* Properties *)

(* What gfire sends is what protocol.md describes, for texts of up to 255    *)
(* letters, ids and numbers: the lengths computed by hand are those of the   *)
(* packets, every part of a message fits its one byte of length, the parts   *)
(* are the message, and the 256th part carries the number 0.  Three packets  *)
(* depart from protocol.md, in these bytes and no others: the first packet   *)
(* of a connection in the type and the number of the skins' versions         *)
(* (protocol.md:125, bytes 41 and 43), the log-in and the old "back" in the  *)
(* number of attributes they announce (protocol.md:87).  A log-in is written *)
(* only if name and password have at most 86 letters together, the           *)
(* invitation of a buddy only if his name has at most 25: beyond these a     *)
(* buffer overflows.                                                         *)
GfireWritesTheProtocol ==
  /\ \A sid \in Sids, n \in {1, 255, 256} : \A part \in ToSet(PartsOf(LongText)) \union Texts :
       MakeIm(sid, part, n) = Chat(2, sid, n % 256, part)
  /\ \A text \in Texts \union {LongText} : FlattenSeq(PartsOf(text)) = text
  /\ \A text \in Texts :
       /\ AliasChange(text) = Packet(14, 1, <<Attribute(Name.nick, OfText(text))>>)
       /\ InvitationAccept(text) = Packet(7, 1, <<Attribute(Name.name, OfText(text))>>)
       /\ InvitationDeny(text) = Packet(8, 1, <<Attribute(Name.name, OfText(text))>>)
       /\ CreateAway(text) = Packet(32, 1, <<Numbered(46, OfText(text))>>)
       /\ CreateAwayOld(text) =
            Packet(11, 2, <<Attribute(Name.type, OfInt(1)), Attribute(Name.status, Nested(1)),
                            Attribute(Name.t, OfText(text))>>)
       /\ \A state \in {"Away", "Busy", "Available"} : SetAway(state, <<text>>) = CreateAway(text)
  /\ \A text \in Texts \union {Letters(44, 25), Letters(44, 77), Letters(44, 78)} :
       /\ NewBuddy(text) =
            IF Len(text) > 25 THEN <<Junk>>
            ELSE Packet(6, 2, <<Attribute(Name.name, OfText(text)), Attribute(Name.msg, OfText(PleaseAddMe))>>)
       /\ \A salt \in {Letters(70, 40), Letters(71, 40)} :
            LET sent == SendAuth(Content(SaltPacket(salt)), Letters(72, 9), text)
                auth == Packet(1, 4, <<Attribute(Name.name, OfText(text)),
                                       Attribute(Name.password, OfText(
                                         Digest(Digest(text \o Letters(72, 9) \o Letters(61, 13)) \o salt))),
                                       Attribute(Name.flags, OfInt(0)), Attribute(Name.sid, OfSid(Zeros(16)))>>)
            IN  IF Len(text) + 9 > 86 THEN sent = <<Junk>> ELSE Departs(sent, auth) = {CountByte}
  /\ \A id \in {Number(n, 4) : n \in Counts} \union {<<0, 127, 128, 255>>} :
       DeleteBuddy(HexText(id)) = Packet(9, 1, <<Attribute(Name.userid, OfWord(id))>>)
  /\ \A game \in Counts, port \in Counts, octets \in {<<>>, <<127, 0, 0, 1>>} :
       JoinGame(game, port, octets) =
         Packet(4, 3, <<Attribute(Name.gameid, OfInt(game)),
                        Attribute(Name.gip, OfWord(IF octets = <<>> THEN Zeros(4) ELSE <<1, 0, 0, 127>>)),
                        Attribute(Name.gport, OfInt(IF octets = <<>> THEN 0 ELSE port))>>)
  /\ \A version \in {25, 100, 255} :
       LET skins == Packet(18, 2, <<Attribute(Name.skin, Array(1, <<OfText(Standard), OfText(XFire)>>)),
                                    Attribute(Name.version, Array(2, <<OfInt(1), OfInt(1)>>))>>)
           protocol == Packet(3, 1, <<Attribute(Name.version, OfInt(version))>>)
       IN  Departs(OpenConnection2(version), skins \o protocol) = {41, 43}
  /\ SetAway("Available", <<>>) = Packet(32, 1, <<Numbered(46, OfText(<<>>))>>)
  /\ Departs(SetBackOld, Packet(11, 1, <<Attribute(Name.type, OfInt(0))>>)) = {CountByte}
  /\ KeepAlivePacket = Packet(13, 2, <<Attribute(Name.value, OfInt(0)), Attribute(Name.stats, Array(2, <<>>))>>)

\* The content of an online packet of n entries, each the user 1, 1, 1, 1.
ManyOnline(n) ==
  LET many(type, width) == <<4, type>> \o Number(n, 2) \o [k \in 1..(width * n) |-> 1]
  IN  Attribute(Name.userid, many(2, 4)) \o Attribute(Name.sid, many(3, 16))

(* What gfire reads is what the server sent, even when a name, a nickname or *)
(* a message spells the name of an attribute; a message is acknowledged with *)
(* its own session id and number.  Nothing is promised for an online packet  *)
(* with a user id that spells "sid".  The other limits are exact: a message  *)
(* from a session id that spells "im" is misread; of n entries online the    *)
(* first n % 256 are read, of the newer status packet the first; names and   *)
(* nicknames of 100 letters and more do not come back, and spoil what is     *)
(* read with them when they stand last; too long are an inviter's name of 26 *)
(* letters and, at log-in, a nickname of 50, which is taken for another one. *)
GfireReadsTheServer ==
  /\ \A a \in ShortTexts \union {Letters(45, 99)}, b \in ShortTexts \union {Letters(45, 99)}, c \in ShortTexts :
       \A list \in Lists({[name |-> a, nick |-> b, id |-> 300], [name |-> b, nick |-> c, id |-> 65536]}) :
         ReadBuddys(Content(FriendNames(list))) =
           [k \in 1..Len(list) |->
              [id |-> Number(list[k].id, 4), name |-> list[k].name,
               nick |-> IF list[k].nick = <<>> THEN list[k].name ELSE list[k].nick]]
  /\ \A n \in {100, 199, 200} :
       LET long == [name |-> Letters(45, n), nick |-> Letters(46, 5), id |-> 300]
           short == [name |-> Letters(47, 5), nick |-> Letters(46, 5), id |-> 300]
           names(list) == LET read == ReadBuddys(Content(FriendNames(list)))
                          IN  [k \in 1..Len(read) |-> read[k].name]
       IN  /\ names(<<long, short>>) = IF n < 200 THEN <<<<Junk>>, short.name>> ELSE <<<<Junk>>, <<Junk>>>>
           /\ names(<<short, long>>) = <<<<Junk>>, <<Junk>>>>
  /\ \A n \in {255, 256, 257} : Len(ReadBuddyOnline(ManyOnline(n))) = n % 256
  /\ \A list \in Lists([id : UserIds, sid : Sids]) :
       (\A k \in 1..Len(list) : ~Spells(list[k].id, Name.sid))
         => ReadBuddyOnline(Content(Online(list))) = list
  /\ \A list \in Lists([sid : Sids, game : {0, 300, 65535}, ip : {<<1, 2, 3, 4>>}, port : {0, 65535}]) :
       GameStatus(Content(Games(list))) = [k \in 1..Len(list) |-> [list[k] EXCEPT !.ip = <<4, 3, 2, 1>>]]
  /\ \A sid \in Sids, text \in Texts, n \in {1, 256} :
       ~Spells(sid, Name.im)
         <=> GetIm(Content(Chat(133, sid, n, text))) = [sid |-> sid, text |-> text, reply |-> Ack(2, sid, n)]
  /\ \A sid \in Sids :
       /\ GetIm(Content(Ack(133, sid, 1))).reply = <<>>
       /\ GetIm(Content(PeerQuestion(133, sid))).reply = PeerQuestion(2, sid)
  /\ \A sid \in Sids, text \in ShortTexts :
       /\ ReadStatus(Content(OldStatus(sid, TRUE, text))) = [sid |-> sid, said |-> text]
       /\ ReadStatus(Content(OldStatus(sid, FALSE, text))) = [sid |-> sid, said |-> OnlineWord]
       /\ \A list \in Lists([sid : {sid}, said : {text, Letters(46, 5)}]) :
            list # <<>> => ReadStatusNew(Content(Statuses(list))) = list[1]
  /\ \A name \in ShortTexts \union {Letters(44, 25)}, nick \in ShortTexts \union {Letters(45, 49), Letters(45, 50)} :
       /\ Len(name) < 26 <=> ReadInvitation(Content(Invitation(name, nick, LongText))) = name
       /\ \A alias \in {<<>>, <<name>>, <<nick>>} :
            LoginCheck(Content(LoggedIn(7, Zeros(16), nick)), alias) =
              IF alias = <<>> \/ (alias = <<nick>> /\ Len(nick) < 50) THEN <<>> ELSE AliasChange(alias[1])
=============================================================================
