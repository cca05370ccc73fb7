----------------------------- MODULE CppPackets -----------------------------
(***************************************************************************)
(* xfirelib's packets: the content classes write their attributes into a   *)
(* buffer of a size each declares for itself, XFirePacket adds the header, *)
(* and the server's packets are read from front to back, byte by byte,     *)
(* without looking at the names of the attributes.                         *)
(***************************************************************************)
EXTENDS WireFormat

(* Writing *)

WriteName(name) == <<Len(name)>> \o name
AddAttributName(att) == <<Len(att)>> \o att
SetValueFromLong(value, bytes) == [i \in 1..bytes |-> (value \div 256^(i - 1)) % 256]

\* A content longer than its class declares is written past its buffer.
SendPacket(id, attributes, size, content) ==
  LET realsize == Len(content) + 5
  IN  IF Len(content) > size THEN <<Junk>>
      ELSE <<realsize % 256, realsize \div 256, id, 0, attributes>> \o content

\* What a C string keeps of these bytes.
CString(cells) ==
  IF 0 \in ToSet(cells) THEN SubSeq(cells, 1, Min({i \in 1..Len(cells) : cells[i] = 0}) - 1)
  ELSE cells

\* The number of the next message and the counters, kept for C strings.
InitIMIndex(imindexes, sid) ==
  LET key == CString(sid)
      imindex == IF key \in DOMAIN imindexes THEN imindexes[key] + 1 ELSE 1
  IN  [imindex |-> imindex,
       imindexes |-> [k \in DOMAIN imindexes \union {key} |->
                        IF k = key THEN imindex ELSE imindexes[k]]]

SendMessageInOneByte(sid, message, imindex) ==
  SendPacket(2, 2, 1024,
    WriteName(Name.sid) \o <<3>> \o sid \o WriteName(Name.peermsg) \o <<5, 3>>
    \o WriteName(Name.msgtype) \o <<2>> \o SetValueFromLong(0, 4)
    \o WriteName(Name.imindex) \o <<2>> \o SetValueFromLong(imindex, 4)
    \o WriteName(Name.im) \o <<1, Len(message) % 256, 0>> \o message)

SendMessage(sid, message, imindex) ==
  SendPacket(2, 2, 1024,
    WriteName(Name.sid) \o <<3>> \o sid \o WriteName(Name.peermsg) \o <<5, 3>>
    \o WriteName(Name.msgtype) \o <<2>> \o SetValueFromLong(0, 4)
    \o WriteName(Name.imindex) \o <<2>> \o SetValueFromLong(imindex, 4)
    \o WriteName(Name.im) \o <<1, Len(message) % 256, Len(message) \div 256>> \o message)

MessageACK(sid, imindex) ==
  SendPacket(2, 2, 100,
    WriteName(Name.sid) \o <<3>> \o sid \o WriteName(Name.peermsg) \o <<5, 2>>
    \o WriteName(Name.msgtype) \o <<2>> \o SetValueFromLong(1, 4)
    \o WriteName(Name.imindex) \o <<2>> \o SetValueFromLong(imindex, 4))

\* A question is answered with a copy of it.
MessageEcho(content) == SendPacket(2, 2, 1024, Slice(content, 0, 150))

\* The message the gateway sends along with an invitation.
DefaultMsg == Letters(60, 72)

\* The number of entries stands where the type belongs.
InviteBuddy(names, msgs) ==
  LET entries(texts) ==
        <<Len(texts)>> \o FlattenSeq([k \in 1..Len(texts) |-> <<Len(texts[k]), 0>> \o texts[k]])
  IN  SendPacket(6, 2, 100, WriteName(Name.name) \o entries(names) \o WriteName(Name.msg) \o entries(msgs))

SendRemoveBuddy(userid) ==
  SendPacket(9, 1, 100, WriteName(Name.userid) \o <<2>> \o SetValueFromLong(userid, 4))
SendKeepAlive ==
  SendPacket(13, 2, 26, WriteName(Name.value) \o <<2, 0, 0, 0, 0>> \o WriteName(Name.stats) \o <<4, 2, 0, 0>>)
SendNickChange(nick) ==
  SendPacket(14, 1, 100, WriteName(Name.nick) \o <<1, Len(nick), 0>> \o nick)
SendStatusMessage(awaymsg) ==
  SendPacket(32, 1, Len(awaymsg) + 10, <<46, 1, Len(awaymsg), 0>> \o awaymsg)

\* Three attributes are announced, one is written.
SendInvitation(id, name) ==
  SendPacket(id, 3, 100, WriteName(Name.name) \o <<1, Len(name), 0>> \o name)

\* Three attributes are announced, two are written; the address is taken for a
\* C string on the way, and what it loses is made up with what follows.
SendGameServer(ip, port) ==
  LET kept == CString(ip)
  IN  SendPacket(4, 3, 100,
        WriteName(Name.gip) \o <<2>> \o kept \o [k \in 1..(4 - Len(kept)) |-> Junk]
        \o WriteName(Name.gport) \o <<2>> \o SetValueFromLong(port, 4))

GameStatusContent(names, gameid, ip, port) ==
  WriteName(names[1]) \o <<2>> \o SetValueFromLong(gameid, 4)
  \o WriteName(names[2]) \o <<2>> \o ip \o WriteName(names[3]) \o <<2>> \o SetValueFromLong(port, 4)
SendGameStatus(gameid, ip, port) ==
  SendPacket(4, 3, 100, GameStatusContent(<<Name.gameid, Name.gip, Name.gport>>, gameid, ip, port))
SendGameStatus2(gameid, ip, port) ==
  SendPacket(15, 3, 100, GameStatusContent(<<Name.vid, Name.vip, Name.vport>>, gameid, ip, port))

CryptPassword(name, password, salt) ==
  Digest(Digest(name \o password \o Letters(61, 13)) \o Slice(salt, 0, 40))
ClientLogin(name, password, salt) ==
  SendPacket(1, 2, 300,
    AddAttributName(Name.name) \o <<1, Len(name), 0>> \o name
    \o AddAttributName(Name.password) \o <<1, 40, 0>> \o CryptPassword(name, password, salt))
ClientVersion(version) ==
  SendPacket(3, 1, 1024, AddAttributName(Name.version) \o <<2, version, 0, 0, 0>>)
ClientInformation ==
  SendPacket(18, 2, 46,
    AddAttributName(Name.skin) \o <<4, 1, 2, 0, Len(Standard), 0>> \o Standard \o <<Len(XFire), 0>> \o XFire
    \o WriteName(Name.version) \o <<4, 2, 2, 0>> \o <<1, 0, 0, 0>> \o <<1, 0, 0, 0>>)
-----------------------------------------------------------------------------
(* Reading.  A reader keeps an index: next is where it stands afterwards. *)

ReadName(p, index) ==
  LET nameLength == Byte(p, index)
  IN  [value |-> Slice(p, index + 1, nameLength), next |-> index + 1 + nameLength]

\* A negative length is read from the packet, with the zero behind it if asked.
ReadValue(p, index, length, ignoreZeroAfterLength) ==
  LET n == IF length < 0 THEN Byte(p, index) ELSE length
      at == IF length < 0 THEN index + 1 + ignoreZeroAfterLength ELSE index
  IN  [value |-> Slice(p, at, n), next |-> at + n]

GetValueAsLong(value) ==
  FoldLeft(LAMBDA long, i : long + value[i] * 256^(i - 1), 0, [i \in 1..Len(value) |-> i])

\* The salt: the type of a text is 1, the width of its length.
ReadVariableValue(p, index) ==
  LET length == ReadValue(p, ReadName(p, index).next, -1, 0)
  IN  ReadValue(p, length.next + 1, GetValueAsLong(length.value), 0).value

\* The element type is read as the width of a number again; only the low byte
\* of a number of texts remains.
ReadStrings(p, index) ==
  LET number == ReadValue(p, index, -1, 0)
      next[k \in Nat] ==
        IF k = 0 THEN number.next + 1 ELSE LET at == next[k - 1] IN at + 2 + Byte(p, at)
  IN  [value |-> [k \in 1..GetValueAsLong(number.value) |->
                    Slice(p, next[k - 1] + 2, Byte(p, next[k - 1]))],
       next |-> next[GetValueAsLong(number.value)]]

\* An array of values of a fixed width, behind its name and type.
ReadColumn(p, index, width) ==
  LET at == ReadName(p, index).next + 2
      number == Byte(p, at)
  IN  [value |-> [k \in 1..number |-> ReadValue(p, at + 2 + width * (k - 1), width, 0).value],
       next |-> at + 2 + width * number]

BuddyListNames(p) ==
  LET usernames == ReadStrings(p, ReadName(p, 0).next + 1)
      nicks == ReadStrings(p, ReadName(p, usernames.next).next + 1)
      number == ReadValue(p, ReadName(p, nicks.next).next + 1, -1, 0)
      userid(k) == GetValueAsLong(ReadValue(p, number.next + 4 * (k - 1), 4, 0).value)
  IN  [usernames |-> usernames.value, nicks |-> nicks.value,
       userids |-> [k \in 1..GetValueAsLong(number.value) |-> userid(k)]]

BuddyListOnline(p) ==
  LET userids == ReadColumn(p, 0, 4)
  IN  [userids |-> [k \in 1..Len(userids.value) |-> GetValueAsLong(userids.value[k])],
       sids |-> ReadColumn(p, userids.next, 16).value]

\* A game's number is two numbers of two bytes.
BuddyListGames(p) ==
  LET sids == ReadColumn(p, 0, 16)
      games == ReadColumn(p, sids.next, 4)
      ips == ReadColumn(p, games.next, 4)
      ports == ReadColumn(p, ips.next, 4)
      longs(column, from, to) ==
        [k \in 1..Len(column.value) |-> GetValueAsLong(SubSeq(column.value[k], from, to))]
  IN  [sids |-> sids.value, gameids |-> longs(games, 1, 2), gameids2 |-> longs(games, 3, 4),
       ips |-> ips.value, ports |-> longs(ports, 1, 4)]

RecvStatusMessage(p) ==
  LET sids == ReadColumn(p, 0, 16)
  IN  [sids |-> sids.value, msgs |-> ReadStrings(p, ReadName(p, sids.next).next + 1).value]

RecvRemoveBuddy(p) == GetValueAsLong(ReadValue(p, ReadName(p, 0).next + 1, 4, 0).value)

RecvNicknameChange(p) ==
  LET userid == ReadValue(p, 2, 4, 0)
      length == ReadValue(p, userid.next + 2, 2, 0)
  IN  [userId |-> GetValueAsLong(userid.value),
       nickname |-> ReadValue(p, length.next, GetValueAsLong(length.value), 0).value]

InviteRequest(p) ==
  LET name == ReadValue(p, ReadName(p, 0).next + 4, -1, 1)
      nick == ReadValue(p, ReadName(p, name.next).next + 4, -1, 1)
      msg == ReadValue(p, ReadName(p, nick.next).next + 4, -1, 1)
  IN  [name |-> name.value, nick |-> nick.value, msg |-> msg.value]

\* Where each attribute of a successful log-in ends; a name nobody knows is the
\* last.
LoginSuccess(p, numberOfAtts) ==
  LET end[i \in Nat] ==
        IF i = 0 THEN [read |-> 0, known |-> TRUE]
        ELSE LET last == end[i - 1]
                 att == ReadName(p, last.read)
                 to(read) == [read |-> read, known |-> TRUE]
             IN  CASE ~last.known              -> last
                   [] att.value = Name.userid  -> to(ReadValue(p, att.next + 1, 3, 0).next + 1)
                   [] att.value = Name.sid     -> to(ReadValue(p, att.next + 1, 16, 0).next)
                   [] att.value = Name.nick    -> to(ReadValue(p, att.next + 1, -1, 1).next)
                   [] att.value = Name.status  -> to(att.next + 5)
                   [] att.value = Name.dlset   -> to(att.next + 3)
                   [] OTHER                    -> [read |-> att.next, known |-> FALSE]
  IN  end[numberOfAtts].read

Message(p) ==
  LET sid == ReadValue(p, ReadName(p, 0).next + 1, 16, 0)
      msgtype == ReadValue(p, ReadName(p, ReadName(p, sid.next).next + 2).next + 1, 4, 0)
      imindex == ReadValue(p, ReadName(p, msgtype.next).next + 1, 4, 0)
      length == ReadValue(p, ReadName(p, imindex.next).next + 1, 2, 0)
      type == msgtype.value[1]
  IN  [sid |-> sid.value, type |-> type,
       imindex |-> IF type = 0 THEN imindex.value[1] ELSE 0,
       message |-> IF type = 0 THEN ReadValue(p, length.next, GetValueAsLong(length.value), 0).value
                   ELSE <<>>]

\* The packets the reader knows; InviteBuddy is only ever sent.
ContentClasses == {18, 128, 129, 130, 133, 132, 131, 135, 147, 145, 6, 138, 139, 144, 154, 134, 141, 161}
-----------------------------------------------------------------------------
(* The client's own part *)

Greeting(protocolVersion) == <<ClientInformation, ClientVersion(protocolVersion)>>

\* The packets sent for one that arrived.
Answers(id, p, username, password) ==
  LET message == Message(p)
  IN  CASE id = 128 -> <<ClientLogin(username, password, ReadVariableValue(p, 0))>>
        [] id = 133 /\ message.type = 0 -> <<MessageACK(message.sid, message.imindex)>>
        [] id = 133 /\ message.type = 2 -> <<MessageEcho(p)>>
        [] OTHER -> <<>>
-----------------------------------------------------------------------------
(* Properties *)

(* What xfirelib sends is what protocol.md describes, for texts of up to 255 *)
(* letters: the answers to the salt and to a question, the acknowledgement   *)
(* with the message's session id and the low byte of its number.  Messages   *)
(* to one session id carry increasing numbers, whatever is written in        *)
(* between to others that are the same C string.  Two packets depart from    *)
(* it, in these bytes and no others: the answers to an invitation and the    *)
(* game's server announce a number of attributes that is not that of the     *)
(* attributes in the packet (protocol.md:87), and the latter loses the       *)
(* address from its first zero on.                                           *)
CppWritesTheProtocol ==
  /\ \A sid \in Sids, text \in Texts \union {LongText}, n \in {1, 256} :
       /\ SendMessage(sid, text, n) = Chat(2, sid, n, text)
       /\ Answers(133, Content(Chat(133, sid, n, text)), <<>>, <<>>) = <<Ack(2, sid, n % 256)>>
  /\ \A sid \in Sids :
       /\ Answers(133, Content(Ack(133, sid, 1)), <<>>, <<>>) = <<>>
       /\ LET question == PeerQuestion(133, sid)
              echo == Answers(133, Content(question), <<>>, <<>>)[1]
          IN  \A k \in 6..Len(question) : echo[k] = question[k]
  /\ \A to \in [1..4 -> Sids] :
       LET sent[k \in 0..4] ==
             IF k = 0 THEN [imindex |-> 0, imindexes |-> << >>]
             ELSE InitIMIndex(sent[k - 1].imindexes, to[k])
       IN  \A j, k \in 1..4 : j < k /\ to[j] = to[k] => sent[j].imindex < sent[k].imindex
  /\ \A text \in ShortTexts :
       /\ InviteBuddy(<<text>>, <<Letters(61, 20)>>) =
            Packet(6, 2, <<Attribute(Name.name, OfText(text)), Attribute(Name.msg, OfText(Letters(61, 20)))>>)
       /\ SendNickChange(text) = Packet(14, 1, <<Attribute(Name.nick, OfText(text))>>)
       /\ \A id \in {7, 8} :
            Departs(SendInvitation(id, text), Packet(id, 1, <<Attribute(Name.name, OfText(text))>>)) = {CountByte}
       /\ \A salt \in {Letters(70, 40), Letters(71, 40)} :
            Answers(128, Content(SaltPacket(salt)), text, Letters(72, 9)) =
              <<Packet(1, 2, <<Attribute(Name.name, OfText(text)),
                               Attribute(Name.password, OfText(
                                 Digest(Digest(text \o Letters(72, 9) \o Letters(61, 13)) \o salt)))>>)>>
  /\ \A text \in Texts : SendStatusMessage(text) = Packet(32, 1, <<Numbered(46, OfText(text))>>)
  /\ \A id \in Counts : SendRemoveBuddy(id) = Packet(9, 1, <<Attribute(Name.userid, OfInt(id))>>)
  /\ \A game \in Counts, port \in Counts, ip \in {Zeros(4), <<127, 0, 0, 1>>, <<10, 1, 2, 3>>} :
       LET status(a, b, c) == <<Attribute(a, OfInt(game)), Attribute(b, OfWord(ip)), Attribute(c, OfInt(port))>>
       IN  /\ SendGameStatus(game, ip, port) = Packet(4, 3, status(Name.gameid, Name.gip, Name.gport))
           /\ SendGameStatus2(game, ip, port) = Packet(15, 3, status(Name.vid, Name.vip, Name.vport))
           /\ LET server == Packet(4, 2, Tail(status(Name.gameid, Name.gip, Name.gport)))
                  lost == {k \in 1..4 : \E i \in 1..k : ip[i] = 0}
              IN  Departs(SendGameServer(ip, port), server) = {CountByte} \union {10 + k : k \in lost}
  /\ SendKeepAlive = Packet(13, 2, <<Attribute(Name.value, OfInt(0)), Attribute(Name.stats, Array(2, <<>>))>>)
  /\ \A version \in {25, 100} :
       Greeting(version) =
         <<Packet(18, 2, <<Attribute(Name.skin, Array(1, <<OfText(Standard), OfText(XFire)>>)),
                           Attribute(Name.version, Array(2, <<OfInt(1), OfInt(1)>>))>>),
           Packet(3, 1, <<Attribute(Name.version, OfInt(version))>>)>>

(* The bytes a packet's class reserves are enough for these texts and for no *)
(* longer ones: an invitation that carries the gateway's own message has     *)
(* room for a name of 13 letters, although XFire's names have up to 25       *)
(* (xfire.c:460).                                                            *)
CppPacketsFit ==
  LET fits(send(_), most) ==
        /\ send(Letters(44, most)) # <<Junk>>
        /\ send(Letters(44, most + 1)) = <<Junk>>
  IN  /\ fits(LAMBDA name : InviteBuddy(<<name>>, <<DefaultMsg>>), 13)
      /\ fits(LAMBDA name : SendInvitation(7, name), 92)
      /\ fits(LAMBDA nick : SendNickChange(nick), 92)
      /\ fits(LAMBDA name : ClientLogin(name, Letters(72, 9), Letters(70, 40)), 240)
      /\ fits(LAMBDA text : SendMessage(Letters(50, 16), text, 1), 961)

(* What xfirelib reads is what the server sent, whatever the texts spell:    *)
(* reading each attribute leaves the index at the next one, in packets of    *)
(* every kind it knows.                                                      *)
CppReadsTheServer ==
  /\ \A a \in ShortTexts, b \in ShortTexts, c \in ShortTexts :
       \A list \in Lists({[name |-> a, nick |-> b, id |-> 300], [name |-> b, nick |-> c, id |-> 65536]}) :
         BuddyListNames(Content(FriendNames(list))) =
           [usernames |-> [k \in 1..Len(list) |-> list[k].name],
            nicks |-> [k \in 1..Len(list) |-> list[k].nick],
            userids |-> [k \in 1..Len(list) |-> list[k].id]]
  /\ \A list \in Lists([n : Counts, sid : Sids]) :
       BuddyListOnline(Content(Online([k \in 1..Len(list) |->
                                         [id |-> Number(list[k].n, 4), sid |-> list[k].sid]]))) =
         [userids |-> [k \in 1..Len(list) |-> list[k].n], sids |-> [k \in 1..Len(list) |-> list[k].sid]]
  /\ \A list \in Lists([sid : Sids, game : {0, 65535, 65538}, ip : {<<1, 2, 3, 4>>}, port : {0, 65535}]) :
       BuddyListGames(Content(Games(list))) =
         [sids |-> [k \in 1..Len(list) |-> list[k].sid],
          gameids |-> [k \in 1..Len(list) |-> list[k].game % 65536],
          gameids2 |-> [k \in 1..Len(list) |-> list[k].game \div 65536],
          ips |-> [k \in 1..Len(list) |-> list[k].ip], ports |-> [k \in 1..Len(list) |-> list[k].port]]
  /\ \A list \in Lists([sid : Sids, said : Texts]) :
       RecvStatusMessage(Content(Statuses(list))) =
         [sids |-> [k \in 1..Len(list) |-> list[k].sid], msgs |-> [k \in 1..Len(list) |-> list[k].said]]
  /\ \A id \in Counts, text \in Texts \union {LongText} :
       /\ RecvRemoveBuddy(Content(Removed(id))) = id
       /\ RecvNicknameChange(Content(NewNick(id, text))) = [userId |-> id, nickname |-> text]
  /\ \A name \in Texts, nick \in Texts, text \in Texts :
       InviteRequest(Content(Invitation(name, nick, text))) = [name |-> name, nick |-> nick, msg |-> text]
  /\ \A text \in Texts, sid \in Sids, id \in Counts :
       LET packet == LoggedIn(id, sid, text)
       IN  LoginSuccess(Content(packet), packet[5]) = Len(Content(packet))
  /\ \A sid \in Sids, text \in Texts \union {LongText}, n \in {1, 255} :
       Message(Content(Chat(133, sid, n, text))) = [sid |-> sid, type |-> 0, imindex |-> n, message |-> text]
  /\ {p[3] : p \in {SaltPacket(<<>>), LoggedIn(1, Zeros(16), <<>>), FriendNames(<<>>), Online(<<>>), Games(<<>>),
                    Statuses(<<>>), Invitation(<<>>, <<>>, <<>>), Removed(1), NewNick(1, <<>>),
                    Ack(133, Zeros(16), 1)}} \subseteq ContentClasses
=============================================================================
