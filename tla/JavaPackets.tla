---------------------------- MODULE JavaPackets ----------------------------
(***************************************************************************)
(* The Java library's packets: typed attributes, written by one writer and *)
(* read by one parser, which goes on to the end of the packet whatever the *)
(* number of attributes its header gives.  The elements of an array are    *)
(* scalars; the bytes are those of a whole packet (see JavaReader).        *)
(***************************************************************************)
EXTENDS WireFormat

ValueType == [string |-> 1, short_int |-> 2, sid |-> 3, array |-> 4, no_idea |-> 5]
ByteLength == [type \in {2, 3, 5} |->
                 CASE type = ValueType.short_int -> 4 [] type = ValueType.sid -> 16 [] OTHER -> 1]

ConvertBytesToInt(cells) ==
  FoldLeft(LAMBDA ret, i : ret + cells[i] * 256^(i - 1), 0, [i \in 1..Len(cells) |-> i])
ConvertIntToBytes(val, byteLength) == [i \in 1..byteLength |-> (val \div 256^(i - 1)) % 256]

\* Values and attributes.
Scalar(type, value) == [type |-> type, value |-> value]
ArrayValue(elementType, values) == [type |-> ValueType.array, elementType |-> elementType, value |-> values]
ValueString(str) == Scalar(ValueType.string, str)
ValueShortInt(val) == Scalar(ValueType.short_int, ConvertIntToBytes(val, ByteLength[ValueType.short_int]))
XfireAttribute(name, value) == [name |-> name, value |-> value]
-----------------------------------------------------------------------------
(* Writing *)

AddAttributeName(name) == <<Len(name)>> \o name

WriteScalarInOneByte(val) ==
  (IF val.type = ValueType.string THEN <<Len(val.value) % 256, 0>> ELSE <<>>) \o val.value

WriteScalar(val) ==
  (IF val.type = ValueType.string THEN ConvertIntToBytes(Len(val.value), 2) ELSE <<>>) \o val.value
WriteAttributeValue(val) ==
  IF val.type = ValueType.array
  THEN <<val.elementType>> \o ConvertIntToBytes(Len(val.value), 2)
       \o FlattenSeq([k \in 1..Len(val.value) |-> WriteScalar(val.value[k])])
  ELSE WriteScalar(val)
WriteAttribute(attr) ==
  AddAttributeName(attr.name) \o <<attr.value.type>> \o WriteAttributeValue(attr.value)

SendPacket(id, count, content) ==
  LET len == Len(content) + 5
  IN  <<len % 256, len \div 256, id, 0, count>> \o content

\* Every attribute counts, those inside another included.
GenericSendPacket(id, attributes) ==
  SendPacket(id, Len(attributes), FlattenSeq([k \in 1..Len(attributes) |-> WriteAttribute(attributes[k])]))

MessageOutgoing(sid, imindex, message) ==
  GenericSendPacket(2, <<XfireAttribute(Name.sid, Scalar(ValueType.sid, sid)),
                         XfireAttribute(Name.peermsg, Scalar(ValueType.no_idea, <<3>>)),
                         XfireAttribute(Name.msgtype, ValueShortInt(0)),
                         XfireAttribute(Name.imindex, ValueShortInt(imindex)),
                         XfireAttribute(Name.im, ValueString(message))>>)

\* The counters, and the number a message to this session id gets.
NewImIndex(imindexes, sid) ==
  LET imindex == IF sid \in DOMAIN imindexes THEN imindexes[sid] ELSE 1
  IN  [imindex |-> imindex,
       imindexes |-> [s \in DOMAIN imindexes \union {sid} |->
                        IF s = sid THEN imindex + 1 ELSE imindexes[s]]]

KeepAlive ==
  GenericSendPacket(13, <<XfireAttribute(Name.value, ValueShortInt(0)),
                          XfireAttribute(Name.stats, ArrayValue(ValueType.short_int, <<>>))>>)

CryptPassword(username, password, salt) ==
  Digest(Digest(username \o password \o Letters(61, 13)) \o salt)
ClientLogin(username, password, salt) ==
  SendPacket(1, 2,
    AddAttributeName(Name.name) \o <<1, Len(username), 0>> \o username
    \o AddAttributeName(Name.password) \o <<1, 40, 0>> \o CryptPassword(username, password, salt))
ClientVersion == SendPacket(3, 1, AddAttributeName(Name.version) \o <<2, 100, 0, 0, 0>>)
ClientInformation ==
  SendPacket(18, 2,
    AddAttributeName(Name.skin) \o <<4, 1, 2, 0, Len(Standard), 0>> \o Standard \o <<Len(XFire), 0>> \o XFire
    \o AddAttributeName(Name.version) \o <<4, 2, 2, 0>> \o <<1, 0, 0, 0>> \o <<1, 0, 0, 0>>)
-----------------------------------------------------------------------------
(* Reading.  next is the place in the packet behind what was read. *)

ReadScalar(p, index, type) ==
  LET length == IF type = ValueType.string THEN ConvertBytesToInt(Slice(p, index, 2)) ELSE ByteLength[type]
      at == IF type = ValueType.string THEN index + 2 ELSE index
  IN  [value |-> Scalar(type, Slice(p, at, length)), next |-> at + length]

ReadArray(p, index) ==
  LET elementType == Byte(p, index)
      count == ConvertBytesToInt(Slice(p, index + 1, 2))
      next[k \in Nat] ==
        IF k = 0 THEN index + 3 ELSE ReadScalar(p, next[k - 1], elementType).next
  IN  [value |-> ArrayValue(elementType,
                   [k \in 1..count |-> ReadScalar(p, next[k - 1], elementType).value]),
       next |-> next[count]]

ReadAttribute(p, index) ==
  LET nameLength == Byte(p, index)
      type == Byte(p, index + 1 + nameLength)
      read == IF type = ValueType.array THEN ReadArray(p, index + 2 + nameLength)
              ELSE ReadScalar(p, index + 2 + nameLength, type)
  IN  [attribute |-> XfireAttribute(Slice(p, index + 1, nameLength), read.value), next |-> read.next]

\* The first attribute of another type ends the parsing.
TypeIsKnown(p, index) ==
  LET at == index + 1 + Byte(p, index)
  IN  /\ Byte(p, at) \in Range(ValueType)
      /\ Byte(p, at) = ValueType.array => Byte(p, at + 1) \in DOMAIN ByteLength \union {ValueType.string}

\* All attributes of a packet; the count in the header is not looked at.
ParseContent(p) ==
  LET rest[index \in 0..Len(p)] ==
        IF index = Len(p) \/ ~TypeIsKnown(p, index) THEN <<>>
        ELSE LET read == ReadAttribute(p, index) IN <<read.attribute>> \o rest[read.next]
  IN  rest[0]

\* Attributes are kept by name: the last of a name is found.
GetAttributeValue(attributes, name) ==
  LET named == {k \in 1..Len(attributes) : attributes[k].name = name}
  IN  attributes[Max(named)].value
GetArray(attributes, name) ==
  LET values == GetAttributeValue(attributes, name).value
  IN  [k \in 1..Len(values) |-> values[k].value]
GetIntValue(value) == ConvertBytesToInt(value.value)

\* The packets sent for one that arrived: only a chat message is acknowledged.
ReceivedPacket(id, p, username, password) ==
  LET attributes == ParseContent(p)
  IN  CASE id = 128 -> <<ClientLogin(username, password, ReadAttribute(p, 0).attribute.value.value)>>
        [] id = 133 /\ GetIntValue(GetAttributeValue(attributes, Name.msgtype)) = 0 ->
             <<GenericSendPacket(2,
                 <<XfireAttribute(Name.sid, GetAttributeValue(attributes, Name.sid)),
                   XfireAttribute(Name.peermsg, Scalar(ValueType.no_idea, <<2>>)),
                   XfireAttribute(Name.msgtype, ValueShortInt(1)),
                   XfireAttribute(Name.imindex, GetAttributeValue(attributes, Name.imindex))>>)>>
        [] OTHER -> <<>>
Greeting == <<ClientInformation, ClientVersion>>
-----------------------------------------------------------------------------
(* Properties *)

(* What the Java library sends is what protocol.md describes, but for one    *)
(* byte of messages and acknowledgements: the number of attributes, where it *)
(* counts those inside another too, against protocol.md:1011 and 1047 ("all  *)
(* after and with peermsg is 1 att").  An acknowledgement carries the whole  *)
(* number of the message, and messages to one session id are numbered 1, 2,  *)
(* 3...  What it reads is what the server sent, whatever the texts spell:    *)
(* written again attribute by attribute, a packet is the one that was read.  *)
JavaSpeaksTheProtocol ==
  /\ \A sid \in Sids, text \in Texts \union {LongText}, n \in {1, 255, 256, 65536} :
       /\ Departs(MessageOutgoing(sid, n, text), Chat(2, sid, n, text)) = {CountByte}
       /\ \A content \in {Content(Chat(133, sid, n, text))} : \A read \in {ParseContent(content)} :
            GetAttributeValue(read, Name.im) = ValueString(text)
       /\ \A answers \in {ReceivedPacket(133, Content(Chat(133, sid, n, text)), <<>>, <<>>)} :
            /\ Len(answers) = 1
            /\ Departs(answers[1], Ack(2, sid, n)) = {CountByte}
  /\ \A heard \in
          {[packet |-> PeerQuestion(133, sid), answer |-> <<>>, as |-> <<>>] : sid \in Sids}
          \union {[packet |-> Ack(133, Zeros(16), 1), answer |-> <<>>, as |-> <<>>]}
          \union
          {[packet |-> SaltPacket(salt), as |-> text,
            answer |->
              <<Packet(1, 2, <<Attribute(Name.name, OfText(text)),
                               Attribute(Name.password, OfText(
                                 Digest(Digest(text \o Letters(72, 9) \o Letters(61, 13)) \o salt)))>>)>>] :
             salt \in {Letters(70, 40), Letters(71, 40)}, text \in ShortTexts} :
       \A content \in {Content(heard.packet)} :
         ReceivedPacket(heard.packet[3], content, heard.as, Letters(72, 9)) = heard.answer
  /\ \A to \in [1..4 -> Sids] :
       LET sent[k \in 0..4] ==
             IF k = 0 THEN [imindex |-> 0, imindexes |-> << >>]
             ELSE NewImIndex(sent[k - 1].imindexes, to[k])
       IN  \A k \in 1..4 : sent[k].imindex = Cardinality({j \in 1..k : to[j] = to[k]})
  /\ KeepAlive = Packet(13, 2, <<Attribute(Name.value, OfInt(0)), Attribute(Name.stats, Array(2, <<>>))>>)
  /\ Greeting =
       <<Packet(18, 2, <<Attribute(Name.skin, Array(1, <<OfText(Standard), OfText(XFire)>>)),
                         Attribute(Name.version, Array(2, <<OfInt(1), OfInt(1)>>))>>),
         Packet(3, 1, <<Attribute(Name.version, OfInt(100))>>)>>
  /\ \A a \in Texts, b \in ShortTexts, c \in ShortTexts :
       \A list \in Lists({[name |-> a, nick |-> b, id |-> 300], [name |-> b, nick |-> c, id |-> 65536]}) :
         \A content \in {Content(FriendNames(list))} : \A read \in {ParseContent(content)} :
           /\ GetArray(read, Name.friends) = [k \in 1..Len(list) |-> list[k].name]
           /\ GetArray(read, Name.nick) = [k \in 1..Len(list) |-> list[k].nick]
           /\ GetArray(read, Name.userid) = [k \in 1..Len(list) |-> Number(list[k].id, 4)]
  /\ \A packet \in
          {Online(list) : list \in Lists([id : UserIds, sid : Sids])}
          \union {Statuses(list) : list \in Lists([sid : Sids, said : ShortTexts])}
          \union {Games(list) : list \in Lists([sid : Sids, game : {0, 65538}, ip : {<<1, 2, 3, 4>>},
                                               port : {0, 65535}])}
          \union {LoggedIn(300, sid, text) : sid \in Sids, text \in Texts} :
       \A content \in {Content(packet)} : \A read \in {ParseContent(content)} :
         GenericSendPacket(packet[3], read) = packet
=============================================================================
