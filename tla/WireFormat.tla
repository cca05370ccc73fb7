----------------------------- MODULE WireFormat -----------------------------
(***************************************************************************)
(* Xfire's packets as src/gfire/protocol.md describes them: the reference  *)
(* that the three libraries' writers and readers are compared with, and    *)
(* the packets of the server they read.  A packet is a sequence of bytes:  *)
(* the numbers 0..255, and for the letters of a text numbers above 1000,   *)
(* so that texts are told apart and never taken for a length.              *)
(***************************************************************************)
EXTENDS Integers, Sequences, FiniteSets, SequencesExt

Letters(c, n) == [k \in 1..n |-> 1000 * c + k]
Zeros(n) == [k \in 1..n |-> 0]
Number(n, bytes) == [k \in 1..bytes |-> (n \div 256^(k - 1)) % 256]

\* A name is spelled from the names it contains, so that a search for one
\* inside another finds what it finds in the program.
Name ==
  LET im == Letters(1, 2)
      t == Letters(2, 1)
      msg == Letters(3, 3)
      type == t \o Letters(4, 3)
      sta == Letters(5, 1) \o t \o Letters(6, 1) \o t
  IN  [im |-> im, imindex |-> im \o Letters(7, 5), t |-> t, msg |-> msg, type |-> type,
       msgtype |-> msg \o type, peermsg |-> Letters(8, 4) \o msg, sid |-> Letters(9, 3),
       status |-> sta \o Letters(10, 2), stats |-> sta \o Letters(11, 1),
       nick |-> Letters(12, 4), name |-> Letters(13, 4), friends |-> Letters(14, 7),
       userid |-> Letters(15, 6), gameid |-> Letters(16, 6), gip |-> Letters(17, 3),
       gport |-> Letters(18, 5), vid |-> Letters(19, 3), vip |-> Letters(20, 3),
       vport |-> Letters(21, 5), skin |-> Letters(22, 4), version |-> Letters(23, 7),
       password |-> Letters(24, 8), flags |-> Letters(25, 5), salt |-> Letters(26, 4),
       value |-> Letters(27, 5), dlset |-> Letters(28, 5)]
Standard == Letters(30, 8)
XFire == Letters(31, 5)

\* A stand-in for the digest of a text, 40 digits: it tells the texts of the
\* checks apart.
Digest(text) ==
  LET n == FoldLeft(LAMBDA a, b : (31 * a + b) % 60013, 7, text)
  IN  [k \in 1..40 |-> 100000 + n]

\* Memory that no packet has filled, and what a read behind the end of a packet
\* finds.
Junk == -1
Byte(p, i) == IF i \in 0..(Len(p) - 1) THEN p[i + 1] ELSE Junk
Slice(p, i, n) == [k \in 1..n |-> Byte(p, i + k - 1)]
-----------------------------------------------------------------------------
(* Attributes and packets *)

OfText(t) == <<1>> \o Number(Len(t), 2) \o t
OfInt(n) == <<2>> \o Number(n, 4)
OfWord(cells) == <<2>> \o cells
OfSid(cells) == <<3>> \o cells
\* An array holds its elements without their types.
Array(type, elements) ==
  <<4, type>> \o Number(Len(elements), 2) \o FlattenSeq([k \in 1..Len(elements) |-> Tail(elements[k])])
\* The attributes that follow belong to this one.
Nested(n) == <<5, n>>

Attribute(name, value) == <<Len(name)>> \o name \o value
\* An attribute of the newer packets has a number for a name.
Numbered(id, value) == <<id>> \o value

Body(attributes) == FlattenSeq(attributes)
Packet(id, count, attributes) ==
  Number(5 + Len(Body(attributes)), 2) \o <<id, 0, count>> \o Body(attributes)

ArrayOf(f(_), entries) == [k \in 1..Len(entries) |-> f(entries[k])]

PeerMessage(id, sid, type, rest) ==
  Packet(id, 2, <<Attribute(Name.sid, OfSid(sid)), Attribute(Name.peermsg, Nested(1 + Len(rest))),
                  Attribute(Name.msgtype, OfInt(type))>> \o rest)
Chat(id, sid, imindex, text) ==
  PeerMessage(id, sid, 0, <<Attribute(Name.imindex, OfInt(imindex)), Attribute(Name.im, OfText(text))>>)
Ack(id, sid, imindex) == PeerMessage(id, sid, 1, <<Attribute(Name.imindex, OfInt(imindex))>>)
\* A question about the peers' addresses, answered with the same.
PeerQuestion(id, sid) ==
  PeerMessage(id, sid, 2,
    <<Attribute(Letters(32, 2), OfWord(Letters(36, 4))), Attribute(Letters(33, 4), OfInt(1061)),
      Attribute(Letters(34, 7), OfWord(Letters(37, 4))), Attribute(Letters(35, 9), OfInt(1061)),
      Attribute(Name.status, OfInt(1)), Attribute(Name.salt, OfText(Letters(38, 40)))>>)
-----------------------------------------------------------------------------
(* What the server sends, without the header *)

Content(packet) == SubSeq(packet, 6, Len(packet))

SaltPacket(salt) == Packet(128, 1, <<Attribute(Name.salt, OfText(salt))>>)
LoggedIn(userid, sid, nick) ==
  Packet(130, 5, <<Attribute(Name.userid, OfInt(userid)), Attribute(Name.sid, OfSid(sid)),
                   Attribute(Name.nick, OfText(nick)), Attribute(Name.status, OfInt(3)),
                   Attribute(Name.dlset, OfText(<<>>))>>)
FriendNames(list) ==
  Packet(131, 3, <<Attribute(Name.friends, Array(1, ArrayOf(LAMBDA e : OfText(e.name), list))),
                   Attribute(Name.nick, Array(1, ArrayOf(LAMBDA e : OfText(e.nick), list))),
                   Attribute(Name.userid, Array(2, ArrayOf(LAMBDA e : OfInt(e.id), list)))>>)
Online(list) ==
  Packet(132, 2, <<Attribute(Name.userid, Array(2, ArrayOf(LAMBDA e : OfWord(e.id), list))),
                   Attribute(Name.sid, Array(3, ArrayOf(LAMBDA e : OfSid(e.sid), list)))>>)
Games(list) ==
  Packet(135, 4, <<Attribute(Name.sid, Array(3, ArrayOf(LAMBDA e : OfSid(e.sid), list))),
                   Attribute(Name.gameid, Array(2, ArrayOf(LAMBDA e : OfInt(e.game), list))),
                   Attribute(Name.gip, Array(2, ArrayOf(LAMBDA e : OfWord(e.ip), list))),
                   Attribute(Name.gport, Array(2, ArrayOf(LAMBDA e : OfInt(e.port), list)))>>)
Statuses(list) ==
  Packet(154, 2, <<Attribute(Name.sid, Array(3, ArrayOf(LAMBDA e : OfSid(e.sid), list))),
                   Attribute(Name.msg, Array(1, ArrayOf(LAMBDA e : OfText(e.said), list)))>>)
OldStatus(sid, away, text) ==
  Packet(142, 3, <<Attribute(Name.sid, OfSid(sid)), Attribute(Name.type, OfInt(IF away THEN 1 ELSE 0))>>
                   \o IF away THEN <<Attribute(Name.status, Nested(1)), Attribute(Name.t, OfText(text))>>
                      ELSE <<>>)
Invitation(name, nick, text) ==
  Packet(138, 3, <<Attribute(Name.name, Array(1, <<OfText(name)>>)),
                   Attribute(Name.nick, Array(1, <<OfText(nick)>>)),
                   Attribute(Name.msg, Array(1, <<OfText(text)>>))>>)
Removed(userid) == Packet(139, 1, <<Attribute(Name.userid, OfInt(userid))>>)
NewNick(userid, nick) == Packet(161, 2, <<Numbered(1, OfInt(userid)), Numbered(2, OfText(nick))>>)
-----------------------------------------------------------------------------
(* The values of the checks *)

\* The bytes in which a packet is not what it should be; 0 for its length.
Departs(packet, reference) ==
  IF Len(packet) # Len(reference) THEN {0}
  ELSE {k \in 1..Len(reference) : packet[k] # reference[k]}
\* The byte of the header that gives the number of attributes.
CountByte == 5

\* Does s occur in text?
Spells(text, s) == \E i \in 0..(Len(text) - Len(s)) : Slice(text, i, Len(s)) = s

Texts == {<<>>, Letters(40, 1), Letters(41, 26), Name.im, Name.msg \o Name.sid,
          Name.nick \o Name.userid, Letters(42, 255)}
LongText == Letters(43, 300)
ShortTexts == {s \in Texts : Len(s) < 50}
Sids == {Letters(50, 16), Zeros(16), Letters(51, 7) \o Name.sid \o Letters(52, 6),
         Name.im \o Letters(53, 14)}
\* The last one spells sid, as 6580595 does.
UserIds == {Number(1, 4), Letters(54, 4), Name.sid \o <<0>>}
Counts == {0, 1, 255, 256, 65535}
\* Two and more entries of S.
Lists(S) == {<<>>} \union {<<a>> : a \in S} \union {<<a, b, a>> : a \in S, b \in S}
=============================================================================
