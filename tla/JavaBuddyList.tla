--------------------------- MODULE JavaBuddyList ---------------------------
(***************************************************************************)
(* The Java library's BuddyList as functions of its list of friends.  It   *)
(* hears of names, session ids and statuses only: a friendship that ended, *)
(* a new nickname and the games leave it as it is.  Session ids are those  *)
(* of BuddyList; null is a session id or a status nobody has sent yet.     *)
(***************************************************************************)
EXTENDS Integers, Sequences, SequencesExt

NullSid == -1
NullMessage == "null"

Friend(userid, name, nick) ==
  [userid |-> userid, name |-> name, nick |-> nick, sid |-> NullSid, statusMessage |-> NullMessage]

\* The all-zero session id of somebody who left is not null.
IsOnlineFriend(friend) == friend.sid # NullSid

\* The first match; 0 is the code's null.
FriendBySid(friends, sid) == SelectInSeq(friends, LAMBDA f : f.sid = sid)
FriendByUserId(friends, userid) == SelectInSeq(friends, LAMBDA f : f.userid = userid)

ReceivedBuddyList(friends, items) ==
  friends \o [k \in 1..Len(items) |-> Friend(items[k].id, items[k].name, items[k].nick)]

ReceivedBuddyListOnline(friends, items) ==
  FoldLeft(LAMBDA fs, item :
             LET i == FriendByUserId(fs, item.id)
             IN  IF i = 0 THEN fs ELSE [fs EXCEPT ![i].sid = item.sid],
           friends, items)

\* Statuses behind an unknown session id are lost.
ReceivedStatusMessageUntilUnknown(friends, items) ==
  LET stranger == SelectInSeq(items, LAMBDA item : FriendBySid(friends, item.sid) = 0)
      known == IF stranger = 0 THEN items ELSE SubSeq(items, 1, stranger - 1)
  IN  FoldLeft(LAMBDA fs, item : [fs EXCEPT ![FriendBySid(fs, item.sid)].statusMessage = item.msg],
               friends, known)

\* An unknown session id is skipped.
ReceivedStatusMessage(friends, items) ==
  FoldLeft(LAMBDA fs, item :
             LET i == FriendBySid(fs, item.sid)
             IN  IF i = 0 THEN fs ELSE [fs EXCEPT ![i].statusMessage = item.msg],
           friends, items)

\* BuddyList.receivedPacket
ReceivedByFriends(friends, packet) ==
  CASE packet.kind = "names"  -> ReceivedBuddyList(friends, packet.items)
    [] packet.kind = "online" -> ReceivedBuddyListOnline(friends, packet.items)
    [] packet.kind = "status" -> ReceivedStatusMessage(friends, packet.items)
    [] OTHER                  -> friends
=============================================================================
