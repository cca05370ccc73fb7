----------------------------- MODULE BuddyList -----------------------------
(***************************************************************************)
(* xfirelib's BuddyList as functions of its vector of entries: what one    *)
(* packet turns the vector into.  Session ids are numbers, 0 for the all   *)
(* zero session id that means offline; 0 is also no game.                  *)
(***************************************************************************)
EXTENDS Naturals, Sequences, SequencesExt

CONSTANT
  HeapWords  \* what the word after a games packet's vtable can hold

NoSid == 0
NoText == ""

NewEntry(name, id, nick) ==
  [ username |-> name, userid |-> id, nick |-> nick, sid |-> NoSid,
    statusmsg |-> NoText, game |-> 0, game2 |-> 0 ]

IsOnline(entry) == entry.sid # NoSid

\* Every look-up returns the first match; 0 is the code's null pointer.
IndexById(entries, id) == SelectInSeq(entries, LAMBDA e : e.userid = id)
IndexByName(entries, name) == SelectInSeq(entries, LAMBDA e : e.username = name)
IndexBySid(entries, sid) == SelectInSeq(entries, LAMBDA e : e.sid = sid)
-----------------------------------------------------------------------------
(* One operator per packet; items are the rows of the packet's vectors.      *)

InitEntries(entries, items) ==
  entries \o [k \in 1..Len(items) |->
                NewEntry(items[k].name, items[k].id, items[k].nick)]

\* One session id for all the packet's buddies.
UpdateOnlineSameSid(entries, items) ==
  FoldLeft(LAMBDA es, item :
             LET i == IndexById(es, item.id)
             IN  IF i = 0 THEN es ELSE [es EXCEPT ![i].sid = items[1].sid],
           entries, items)

\* Only the packet's first buddy.
UpdateOnlineFirst(entries, items) ==
  FoldLeft(LAMBDA es, item :
             LET i == IndexById(es, item.id)
             IN  IF i = 0 \/ item # items[1] THEN es
                 ELSE [es EXCEPT ![i].sid = item.sid],
           entries, items)

\* An item whose buddy is unknown is skipped.
UpdateOnline(entries, items) ==
  FoldLeft(LAMBDA es, item :
             LET i == IndexById(es, item.id)
             IN  IF i = 0 THEN es ELSE [es EXCEPT ![i].sid = item.sid],
           entries, items)

UpdateGames(entries, items, isFirst) ==
  FoldLeft(LAMBDA es, item :
             LET i == IndexBySid(es, item.sid)
             IN  IF i = 0 THEN es
                 ELSE IF isFirst THEN [es EXCEPT ![i].game = item.game]
                 ELSE [es EXCEPT ![i].game2 = item.game],
           entries, items)

\* Without the test for the end of the vector.
RemoveByIdUnchecked(entries, id) ==
  LET i == IndexById(entries, id)
  IN  IF i = 0 THEN (IF entries = <<>> THEN entries ELSE Front(entries))
      ELSE RemoveAt(entries, i)

RemoveById(entries, id) ==
  LET i == IndexById(entries, id)
  IN  IF i = 0 THEN entries ELSE RemoveAt(entries, i)

\* The first unknown session id ends the whole packet.
Known(entries, items) ==
  LET stranger == SelectInSeq(items, LAMBDA item : IndexBySid(entries, item.sid) = 0)
  IN  IF stranger = 0 THEN items ELSE SubSeq(items, 1, stranger - 1)

UpdateStatus(entries, items) ==
  FoldLeft(LAMBDA es, item : [es EXCEPT ![IndexBySid(es, item.sid)].statusmsg = item.msg],
           entries, Known(entries, items))

UpdateNick(entries, item) ==
  LET i == IndexById(entries, item.id)
  IN  IF i = 0 THEN entries ELSE [entries EXCEPT ![i].nick = item.nick]

\* BuddyList::receivedPacket.  The two games cases have no break: they run on
\* into the removal with a user id that is some other word of the packet.
Results(entries, packet) ==
  CASE packet.kind = "names"   -> {InitEntries(entries, packet.items)}
    [] packet.kind = "online"  -> {UpdateOnline(entries, packet.items)}
    [] packet.kind = "games"   ->
         {RemoveById(UpdateGames(entries, packet.items, TRUE), word) : word \in HeapWords}
    [] packet.kind = "games2"  ->
         {RemoveById(UpdateGames(entries, packet.items, FALSE), word) : word \in HeapWords}
    [] packet.kind = "removed" -> {RemoveById(entries, packet.id)}
    [] packet.kind = "status"  -> {UpdateStatus(entries, packet.items)}
    [] packet.kind = "nick"    -> {UpdateNick(entries, packet)}
    [] OTHER                   -> {entries}
=============================================================================
