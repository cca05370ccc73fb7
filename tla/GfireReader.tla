---------------------------- MODULE GfireReader ----------------------------
(***************************************************************************)
(* gfire's xfire_packet_handler, which glib's main loop calls whenever the *)
(* socket is readable (its end included), for one account that logs in and *)
(* out, beside another account whose packets are only its own.  What has   *)
(* been read of a packet is kept in three static variables between two     *)
(* calls, between two connections, and shared by the accounts.  The socket *)
(* is blocking (gaim's proxy code, external): a read waits for a first     *)
(* byte.                                                                   *)
(***************************************************************************)
EXTENDS PacketStream

CONSTANTS
  MaxLogins,   \* bound: connections
  MaxForeign   \* bound: packets of the other account that arrive in pieces

VARIABLES
  state,        \* "offline"; "online": the input callback is installed;
                \* "body": inside it, blocked in the second read;
                \* "crashed": memcpy was given a length of -1
  header,       \* the header read by the call that is in the second read
  len,          \* the size of the body it announces
  temp_length,  \* bytes of the packet still missing
  temp_buffer,  \* the bytes of it there are; temp_buffer_index is its length
  handled,      \* the packets the switch was given
  first,        \* packets written before the present connection
  logins,       \* connections so far
  foreign,      \* such packets so far
  stale         \* ghost: bytes of two connections have met in the statics

gfireVars == <<streamVars, state, header, len, temp_length, temp_buffer, handled, first, logins,
          foreign, stale>>

\* The bytes of the other account bear the number 0.
IsForeign(bytes) == bytes # <<>> /\ bytes[1][1] = 0

GfireTypeOK ==
  /\ sent \in Seq(BodySizes)
  /\ state \in {"offline", "online", "body", "crashed"}
  /\ state = "body" => Len(header) = HeaderSize /\ len \in BodySizes
  /\ temp_length \in Nat
  /\ temp_length > 0 => Len(temp_buffer) >= HeaderSize
  /\ first \in 0..Len(sent)
  /\ logins \in 0..MaxLogins
  /\ foreign \in 0..MaxForeign
  /\ stale \in BOOLEAN

GfireInit ==
  /\ StreamInit
  /\ state = "offline" /\ header = <<>> /\ len = 0
  /\ temp_length = 0 /\ temp_buffer = <<>>
  /\ handled = <<>> /\ first = 0 /\ logins = 0 /\ foreign = 0 /\ stale = FALSE
-----------------------------------------------------------------------------
\* read: at the end of the connection 0, or -1 if it was reset.
Readable == inbox # <<>> \/ AtEnd

\* The switch on the packet type, with the bytes it has in header and packet.
Dispatch(bytes) ==
  handled' = Append(handled,
    [ packet |-> bytes[1][1],
      whole  |-> /\ ~IsForeign(bytes)
                 /\ IsHeader(SubSeq(bytes, 1, HeaderSize))
                 /\ IsBody(SubSeq(bytes, HeaderSize + 1, Len(bytes)), bytes[1][1]) ])

\* The connection begins with nothing read or written; the statics are as the
\* last one left them.
Login ==
  /\ state = "offline" /\ logins < MaxLogins
  /\ state' = "online"
  /\ wire' = <<>> /\ inbox' = <<>> /\ ended' = FALSE
  /\ first' = Len(sent)
  /\ logins' = logins + 1
  /\ stale' = (stale \/ (temp_length > 0 /\ ~IsForeign(temp_buffer)))
  /\ handled' = <<>>
  /\ UNCHANGED <<sent, header, len, temp_length, temp_buffer, foreign>>

\* The user, or gaim, closes the connection between two calls.
Close ==
  /\ state = "online"
  /\ state' = "offline"
  /\ UNCHANGED <<streamVars, header, len, temp_length, temp_buffer, handled, first, logins, foreign, stale>>

\* A call that goes on with the packet left by the last one.
ReadMore ==
  /\ state = "online" /\ temp_length > 0 /\ Readable
  /\ Consume(temp_length)
  /\ temp_length' = temp_length - Len(Read(temp_length))
  /\ IF temp_length' = 0
       THEN temp_buffer' = <<>> /\ Dispatch(temp_buffer \o Read(temp_length))
       ELSE temp_buffer' = temp_buffer \o Read(temp_length) /\ UNCHANGED handled
  /\ stale' = (stale \/ IsForeign(temp_buffer))
  /\ UNCHANGED <<state, header, len, first, logins, foreign>>

\* The length in a header; where the bytes are not one, whatever they say.
Announced(bytes) ==
  IF IsHeader(bytes) THEN {sent[HeaderOf(bytes)]} ELSE BodySizes

\* Without closing.
BeginPacketForgiving ==
  /\ state = "online" /\ temp_length = 0 /\ Readable
  /\ Consume(HeaderSize)
  /\ IF Len(inbox) < HeaderSize
       THEN UNCHANGED <<state, header, len>>
       ELSE /\ state' = "body" /\ header' = Read(HeaderSize)
            /\ len' \in Announced(Read(HeaderSize))
  /\ UNCHANGED <<temp_length, temp_buffer, handled, first, logins, foreign, stale>>

\* A call that begins a packet; short of a header the connection is given up.
BeginPacket ==
  /\ state = "online" /\ temp_length = 0 /\ Readable
  /\ Consume(HeaderSize)
  /\ IF Len(inbox) < HeaderSize
       THEN state' = "offline" /\ UNCHANGED <<header, len>>
       ELSE /\ state' = "body" /\ header' = Read(HeaderSize)
            /\ len' \in Announced(Read(HeaderSize))
  /\ UNCHANGED <<temp_length, temp_buffer, handled, first, logins, foreign, stale>>

\* Without keeping the header.
ReadRestAlone ==
  /\ state = "body" /\ (Readable \/ len = 0)
  /\ Consume(len)
  /\ state' = "online"
  /\ IF Len(Read(len)) # len
       THEN /\ temp_length' = len - Len(Read(len))
            /\ temp_buffer' = Read(len)
            /\ UNCHANGED handled
       ELSE Dispatch(header \o Read(len)) /\ UNCHANGED <<temp_length, temp_buffer>>
  /\ UNCHANGED <<header, len, first, logins, foreign, stale>>

\* Counting what was read as what is missing.
ReadRestMiscounting ==
  /\ state = "body" /\ (Readable \/ len = 0)
  /\ Consume(len)
  /\ state' = "online"
  /\ IF Len(Read(len)) # len
       THEN /\ temp_length' = Len(Read(len))
            /\ temp_buffer' = header \o Read(len)
            /\ UNCHANGED handled
       ELSE Dispatch(header \o Read(len)) /\ UNCHANGED <<temp_length, temp_buffer>>
  /\ UNCHANGED <<header, len, first, logins, foreign, stale>>

\* The second read of that call: what is missing of the body is for later calls.
ReadRest ==
  /\ state = "body" /\ (Readable \/ len = 0)
  /\ Consume(len)
  /\ state' = "online"
  /\ IF Len(Read(len)) # len
       THEN /\ temp_length' = len - Len(Read(len))
            /\ temp_buffer' = header \o Read(len)
            /\ UNCHANGED handled
       ELSE Dispatch(header \o Read(len)) /\ UNCHANGED <<temp_length, temp_buffer>>
  /\ UNCHANGED <<header, len, first, logins, foreign, stale>>

\* The connection was reset inside a packet: read returns -1, which is used as
\* a length.
ReadFails ==
  /\ AtEnd
  /\ \/ state = "body" /\ len > 0
     \/ state = "online" /\ temp_length > 0
  /\ state' = "crashed"
  /\ UNCHANGED <<streamVars, header, len, temp_length, temp_buffer, handled, first, logins, foreign, stale>>

\* A call for the other account that leaves its packet incomplete.
OtherBegins(size, k) ==
  /\ state \in {"offline", "online"} /\ temp_length = 0 /\ foreign < MaxForeign
  /\ temp_buffer' = [i \in 1..(HeaderSize + k) |-> <<0, i>>]
  /\ temp_length' = size - k
  /\ foreign' = foreign + 1
  /\ UNCHANGED <<streamVars, state, header, len, handled, first, logins, stale>>

\* A call for the other account that goes on with the packet left by the last
\* call, whosever it is.
OtherReadsMore(k) ==
  /\ state \in {"offline", "online"} /\ temp_length > 0
  /\ temp_length' = temp_length - k
  /\ temp_buffer' = IF temp_length' = 0 THEN <<>>
                    ELSE temp_buffer \o [i \in 1..k |-> <<0, Len(temp_buffer) + i>>]
  /\ stale' = (stale \/ ~IsForeign(temp_buffer))
  /\ foreign' = IF IsForeign(temp_buffer) THEN foreign ELSE foreign + 1
  /\ foreign' <= MaxForeign
  /\ UNCHANGED <<streamVars, state, header, len, handled, first, logins>>

OtherAccount ==
  \/ \E size \in BodySizes : \E k \in 0..(size - 1) : OtherBegins(size, k)
  \/ \E k \in 1..temp_length : OtherReadsMore(k)

Callback == ReadMore \/ BeginPacket \/ ReadRest

Stream ==
  /\ state \in {"online", "body"}
  /\ StreamNext
  /\ UNCHANGED <<state, header, len, temp_length, temp_buffer, handled, first, logins, foreign, stale>>

GfireNext == Login \/ Close \/ Callback \/ ReadFails \/ OtherAccount \/ Stream

\* glib calls back while the socket is readable, and what was written arrives.
GfireFairness ==
  /\ WF_gfireVars(Callback)
  /\ WF_gfireVars(Stream /\ \E k \in 1..Len(wire) : inbox' = inbox \o SubSeq(wire, 1, k))

GfireSpec == GfireInit /\ [][GfireNext]_gfireVars /\ GfireFairness
-----------------------------------------------------------------------------
(* Properties *)

(* The switch is given the packets of the present connection, whole, once    *)
(* each and in order, however the bodies were cut, unless a connection was   *)
(* closed inside a packet, whose statics swallow the beginning of the next,  *)
(* or a call for one account met the rest of a packet of the other.          *)
HandledInOrder ==
  ~stale =>
    handled = [i \in 1..Len(handled) |-> [packet |-> first + i, whole |-> TRUE]]

(* What is kept and what is missing always make up one packet, the one the   *)
(* kept header announces, until bytes of two connections meet.               *)
BufferAccounts ==
  ~stale /\ temp_length > 0 /\ ~IsForeign(temp_buffer) =>
    /\ IsHeader(SubSeq(temp_buffer, 1, HeaderSize))
    /\ Len(temp_buffer) + temp_length = HeaderSize + sent[HeaderOf(temp_buffer)]

(* A connection that ends between two packets, or in a header, is noticed    *)
(* and closed, unless a packet of the other account is pending by then.      *)
EndBetweenPacketsNoticed ==
  (state = "online" /\ AtEnd /\ temp_length = 0)
    ~> (state = "offline" \/ IsForeign(temp_buffer))

(* gfire/ChangeLog:20 (0.5.7) says "The evil 100% bug is gone! :-)": the     *)
(* main loop does not call back for ever on a connection that has ended.     *)
EndNoticed == (state = "online" /\ AtEnd) ~> state # "online"
=============================================================================
