---------------------------- MODULE PacketStream ----------------------------
(***************************************************************************)
(* The TCP connection from the XFire server, outside the repository: the   *)
(* server writes whole packets, a header of HeaderSize bytes and a body    *)
(* whose size the header gives; they arrive in pieces of any size, and the *)
(* connection may end anywhere, in the middle of a packet too.             *)
(***************************************************************************)
EXTENDS Naturals, Sequences, SequencesExt

CONSTANTS
  HeaderSize,  \* bytes of a header: 5 in the code
  BodySizes,   \* body sizes the server uses
  MaxPackets   \* bound: packets written

ASSUME StreamAssumption ==
  /\ HeaderSize \in Nat \ {0}
  /\ BodySizes \subseteq Nat
  /\ MaxPackets \in Nat

VARIABLES
  sent,   \* body sizes of the packets the server has written
  wire,   \* bytes written and not arrived
  inbox,  \* bytes arrived and not read
  ended   \* no byte will be written any more

streamVars == <<sent, wire, inbox, ended>>

\* A byte is a packet's number and a place in that packet.
Bytes(n, size) == [k \in 1..(HeaderSize + size) |-> <<n, k>>]

StreamInit == sent = <<>> /\ wire = <<>> /\ inbox = <<>> /\ ended = FALSE

ServerSend(size) ==
  /\ ~ended /\ Len(sent) < MaxPackets
  /\ sent' = Append(sent, size)
  /\ wire' = wire \o Bytes(Len(sent'), size)
  /\ UNCHANGED <<inbox, ended>>

Arrive(k) ==
  /\ inbox' = inbox \o SubSeq(wire, 1, k)
  /\ wire' = SubSeq(wire, k + 1, Len(wire))
  /\ UNCHANGED <<sent, ended>>

\* The server goes away; what it had not got rid of is lost.
HangUp(k) ==
  /\ ~ended
  /\ ended' = TRUE
  /\ wire' = SubSeq(wire, 1, k)
  /\ UNCHANGED <<sent, inbox>>

StreamNext ==
  \/ \E size \in BodySizes : ServerSend(size)
  \/ \E k \in 1..Len(wire) : Arrive(k)
  \/ \E k \in 0..Len(wire) : HangUp(k)

\* recv and read return 0 from now on.
AtEnd == ended /\ wire = <<>> /\ inbox = <<>>

\* One of them, asked for n bytes, takes no more than there are.
Shorter(m, n) == IF m < n THEN m ELSE n
Read(n) == SubSeq(inbox, 1, Shorter(n, Len(inbox)))
Consume(n) ==
  /\ inbox' = SubSeq(inbox, Shorter(n, Len(inbox)) + 1, Len(inbox))
  /\ UNCHANGED <<sent, wire, ended>>

\* These bytes are a header as the server wrote it, of packet number HeaderOf.
IsHeader(bytes) ==
  /\ Len(bytes) = HeaderSize
  /\ \A k \in 1..HeaderSize : bytes[k] = <<bytes[1][1], k>>

HeaderOf(bytes) == bytes[1][1]

\* These bytes are the whole body of packet n.
IsBody(bytes, n) ==
  bytes = [k \in 1..sent[n] |-> <<n, HeaderSize + k>>]
=============================================================================
