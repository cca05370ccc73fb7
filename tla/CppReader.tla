----------------------------- MODULE CppReader -----------------------------
(***************************************************************************)
(* xfirelib's read thread: PacketReader::run and XFirePacket::recvPacket   *)
(* over a blocking socket whose recv waits for all the bytes (MSG_WAITALL) *)
(* or the end of the connection.                                           *)
(***************************************************************************)
EXTENDS ReadThread

cppVars == <<streamVars, reader, current, fired>>

CppTypeOK ==
  /\ sent \in Seq(BodySizes)
  /\ reader \in {"header", "body", "ended"}
  /\ current \in 0..Len(sent)
  /\ reader = "body" => current > 0
  /\ \A i \in 1..Len(fired) : fired[i] \in [packet : 1..Len(sent), whole : BOOLEAN]

CppInit ==
  /\ StreamInit
  /\ reader = "header" /\ current = 0 /\ fired = <<>>

\* Without MSG_WAITALL: whatever has arrived.
CanRecvAny(n) == n = 0 \/ inbox # <<>> \/ AtEnd

\* Socket::recv of n bytes can return, and returns RecvSize(n) of them.
CanRecv(n) == Len(inbox) >= n \/ (ended /\ wire = <<>>)
RecvSize(n) == Shorter(n, Len(inbox))

\* Without the exception.
RecvHeaderForgiving ==
  /\ reader = "header"
  /\ CanRecv(HeaderSize)
  /\ Consume(HeaderSize)
  /\ IF IsHeader(Read(HeaderSize))
       THEN reader' = "body" /\ current' = HeaderOf(inbox)
       ELSE UNCHANGED <<reader, current>>
  /\ UNCHANGED fired

\* Fewer than five bytes: the exception ends the thread.
RecvHeader ==
  /\ reader = "header"
  /\ CanRecv(HeaderSize)
  /\ Consume(HeaderSize)
  /\ IF IsHeader(Read(HeaderSize))
       THEN reader' = "body" /\ current' = HeaderOf(inbox)
       ELSE reader' = "ended" /\ UNCHANGED current
  /\ UNCHANGED fired

\* A body of one byte is taken for none.
RecvBodyOfTwo ==
  /\ reader = "body"
  /\ CanRecv(sent[current])
  /\ Consume(sent[current])
  /\ reader' = "header"
  /\ fired' = IF RecvSize(sent[current]) <= 1 THEN fired
              ELSE Append(fired, [packet |-> current,
                                  whole  |-> IsBody(Read(sent[current]), current)])
  /\ UNCHANGED current

\* Nothing read, as of a packet without a body: no content, no listener.
\* Otherwise the content is parsed and fired, however much of it was read.
RecvBody ==
  /\ reader = "body"
  /\ CanRecv(sent[current])
  /\ Consume(sent[current])
  /\ reader' = "header"
  /\ fired' = IF RecvSize(sent[current]) < 1 THEN fired
              ELSE Append(fired, [packet |-> current,
                                  whole  |-> IsBody(Read(sent[current]), current)])
  /\ UNCHANGED current

CppNext == RecvHeader \/ RecvBody \/ (StreamNext /\ UNCHANGED <<reader, current, fired>>)

\* The thread runs, and what was written arrives.
CppFairness ==
  /\ WF_cppVars(RecvHeader \/ RecvBody)
  /\ WF_cppVars((\E k \in 1..Len(wire) : Arrive(k)) /\ UNCHANGED <<reader, current, fired>>)

CppSpec == CppInit /\ [][CppNext]_cppVars /\ CppFairness
-----------------------------------------------------------------------------
(* Properties *)

\* The packets recvPacket makes a content of, and what was fired whole.
WithBody == {n \in 1..Len(sent) : sent[n] > 0}
Whole == {i \in 1..Len(fired) : fired[i].whole}

(* The listeners are given the packets that have a body, in order and once   *)
(* each, none left out; all of them whole, but for the last one when the     *)
(* connection ended inside it (recvPacket fires what it has read).           *)
InOrderAndWhole ==
  /\ \A i, j \in 1..Len(fired) : i < j => fired[i].packet < fired[j].packet
  /\ fired # <<>> =>
       {fired[i].packet : i \in 1..Len(fired)} = {n \in WithBody : n <= fired[Len(fired)].packet}
  /\ \A i \in 1..Len(fired) : fired[i].whole \/ (ended /\ i = Len(fired))

(* Between two packets the reader stands at the first byte of one: it never  *)
(* loses its place, whatever the sizes of the pieces and of the packets.     *)
KeepsItsPlace ==
  reader = "header" /\ inbox # <<>> => inbox[1][2] = 1

Channel == INSTANCE PacketChannel WITH
  written <- Cardinality(WithBody),
  handled <- Cardinality(Whole),
  broken <- ended,
  damaged <- \E i \in 1..Len(fired) : ~fired[i].whole

(* The read thread implements PacketChannel over the packets with a body:    *)
(* every packet the server writes is fired unless the connection ends, and   *)
(* nothing is fired after a damaged one.                                     *)
ImplementsChannel == Channel!ChannelSpec

(* Once the connection has ended the thread returns: it neither spins nor    *)
(* waits for a packet that will never be complete.                           *)
ThreadReturns == (ended ~> reader = "ended")
=============================================================================
