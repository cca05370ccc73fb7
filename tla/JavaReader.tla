----------------------------- MODULE JavaReader -----------------------------
(***************************************************************************)
(* The Java library's PacketReader::run and XfireRecvPacket::recvPacket:   *)
(* one InputStream.read for the header and one for the body, which return  *)
(* as soon as anything has arrived.                                        *)
(***************************************************************************)
EXTENDS ReadThread

VARIABLES
  need,     \* the body length the header gave
  short     \* ghost: some body read returned too few bytes

javaVars == <<streamVars, reader, need, current, fired, short>>

JavaTypeOK ==
  /\ sent \in Seq(BodySizes)
  /\ reader \in {"header", "body", "ended"}
  /\ need \in BodySizes
  /\ current \in 0..Len(sent)
  /\ \A i \in 1..Len(fired) : fired[i] \in [packet : 0..Len(sent), whole : BOOLEAN]
  /\ short \in BOOLEAN

JavaInit ==
  /\ StreamInit
  /\ reader = "header" /\ need \in BodySizes /\ current = 0 /\ fired = <<>>
  /\ short = FALSE

\* InputStream.read of n bytes returns at once for n = 0, and -1 at the end.
CanRead(n) == n = 0 \/ inbox # <<>> \/ AtEnd

\* Taken for an error of one packet, like the exceptions of the parsers.
ReadShortHeaderForgiven ==
  /\ reader = "header" /\ CanRead(HeaderSize)
  /\ Len(inbox) < HeaderSize
  /\ Consume(HeaderSize)
  /\ UNCHANGED <<reader, need, current, fired, short>>

\* Fewer than five bytes: the IOException ends the loop.
ReadShortHeader ==
  /\ reader = "header" /\ CanRead(HeaderSize)
  /\ Len(inbox) < HeaderSize
  /\ Consume(HeaderSize)
  /\ reader' = "ended"
  /\ UNCHANGED <<need, current, fired, short>>

ReadHeader ==
  /\ reader = "header" /\ CanRead(HeaderSize)
  /\ IsHeader(Read(HeaderSize))
  /\ Consume(HeaderSize)
  /\ reader' = "body"
  /\ current' = HeaderOf(inbox)
  /\ need' = sent[current']
  /\ UNCHANGED <<fired, short>>

\* Five bytes from the middle of a packet: the length is any, and one under
\* five is a NegativeArraySizeException, which run catches and goes on.
ReadGarbageHeader ==
  /\ reader = "header" /\ CanRead(HeaderSize)
  /\ Len(inbox) >= HeaderSize /\ ~IsHeader(Read(HeaderSize))
  /\ Consume(HeaderSize)
  /\ \/ reader' = "body" /\ current' = 0 /\ need' \in BodySizes
     \/ UNCHANGED <<reader, current, need>>
  /\ UNCHANGED <<fired, short>>

WholeBody == current # 0 /\ IsBody(Read(need), current)

\* A packet of which no byte was read is no packet, as in the C++ library.
ReadBodyOfSome ==
  /\ reader = "body" /\ CanRead(need)
  /\ Consume(need)
  /\ fired' = IF Len(Read(need)) < 1 THEN fired
              ELSE Append(fired, [packet |-> current, whole |-> WholeBody])
  /\ short' = (short \/ Len(inbox) < need)
  /\ reader' = "header" \/ (~WholeBody /\ reader' = "ended")
  /\ UNCHANGED <<need, current>>

\* What is missing of the body stays zero; that is logged, and the packet fired.
\* A listener that misses an attribute in it throws past run's catch clauses.
ReadBody ==
  /\ reader = "body" /\ CanRead(need)
  /\ Consume(need)
  /\ fired' = Append(fired, [packet |-> current, whole |-> WholeBody])
  /\ short' = (short \/ Len(inbox) < need)
  /\ reader' = "header" \/ (~WholeBody /\ reader' = "ended")
  /\ UNCHANGED <<need, current>>

Reads == ReadShortHeader \/ ReadHeader \/ ReadGarbageHeader \/ ReadBody

JavaNext == Reads \/ (StreamNext /\ UNCHANGED <<reader, need, current, fired, short>>)

\* The reader thread runs, and what was written arrives.
JavaFairness ==
  /\ WF_javaVars(Reads)
  /\ WF_javaVars((\E k \in 1..Len(wire) : Arrive(k))
               /\ UNCHANGED <<reader, need, current, fired, short>>)

JavaSpec == JavaInit /\ [][JavaNext]_javaVars /\ JavaFairness
-----------------------------------------------------------------------------
(* Properties *)

(* Until some body read comes up short, the listeners are given the server's *)
(* packets, those without a body included, whole, once each and in order.    *)
WholeUntilShort ==
  ~short => fired = [i \in 1..Len(fired) |-> [packet |-> i, whole |-> TRUE]]

(* However the bytes were cut and the reader lost its place, the end of the  *)
(* connection ends its loop.                                                 *)
LoopEnds == ended ~> reader = "ended"

(* XfireRecvPacket.java:65 says of recvPacket: "Reads from the input stream  *)
(* a packet. Blocks until the packet is finished."                           *)
BlocksUntilFinished == \A i \in 1..Len(fired) : ended \/ fired[i].whole
=============================================================================
