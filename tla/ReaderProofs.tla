---------------------------- MODULE ReaderProofs ----------------------------
(***************************************************************************)
(* The three packet readers, for any header size, body sizes, packets and  *)
(* cuts.  xfirelib's keeps its place in the stream, gives the packets in   *)
(* order and whole, and takes only steps that PacketChannel allows; the    *)
(* Java library's does as long as no read of a body comes up short; what   *)
(* gfire handles is what the server sent until its static variables mix    *)
(* two connections.                                                        *)
(***************************************************************************)
EXTENDS CppReader, JavaReader, GfireReader, SequenceFacts, FiniteSetTheorems, TLAPS

LEMMA HeaderSizeIsPositive == HeaderSize \in Nat \ {0}
BY StreamAssumption

LEMMA SizesAreNumbers ==
  ASSUME sent \in Seq(BodySizes)
  PROVE  sent \in Seq(Nat) /\ Len(sent) \in Nat /\ \A n \in 1..Len(sent) : sent[n] \in Nat
<1>1. sent \in Seq(Nat)
  BY StreamAssumption, SeqMonotonic
<1>. QED BY <1>1, LenProperties, ElementOfSeq

-----------------------------------------------------------------------------
(* xfirelib's reader *)

\* Where the next byte to arrive or to be read belongs.
CppPlace ==
  IF reader = "body" /\ sent[current] > 0 THEN <<current, HeaderSize + 1>>
                                          ELSE <<current + 1, 1>>

CppTyped ==
  /\ sent \in Seq(BodySizes)
  /\ ended \in BOOLEAN
  /\ reader \in {"header", "body", "ended"}
  /\ current \in 0..Len(sent)
  /\ reader = "body" => current > 0
  /\ fired \in Seq([packet : 1..Len(sent), whole : BOOLEAN])

\* While the thread runs, what is under way continues the stream at its place.
CppStreamInPlace ==
  /\ reader # "ended" => Pieces(inbox, wire, CppPlace, ~ended, HeaderSize, sent)
  /\ reader = "ended" => ended

\* The packets with a body before the one in hand have been fired, in order.
FiredInOrder ==
  /\ \A i, j \in 1..Len(fired) : i < j => fired[i].packet < fired[j].packet
  /\ \A i \in 1..Len(fired) :
       /\ fired[i].packet \in WithBody
       /\ fired[i].packet <= current
       /\ reader = "body" => fired[i].packet < current
  /\ \A n \in WithBody : n < current => \E i \in 1..Len(fired) : fired[i].packet = n

\* A packet is fired damaged when nothing can follow it.
DamagedIsLast ==
  \A i \in 1..Len(fired) : ~fired[i].whole =>
    ended /\ i = Len(fired) /\ reader # "body" /\ (reader = "header" => inbox = <<>> /\ wire = <<>>)

\* Nor is the last one read left out, unless all of its body was lost.
LastNotSkipped ==
  reader = "header" /\ current \in WithBody =>
    \/ \E i \in 1..Len(fired) : fired[i].packet = current
    \/ ended /\ inbox = <<>> /\ wire = <<>>

CppIInv == CppTyped /\ CppStreamInPlace /\ FiredInOrder /\ LastNotSkipped /\ DamagedIsLast
-----------------------------------------------------------------------------
LEMMA FiredIsSeq ==
  ASSUME CppTyped
  PROVE  Len(fired) \in Nat /\ \A i \in 1..Len(fired) : /\ fired[i].packet \in 1..Len(sent)
                                                        /\ fired[i].whole \in BOOLEAN
<1> DEFINE R == [packet : 1..Len(sent), whole : BOOLEAN]
<1>1. fired \in Seq(R)
  BY DEF CppTyped
<1>2. \A r \in R : r.packet \in 1..Len(sent) /\ r.whole \in BOOLEAN
  OBVIOUS
<1>. HIDE DEF R
<1>3. Len(fired) \in Nat /\ \A i \in 1..Len(fired) : fired[i] \in R
  BY <1>1, LenProperties, ElementOfSeq
<1>. QED BY <1>2, <1>3

\* The place is a packet's number and a place in that packet.
LEMMA PlaceIsPair ==
  ASSUME CppTyped
  PROVE  CppPlace \in Nat \X Nat
<1>1. current \in Nat /\ HeaderSize \in Nat
  BY HeaderSizeIsPositive, SizesAreNumbers DEF CppTyped
<1>. QED BY <1>1 DEF CppPlace
-----------------------------------------------------------------------------
LEMMA CppInitInv ==
  ASSUME CppInit
  PROVE  CppIInv
<1>1. /\ sent = <<>> /\ wire = <<>> /\ inbox = <<>> /\ ended = FALSE
      /\ reader = "header" /\ current = 0 /\ fired = <<>>
  BY DEF CppInit, StreamInit
<1>2. Len(fired) = 0 /\ Len(sent) = 0 /\ 1..Len(fired) = {} /\ 1..Len(sent) = {}
  BY <1>1, EmptySeq
<1>3. CppTyped
  <2> DEFINE R == [packet : 1..Len(sent), whole : BOOLEAN]
  <2>. HIDE DEF R
  <2>1. <<>> \in Seq(R) /\ <<>> \in Seq(BodySizes)
    BY EmptySeq
  <2>2. current \in 0..Len(sent)
    BY <1>1, <1>2
  <2>. QED BY <1>1, <2>1, <2>2 DEF CppTyped, R
<1>4. CppStreamInPlace
  <2>1. CppPlace = <<1, 1>>
    BY <1>1 DEF CppPlace
  <2>. QED BY <1>1, <2>1, PiecesAtFirst DEF CppStreamInPlace
<1>5. FiredInOrder /\ LastNotSkipped /\ DamagedIsLast
  BY <1>2 DEF FiredInOrder, LastNotSkipped, DamagedIsLast, WithBody
<1>. QED BY <1>3, <1>4, <1>5 DEF CppIInv

\* The server writes a packet.
LEMMA CppSendStep ==
  ASSUME CppIInv, NEW size \in BodySizes, ServerSend(size), UNCHANGED <<reader, current, fired>>
  PROVE  CppIInv'
<1>1. /\ CppTyped /\ CppStreamInPlace /\ FiredInOrder /\ LastNotSkipped /\ DamagedIsLast
      /\ ~ended /\ sent' = Append(sent, size) /\ ended' = ended /\ inbox' = inbox
      /\ wire' = wire \o Bytes(Len(sent'), size)
      /\ reader' = reader /\ current' = current /\ fired' = fired
  BY DEF CppIInv, ServerSend
<1>2. sent \in Seq(BodySizes) /\ current \in 0..Len(sent) /\ ended = FALSE /\ ended \in BOOLEAN
  BY <1>1 DEF CppTyped
<1>3. /\ sent \in Seq(Nat) /\ Len(sent) \in Nat /\ size \in Nat
      /\ \A n \in 1..Len(sent) : sent[n] \in Nat
  BY <1>2, SizesAreNumbers, StreamAssumption
<1>4. /\ sent' \in Seq(BodySizes) /\ Len(sent') = Len(sent) + 1
      /\ \A n \in 1..Len(sent) : sent'[n] = sent[n]
      /\ sent'[Len(sent) + 1] = size
  BY <1>1, <1>2, AppendProperties
<1>5. 1..Len(sent) \subseteq 1..Len(sent') /\ 0..Len(sent) \subseteq 0..Len(sent')
  BY <1>3, <1>4
<1>6. CppTyped'
  <2> DEFINE R(n) == [packet : 1..n, whole : BOOLEAN]
  <2>1. fired \in Seq(R(Len(sent)))
    BY <1>1 DEF CppTyped
  <2>2. R(Len(sent)) \subseteq R(Len(sent'))
    BY <1>5
  <2>. HIDE DEF R
  <2>3. fired' \in Seq(R(Len(sent')))
    BY <1>1, <2>1, <2>2, SeqMonotonic
  <2>4. reader \in {"header", "body", "ended"} /\ (reader = "body" => current > 0)
    BY <1>1 DEF CppTyped
  <2>5. current' \in 0..Len(sent')
    BY <1>1, <1>2, <1>5
  <2>. QED BY <1>1, <1>2, <1>4, <2>3, <2>4, <2>5 DEF CppTyped, R
<1>7. CppStreamInPlace'
  <2>1. reader # "ended"
    BY <1>1, <1>2 DEF CppStreamInPlace
  <2>2. Pieces(inbox, wire, CppPlace, TRUE, HeaderSize, sent)
    BY <1>1, <1>2, <2>1 DEF CppStreamInPlace
  <2>3. Pieces(inbox, wire \o [k \in 1..(HeaderSize + size) |-> <<Len(sent) + 1, k>>], CppPlace, TRUE,
               HeaderSize, Append(sent, size))
    BY <1>3, <2>2, HeaderSizeIsPositive, PiecesWritten
  <2>4. wire' = wire \o [k \in 1..(HeaderSize + size) |-> <<Len(sent) + 1, k>>]
    BY <1>1, <1>4 DEF Bytes
  <2>5. CppPlace' = CppPlace
    <3>1. reader = "body" => sent'[current] = sent[current]
      BY <1>1, <1>2, <1>3, <1>4 DEF CppTyped
    <3>. QED BY <1>1, <3>1 DEF CppPlace
  <2>. QED BY <1>1, <1>2, <2>1, <2>3, <2>4, <2>5 DEF CppStreamInPlace
<1>8. FiredInOrder'
  <2>1. \A n \in 1..Len(sent) : n \in WithBody' <=> n \in WithBody
    BY <1>4, <1>5 DEF WithBody
  <2>2. \A n \in WithBody : n \in WithBody'
    BY <2>1 DEF WithBody
  <2>3. \A n \in WithBody' : n < current => n \in WithBody
    <3>. SUFFICES ASSUME NEW n \in WithBody', n < current PROVE n \in WithBody
      OBVIOUS
    <3>1. n \in 1..Len(sent)
      BY <1>2, <1>3, <1>4 DEF WithBody
    <3>. QED BY <3>1, <2>1
  <2>. QED BY <1>1, <2>2, <2>3 DEF FiredInOrder
<1>9. DamagedIsLast'
  <2>1. \A i \in 1..Len(fired) : fired[i].whole
    BY <1>1 DEF DamagedIsLast
  <2>. QED BY <1>1, <2>1 DEF DamagedIsLast
<1>10. LastNotSkipped'
  <2>1. current \in WithBody' => current \in WithBody
    BY <1>2, <1>3, <1>4 DEF WithBody
  <2>. QED BY <1>1, <2>1 DEF LastNotSkipped
<1>. QED BY <1>6, <1>7, <1>8, <1>9, <1>10 DEF CppIInv

\* Bytes arrive.
LEMMA CppArriveStep ==
  ASSUME CppIInv, NEW k \in 1..Len(wire), Arrive(k), UNCHANGED <<reader, current, fired>>
  PROVE  CppIInv'
<1>1. /\ CppTyped /\ CppStreamInPlace /\ FiredInOrder /\ LastNotSkipped /\ DamagedIsLast
      /\ sent' = sent /\ ended' = ended
      /\ inbox' = inbox \o SubSeq(wire, 1, k) /\ wire' = SubSeq(wire, k + 1, Len(wire))
      /\ reader' = reader /\ current' = current /\ fired' = fired
  BY DEF CppIInv, Arrive
<1>2. CppTyped' /\ CppPlace' = CppPlace
  BY <1>1 DEF CppTyped, CppPlace
<1>3. CppStreamInPlace'
  <2>1. CASE reader # "ended"
    <3>1. Pieces(inbox, wire, CppPlace, ~ended, HeaderSize, sent)
      BY <1>1, <2>1 DEF CppStreamInPlace
    <3>2. Pieces(inbox', wire', CppPlace, ~ended, HeaderSize, sent)
      BY <1>1, <3>1, PiecesArrived
    <3>. QED BY <1>1, <1>2, <2>1, <3>2 DEF CppStreamInPlace
  <2>2. CASE reader = "ended"
    BY <1>1, <2>2 DEF CppStreamInPlace
  <2>. QED BY <2>1, <2>2
<1>4. FiredInOrder'
  BY <1>1 DEF FiredInOrder, WithBody
<1>5. wire # <<>>
  <2>1. wire = <<>> => 1..Len(wire) = {}
    BY EmptySeq
  <2>. QED BY <2>1
<1>6. LastNotSkipped'
  BY <1>1, <1>5 DEF LastNotSkipped, WithBody
<1>7. DamagedIsLast'
  <2>1. reader = "header" => \A i \in 1..Len(fired) : fired[i].whole
    BY <1>1, <1>5 DEF DamagedIsLast
  <2>. QED BY <1>1, <2>1 DEF DamagedIsLast
<1>. QED BY <1>2, <1>3, <1>4, <1>6, <1>7 DEF CppIInv

\* The server goes away.
LEMMA CppHangUpStep ==
  ASSUME CppIInv, NEW k \in 0..Len(wire), HangUp(k), UNCHANGED <<reader, current, fired>>
  PROVE  CppIInv'
<1>1. /\ CppTyped /\ CppStreamInPlace /\ FiredInOrder /\ LastNotSkipped /\ DamagedIsLast
      /\ ~ended /\ sent' = sent /\ ended' = TRUE
      /\ inbox' = inbox /\ wire' = SubSeq(wire, 1, k)
      /\ reader' = reader /\ current' = current /\ fired' = fired
  BY DEF CppIInv, HangUp
<1>2. CppTyped' /\ CppPlace' = CppPlace
  BY <1>1 DEF CppTyped, CppPlace
<1>3. CppStreamInPlace'
  <2>1. reader # "ended"
    BY <1>1 DEF CppStreamInPlace
  <2>2. Pieces(inbox, wire, CppPlace, ~ended, HeaderSize, sent)
    BY <1>1, <2>1 DEF CppStreamInPlace
  <2>3. sent \in Seq(Nat) /\ (~ended) \in BOOLEAN
    BY <1>1, SizesAreNumbers DEF CppTyped
  <2>4. Pieces(inbox, SubSeq(wire, 1, k), CppPlace, FALSE, HeaderSize, sent)
    BY ONLY <2>2, <2>3, k \in 0..Len(wire), HeaderSizeIsPositive, PiecesCut
  <2>. QED BY <1>1, <1>2, <2>1, <2>4 DEF CppStreamInPlace
<1>4. FiredInOrder'
  BY <1>1 DEF FiredInOrder, WithBody
<1>5. DamagedIsLast'
  <2>1. \A i \in 1..Len(fired) : fired[i].whole
    BY <1>1 DEF DamagedIsLast
  <2>. QED BY <1>1, <2>1 DEF DamagedIsLast
<1>6. LastNotSkipped'
  BY <1>1 DEF LastNotSkipped, WithBody
<1>. QED BY <1>2, <1>3, <1>4, <1>5, <1>6 DEF CppIInv
-----------------------------------------------------------------------------
(* The thread's two receives *)

\* recv returns a part of what has arrived; less than asked for is all there
\* will be.
LEMMA RecvFacts ==
  ASSUME inbox \in Seq(StreamByte), NEW n \in Nat, CanRecv(n), Consume(n)
  PROVE  /\ RecvSize(n) \in 0..Len(inbox) /\ RecvSize(n) <= n
         /\ Len(Read(n)) = RecvSize(n)
         /\ RecvSize(n) = 0 => inbox' = inbox
         /\ RecvSize(n) < n => /\ ended /\ wire = <<>>
                               /\ inbox' = <<>>
<1>1. Len(inbox) \in Nat
  BY LenProperties
<1>2. RecvSize(n) = (IF n < Len(inbox) THEN n ELSE Len(inbox))
  BY DEF RecvSize, Shorter
<1>3. RecvSize(n) \in 0..Len(inbox) /\ RecvSize(n) <= n
  BY <1>1, <1>2
<1> DEFINE m == RecvSize(n)
<1>4. Len(Read(n)) = m
  BY <1>3, FrontFacts DEF Read, Shorter, RecvSize
<1>5. inbox' = SubSeq(inbox, m + 1, Len(inbox))
  BY DEF Consume, RecvSize
<1>. HIDE DEF m
<1>6. m = 0 => inbox' = inbox
  BY <1>5, SubSeqFull
<1>7. m < n => m = Len(inbox) /\ Len(inbox) < n
  BY <1>1, <1>2 DEF m
<1>8. m < n => ended /\ wire = <<>>
  BY <1>1, <1>7 DEF CanRecv
<1>9. m < n => inbox' = <<>>
  <2>1. m < n => m + 1 \in Int /\ Len(inbox) \in Int /\ Len(inbox) < m + 1
    BY <1>1, <1>7
  <2>. QED BY <1>5, <2>1, SubSeqEmpty
<1>. QED BY <1>3, <1>4, <1>6, <1>8, <1>9 DEF m

\* A header: a whole one, or the end of the thread at the end of the stream.
LEMMA CppHeaderStep ==
  ASSUME CppIInv, RecvHeader
  PROVE  CppIInv'
<1>1. /\ CppTyped /\ CppStreamInPlace /\ FiredInOrder /\ LastNotSkipped /\ DamagedIsLast
      /\ reader = "header" /\ CanRecv(HeaderSize) /\ Consume(HeaderSize)
      /\ sent' = sent /\ wire' = wire /\ ended' = ended /\ fired' = fired
      /\ inbox' = SubSeq(inbox, RecvSize(HeaderSize) + 1, Len(inbox))
  BY DEF CppIInv, RecvHeader, Consume, RecvSize
<1>2. /\ sent \in Seq(Nat) /\ Len(sent) \in Nat /\ current \in 0..Len(sent) /\ current \in Nat
      /\ (~ended) \in BOOLEAN /\ \A n \in 1..Len(sent) : sent[n] \in Nat
  BY <1>1, SizesAreNumbers DEF CppTyped
<1>3. Pieces(inbox, wire, <<current + 1, 1>>, ~ended, HeaderSize, sent)
  BY <1>1 DEF CppStreamInPlace, CppPlace
<1>4. inbox \in Seq(StreamByte) /\ Len(inbox) \in Nat
  BY <1>3, LenProperties DEF Pieces
<1> DEFINE m == RecvSize(HeaderSize)
<1>5. /\ m \in 0..Len(inbox) /\ m <= HeaderSize /\ Len(Read(HeaderSize)) = m
      /\ m < HeaderSize => ended /\ wire = <<>> /\ inbox' = <<>>
  BY <1>1, <1>4, HeaderSizeIsPositive, RecvFacts
<1>. HIDE DEF m
<1>6. CASE m = HeaderSize
  <2>1. inbox # <<>> /\ m \in 1..Len(inbox)
    <3>1. m \in 1..Len(inbox) /\ Len(inbox) # 0
      BY <1>4, <1>5, <1>6, HeaderSizeIsPositive
    <3>. QED BY <3>1, EmptySeq
  <2>2. inbox[1] = <<current + 1, 1>> /\ current + 1 \in 1..Len(sent)
    BY <1>2, <1>3, <2>1, HeaderSizeIsPositive, PiecesAt
  <2>3. sent[current + 1] \in Nat
    BY <1>2, <2>2
  <2>4. current + 1 \in Nat /\ 1 + m <= HeaderSize + sent[current + 1] + 1
    BY <1>2, <1>6, <2>3, HeaderSizeIsPositive
  <2>5. /\ SubSeq(inbox, 1, m) = [j \in 1..m |-> <<current + 1, 1 + j - 1>>]
        /\ Pieces(SubSeq(inbox, m + 1, Len(inbox)), wire,
                  PlaceAfter(current + 1, 1, m, HeaderSize, sent), ~ended, HeaderSize, sent)
    <3> DEFINE c == current + 1
               k == 1
               open == ~ended
    <3>1. k \in Nat /\ c \in Nat /\ open \in BOOLEAN /\ k + m <= HeaderSize + sent[c] + 1
      BY <1>2, <2>4
    <3>2. Pieces(inbox, wire, <<c, k>>, open, HeaderSize, sent)
      BY <1>3
    <3>. HIDE DEF c, k, open
    <3>3. /\ SubSeq(inbox, 1, m) = [j \in 1..m |-> <<c, k + j - 1>>]
          /\ Pieces(SubSeq(inbox, m + 1, Len(inbox)), wire, PlaceAfter(c, k, m, HeaderSize, sent),
                    open, HeaderSize, sent)
      BY <1>2, <2>1, <3>1, <3>2, HeaderSizeIsPositive, PiecesRead, Zenon
    <3>. QED BY <3>3 DEF c, k, open
  <2>6. IsHeader(Read(HeaderSize))
    <3>1. \A j \in 1..m : Read(HeaderSize)[j] = <<current + 1, j>>
      <4>1. \A j \in 1..m : 1 + j - 1 = j
        BY <1>5
      <4>. QED BY <2>5, <4>1 DEF Read, Shorter, RecvSize, m
    <3>2. 1 \in 1..m
      BY <1>6, HeaderSizeIsPositive
    <3>3. Read(HeaderSize)[1] = <<current + 1, 1>>
      BY <3>1, <3>2
    <3>. QED BY <1>5, <1>6, <3>1, <3>3 DEF IsHeader
  <2>7. reader' = "body" /\ current' = current + 1
    BY <2>2, <2>6 DEF RecvHeader, HeaderOf
  <2>8. CppPlace' = PlaceAfter(current + 1, 1, m, HeaderSize, sent)
    <3>1. CppPlace' = IF sent[current + 1] > 0 THEN <<current + 1, HeaderSize + 1>>
                                            ELSE <<current + 2, 1>>
      <4>1. (current + 1) + 1 = current + 2
        BY <1>2
      <4>. QED BY <1>1, <2>7, <4>1 DEF CppPlace
    <3>2. /\ 1 + m = HeaderSize + 1 /\ (current + 1) + 1 = current + 2
          /\ 1 + m <= HeaderSize + sent[current + 1] <=> sent[current + 1] > 0
      BY <1>2, <1>6, <2>3, HeaderSizeIsPositive
    <3>. QED BY <3>1, <3>2 DEF PlaceAfter
  <2>9. CppStreamInPlace'
    BY <1>1, <2>5, <2>7, <2>8 DEF CppStreamInPlace, m
  <2>10. CppTyped'
    <3>1. current' \in 0..Len(sent) /\ current' > 0
      BY <1>2, <2>2, <2>7
    <3>. QED BY <1>1, <2>7, <3>1 DEF CppTyped
  <2>11. FiredInOrder'
    <3>1. WithBody' = WithBody /\ current < current + 1
      BY <1>1, <1>2 DEF WithBody
    <3>2. \A i \in 1..Len(fired) : fired[i].packet <= current + 1 /\ fired[i].packet < current + 1
      BY <1>1, <1>2, FiredIsSeq DEF FiredInOrder
    <3>3. ASSUME NEW n \in WithBody, n < current + 1
          PROVE  \E i \in 1..Len(fired) : fired[i].packet = n
      <4>1. n \in Nat /\ (n < current \/ n = current)
        BY <1>2, <3>3 DEF WithBody
      <4>2. CASE n < current
        BY <1>1, <4>2 DEF FiredInOrder
      <4>3. CASE n = current
        BY <1>1, <2>1, <3>3, <4>3 DEF LastNotSkipped
      <4>. QED BY <4>1, <4>2, <4>3
    <3>. QED BY <1>1, <2>7, <3>1, <3>2, <3>3 DEF FiredInOrder
  <2>12. DamagedIsLast'
    BY <1>1, <2>1 DEF DamagedIsLast
  <2>13. LastNotSkipped'
    BY <2>7 DEF LastNotSkipped
  <2>. QED BY <2>9, <2>10, <2>11, <2>12, <2>13 DEF CppIInv
<1>7. CASE m # HeaderSize
  <2>1. m < HeaderSize
    BY <1>4, <1>5, <1>7, HeaderSizeIsPositive
  <2>2. ~ IsHeader(Read(HeaderSize))
    BY <1>5, <1>7 DEF IsHeader
  <2>3. reader' = "ended" /\ current' = current
    BY <2>2 DEF RecvHeader
  <2>4. ended'
    BY <1>1, <1>5, <2>1
  <2>5. CppTyped' /\ CppStreamInPlace'
    BY <1>1, <2>3, <2>4 DEF CppTyped, CppStreamInPlace
  <2>6. FiredInOrder' /\ LastNotSkipped' /\ DamagedIsLast'
    BY <1>1, <2>3 DEF FiredInOrder, LastNotSkipped, DamagedIsLast, WithBody
  <2>. QED BY <2>5, <2>6 DEF CppIInv
<1>. QED BY <1>6, <1>7

\* What a body's receive does to the connection.
LEMMA CppBodyReceived ==
  ASSUME CppIInv, RecvBody
  PROVE  /\ sent[current] \in Nat /\ RecvSize(sent[current]) \in Nat
         /\ RecvSize(sent[current]) <= sent[current]
         /\ CppStreamInPlace'
         /\ \/ RecvSize(sent[current]) = sent[current]
            \/ ended /\ wire = <<>> /\ inbox' = <<>>
         /\ RecvSize(sent[current]) = sent[current] /\ sent[current] > 0 =>
              IsBody(Read(sent[current]), current)
<1> DEFINE n == sent[current]
           m == RecvSize(n)
           H == HeaderSize
<1>1. /\ CppTyped /\ CppStreamInPlace
      /\ reader = "body" /\ CanRecv(n) /\ Consume(n) /\ reader' = "header" /\ current' = current
      /\ sent' = sent /\ wire' = wire /\ ended' = ended
      /\ inbox' = SubSeq(inbox, m + 1, Len(inbox))
  BY DEF CppIInv, RecvBody, Consume, RecvSize
<1>2. /\ sent \in Seq(Nat) /\ Len(sent) \in Nat /\ current \in 1..Len(sent) /\ current \in Nat
      /\ (~ended) \in BOOLEAN
  BY <1>1, SizesAreNumbers DEF CppTyped
<1>3. n \in Nat
  BY <1>1, <1>2, SizesAreNumbers DEF CppTyped
<1>4. H \in Nat \ {0}
  BY HeaderSizeIsPositive
<1>5. Pieces(inbox, wire, IF n > 0 THEN <<current, H + 1>> ELSE <<current + 1, 1>>, ~ended, H, sent)
  BY <1>1 DEF CppStreamInPlace, CppPlace
<1>6. inbox \in Seq(StreamByte) /\ Len(inbox) \in Nat
  BY <1>5, LenProperties DEF Pieces
<1>. HIDE DEF n
<1>7. /\ m \in 0..Len(inbox) /\ m <= n
      /\ m = 0 => inbox' = inbox
      /\ m < n => ended /\ wire = <<>> /\ inbox' = <<>>
  BY <1>1, <1>3, <1>6, RecvFacts
<1>. HIDE DEF m, H
<1>8. m \in Nat
  BY <1>6, <1>7
<1>9. CppPlace' = <<current + 1, 1>>
  BY <1>1 DEF CppPlace
<1>10. CASE m < n
  <2>1. Pieces(inbox', wire', CppPlace', ~ended', H, sent')
    <3>1. ended = TRUE
      BY <1>1, <1>7, <1>10 DEF CppTyped
    <3>. QED BY <1>1, <1>7, <1>10, <3>1, PiecesOver
  <2>. QED BY <1>1, <1>3, <1>7, <1>8, <1>10, <2>1 DEF CppStreamInPlace, n, m, H
<1>11. CASE n = 0
  <2>1. m = 0 /\ ~ (n > 0)
    BY <1>3, <1>7, <1>8, <1>11
  <2>2. Pieces(inbox', wire', CppPlace', ~ended', H, sent')
    BY <1>1, <1>5, <1>7, <1>9, <2>1
  <2>. QED BY <1>1, <1>3, <1>7, <1>8, <1>11, <2>1, <2>2 DEF CppStreamInPlace, n, m, H
<1>12. CASE n > 0 /\ m = n
  <2> DEFINE k == H + 1
             open == ~ended
  <2>1. /\ m \in 1..Len(inbox) /\ k \in Nat /\ k + m <= H + n + 1 /\ open \in BOOLEAN
        /\ ~ (k + m <= H + n)
    BY <1>2, <1>3, <1>4, <1>6, <1>7, <1>8, <1>12
  <2>2. Pieces(inbox, wire, <<current, k>>, open, H, sent)
    BY <1>5, <1>12
  <2>. HIDE DEF k, open
  <2>3. /\ SubSeq(inbox, 1, m) = [j \in 1..m |-> <<current, k + j - 1>>]
        /\ Pieces(SubSeq(inbox, m + 1, Len(inbox)), wire, PlaceAfter(current, k, m, H, sent), open, H,
                  sent)
    <3>1. k + m <= H + sent[current] + 1
      BY <2>1 DEF n
    <3>. QED BY <1>2, <1>4, <2>1, <2>2, <3>1, PiecesRead, Zenon
  <2>4. PlaceAfter(current, k, m, H, sent) = <<current + 1, 1>>
    BY <2>1 DEF PlaceAfter, n
  <2>5. CppStreamInPlace'
    BY <1>1, <1>9, <2>3, <2>4 DEF CppStreamInPlace, open, H
  <2>6. IsBody(Read(n), current)
    <3>1. \A j \in 1..n : k + j - 1 = H + j
      BY <1>3, <1>4 DEF k
    <3>2. Read(n) = [j \in 1..n |-> <<current, H + j>>]
      BY <1>12, <2>3, <3>1 DEF Read, Shorter, RecvSize, m
    <3>. QED BY <3>2 DEF IsBody, n, H
  <2>. QED BY <1>3, <1>7, <1>8, <1>12, <2>5, <2>6 DEF n, m
<1>13. m < n \/ n = 0 \/ (n > 0 /\ m = n)
  BY <1>3, <1>7, <1>8
<1>. QED BY <1>10, <1>11, <1>12, <1>13

\* A body: it is fired unless nothing of it was read, and nothing is fired
\* after one that the end of the connection cut.
LEMMA CppBodyStep ==
  ASSUME CppIInv, RecvBody
  PROVE  CppIInv'
<1> DEFINE n == sent[current]
           m == RecvSize(n)
           event == [packet |-> current, whole |-> IsBody(Read(n), current)]
<1>1. /\ CppTyped /\ FiredInOrder /\ DamagedIsLast
      /\ reader = "body" /\ reader' = "header" /\ current' = current
      /\ sent' = sent /\ wire' = wire /\ ended' = ended
      /\ fired' = IF m < 1 THEN fired ELSE Append(fired, event)
  BY DEF CppIInv, RecvBody, Consume
<1>2. /\ n \in Nat /\ m \in Nat /\ m <= n /\ CppStreamInPlace'
      /\ m = n \/ (ended /\ wire = <<>> /\ inbox' = <<>>)
      /\ m = n /\ n > 0 => event.whole
  BY CppBodyReceived
<1>3. /\ Len(sent) \in Nat /\ current \in 1..Len(sent) /\ current \in Nat
      /\ current \in 0..Len(sent) /\ WithBody' = WithBody
  BY <1>1, SizesAreNumbers DEF CppTyped, WithBody
<1>4. \A i \in 1..Len(fired) : fired[i].whole /\ fired[i].packet < current
  BY <1>1 DEF DamagedIsLast, FiredInOrder
<1>5. Len(fired) \in Nat /\ \A i \in 1..Len(fired) : fired[i].packet \in Nat
  BY <1>1, <1>3, FiredIsSeq
<1>6. current \in WithBody <=> n > 0
  BY <1>3 DEF WithBody
<1>7. CASE m < 1
  <2>1. fired' = fired
    BY <1>1, <1>7
  <2>2. CppTyped' /\ FiredInOrder' /\ DamagedIsLast'
    <3>1. \A i \in 1..Len(fired) : fired[i].packet <= current
      BY <1>3, <1>4, <1>5
    <3>. QED BY <1>1, <1>3, <1>4, <2>1, <3>1 DEF CppTyped, FiredInOrder, DamagedIsLast
  <2>3. LastNotSkipped'
    <3>1. n > 0 => m # n
      BY <1>2, <1>7
    <3>. QED BY <1>1, <1>2, <1>3, <1>6, <3>1 DEF LastNotSkipped
  <2>. QED BY <1>2, <2>2, <2>3 DEF CppIInv
<1>8. CASE ~ (m < 1)
  <2> DEFINE R == [packet : 1..Len(sent), whole : BOOLEAN]
  <2>1. n > 0 /\ current \in WithBody
    BY <1>2, <1>6, <1>8
  <2>2. event \in R /\ fired \in Seq(R)
    BY <1>1, <1>3 DEF CppTyped, IsBody
  <2>3. event.packet = current /\ (~event.whole => ended /\ wire = <<>> /\ inbox' = <<>>)
    BY <1>2, <2>1
  <2>. HIDE DEF R, event
  <2>4. fired' = Append(fired, event)
    BY <1>1, <1>8
  <2>5. /\ fired' \in Seq(R) /\ Len(fired') = Len(fired) + 1
        /\ \A i \in 1..Len(fired) : fired'[i] = fired[i]
        /\ fired'[Len(fired) + 1] = event
    BY <2>2, <2>4, AppendProperties
  <2>6. \A i \in 1..Len(fired') : i \in 1..Len(fired) \/ i = Len(fired) + 1
    BY <1>5, <2>5
  <2>7. Len(fired) + 1 \in 1..Len(fired') /\ \A i \in 1..Len(fired) : i \in 1..Len(fired')
    BY <1>5, <2>5
  <2>8. CppTyped'
    BY <1>1, <1>3, <2>5 DEF CppTyped, R
  <2>9. FiredInOrder'
    <3>1. ASSUME NEW i \in 1..Len(fired'), NEW j \in 1..Len(fired'), i < j
          PROVE  fired'[i].packet < fired'[j].packet
      <4>1. i \in 1..Len(fired)
        BY <1>5, <2>5, <3>1
      <4>2. CASE j \in 1..Len(fired)
        BY <1>1, <2>5, <3>1, <4>1, <4>2 DEF FiredInOrder
      <4>3. CASE j = Len(fired) + 1
        BY <1>4, <2>3, <2>5, <4>1, <4>3
      <4>. QED BY <2>6, <4>2, <4>3
    <3>2. ASSUME NEW i \in 1..Len(fired')
          PROVE  fired'[i].packet \in WithBody /\ fired'[i].packet <= current
      <4>1. CASE i \in 1..Len(fired)
        <5>1. fired[i].packet \in WithBody /\ fired[i].packet <= current
          BY <1>1, <4>1 DEF FiredInOrder
        <5>. QED BY <2>5, <4>1, <5>1
      <4>2. CASE i = Len(fired) + 1
        BY <1>3, <2>1, <2>3, <2>5, <4>2
      <4>. QED BY <2>6, <4>1, <4>2
    <3>3. ASSUME NEW p \in WithBody, p < current
          PROVE  \E i \in 1..Len(fired') : fired'[i].packet = p
      <4>1. PICK i \in 1..Len(fired) : fired[i].packet = p
        BY <1>1, <3>3 DEF FiredInOrder
      <4>2. i \in 1..Len(fired') /\ fired'[i].packet = p
        BY <2>5, <2>7, <4>1
      <4>. QED BY <4>2
    <3>. QED BY <1>1, <1>3, <3>1, <3>2, <3>3 DEF FiredInOrder
  <2>10. DamagedIsLast'
    <3>. SUFFICES ASSUME NEW i \in 1..Len(fired'), ~fired'[i].whole
                  PROVE  ended /\ i = Len(fired') /\ inbox' = <<>> /\ wire' = <<>>
      BY <1>1 DEF DamagedIsLast
    <3>1. i = Len(fired) + 1
      BY <1>4, <2>5, <2>6
    <3>. QED BY <1>1, <2>3, <2>5, <3>1
  <2>11. LastNotSkipped'
    BY <1>1, <2>3, <2>5, <2>7 DEF LastNotSkipped
  <2>. QED BY <1>2, <2>8, <2>9, <2>10, <2>11 DEF CppIInv
<1>. QED BY <1>7, <1>8
-----------------------------------------------------------------------------
LEMMA CppStepInv ==
  ASSUME CppIInv, [CppNext]_cppVars
  PROVE  CppIInv'
<1>1. CASE RecvHeader
  BY <1>1, CppHeaderStep
<1>2. CASE RecvBody
  BY <1>2, CppBodyStep
<1>3. CASE StreamNext /\ UNCHANGED <<reader, current, fired>>
  BY <1>3, CppSendStep, CppArriveStep, CppHangUpStep DEF StreamNext
<1>4. CASE UNCHANGED cppVars
  BY <1>4 DEF cppVars, streamVars, CppIInv, CppTyped, CppStreamInPlace, FiredInOrder, LastNotSkipped,
              DamagedIsLast, CppPlace, WithBody
<1>. QED BY <1>1, <1>2, <1>3, <1>4 DEF CppNext

LEMMA CppInvHolds == CppSpec => []CppIInv
<1>. QED BY CppInitInv, CppStepInv, PTL DEF CppSpec

\* The state is well typed.
THEOREM CppReaderTypeCorrect == CppSpec => []CppTypeOK
<1>1. ASSUME CppIInv
      PROVE  CppTypeOK
  <2>1. CppTyped
    BY <1>1 DEF CppIInv
  <2>2. \A i \in 1..Len(fired) : fired[i] \in [packet : 1..Len(sent), whole : BOOLEAN]
    <3> DEFINE R == [packet : 1..Len(sent), whole : BOOLEAN]
    <3>1. fired \in Seq(R)
      BY <2>1 DEF CppTyped
    <3>. HIDE DEF R
    <3>2. \A i \in 1..Len(fired) : fired[i] \in R
      BY <3>1, ElementOfSeq
    <3>. QED BY <3>2 DEF R
  <2>. QED BY <2>1, <2>2 DEF CppTyped, CppTypeOK
<1>. QED BY <1>1, CppInvHolds, PTL

\* Between two packets the reader stands at the first byte of one: whatever the
\* sizes and the cuts, PacketReader::run never takes the middle of a packet for
\* a header.
THEOREM PlaceIsKept == CppSpec => []KeepsItsPlace
<1>1. ASSUME CppIInv
      PROVE  KeepsItsPlace
  <2>. SUFFICES ASSUME reader = "header", inbox # <<>>
                PROVE  inbox[1][2] = 1
    BY DEF KeepsItsPlace
  <2>1. Pieces(inbox, wire, <<current + 1, 1>>, ~ended, HeaderSize, sent)
    BY <1>1 DEF CppIInv, CppStreamInPlace, CppPlace
  <2>2. sent \in Seq(Nat)
    BY <1>1, SizesAreNumbers DEF CppIInv, CppTyped
  <2>3. inbox[1] = <<current + 1, 1>>
    BY <2>1, <2>2, HeaderSizeIsPositive, PiecesAt
  <2>. QED BY <2>3
<1>. QED BY <1>1, CppInvHolds, PTL

\* The listeners are given the packets that have a body, in order, once each
\* and none left out, all whole but for one that the end of the connection cut.
THEOREM PacketsInOrderAndWhole == CppSpec => []InOrderAndWhole
<1>1. ASSUME CppIInv
      PROVE  InOrderAndWhole
  <2>1. /\ FiredInOrder /\ DamagedIsLast /\ Len(fired) \in Nat /\ Len(sent) \in Nat
        /\ current \in Nat
        /\ \A i \in 1..Len(fired) : fired[i].packet \in Nat
    <3>1. CppTyped /\ FiredInOrder /\ DamagedIsLast
      BY <1>1 DEF CppIInv
    <3>2. Len(sent) \in Nat /\ current \in Nat
      BY <3>1, SizesAreNumbers DEF CppTyped
    <3>. QED BY <3>1, <3>2, FiredIsSeq
  <2>2. \A i, j \in 1..Len(fired) : i < j => fired[i].packet < fired[j].packet
    BY <2>1 DEF FiredInOrder
  <2>3. \A i \in 1..Len(fired) : fired[i].whole \/ (ended /\ i = Len(fired))
    BY <2>1 DEF DamagedIsLast
  <2>4. ASSUME fired # <<>>
        PROVE  {fired[i].packet : i \in 1..Len(fired)}
                 = {n \in WithBody : n <= fired[Len(fired)].packet}
    <3> DEFINE l == Len(fired)
    <3>1. l \in 1..l
      <4>1. l # 0
        BY <1>1, <2>4, EmptySeq DEF CppIInv, CppTyped
      <4>. QED BY <2>1, <4>1
    <3>. HIDE DEF l
    <3>2. ASSUME NEW i \in 1..l
          PROVE  fired[i].packet \in WithBody /\ fired[i].packet <= fired[l].packet
      <4>1. fired[i].packet \in WithBody
        BY <2>1 DEF FiredInOrder, l
      <4>2. i < l \/ i = l
        BY <2>1 DEF l
      <4>3. i < l => fired[i].packet < fired[l].packet
        BY <2>2, <3>1 DEF l
      <4>. QED BY <2>1, <3>1, <4>1, <4>2, <4>3 DEF l
    <3>3. ASSUME NEW n \in WithBody, n <= fired[l].packet
          PROVE  \E i \in 1..l : fired[i].packet = n
      <4>1. fired[l].packet <= current /\ fired[l].packet \in Nat /\ n \in Nat
        BY <2>1, <3>1 DEF FiredInOrder, WithBody, l
      <4>2. CASE n < current
        BY <2>1, <4>2 DEF FiredInOrder, l
      <4>3. CASE n = fired[l].packet
        BY <3>1, <4>3
      <4>4. n < current \/ n = fired[l].packet
        BY <2>1, <3>3, <4>1
      <4>. QED BY <4>2, <4>3, <4>4
    <3>. QED BY <3>2, <3>3 DEF l
  <2>. QED BY <2>2, <2>3, <2>4 DEF InOrderAndWhole
<1>. QED BY <1>1, CppInvHolds, PTL
-----------------------------------------------------------------------------
(* The refinement of PacketChannel.  What WF_vars(~broken /\ Handle) adds to *)
(* the steps is liveness, and is left to the model checker.                  *)

Damaged == \E i \in 1..Len(fired) : ~fired[i].whole

LEMMA CountsAreNumbers ==
  ASSUME CppTyped
  PROVE  /\ IsFiniteSet(WithBody) /\ Cardinality(WithBody) \in Nat
         /\ IsFiniteSet(Whole) /\ Cardinality(Whole) \in Nat
<1>1. Len(sent) \in Nat /\ Len(fired) \in Nat
  BY SizesAreNumbers, FiredIsSeq DEF CppTyped
<1>2. IsFiniteSet(1..Len(sent)) /\ IsFiniteSet(1..Len(fired))
  BY <1>1, FS_Interval
<1>3. WithBody \in SUBSET (1..Len(sent)) /\ Whole \in SUBSET (1..Len(fired))
  BY DEF WithBody, Whole
<1>4. IsFiniteSet(WithBody) /\ IsFiniteSet(Whole)
  BY <1>2, <1>3, FS_Subset
<1>. QED BY <1>4, FS_CardinalityType

\* A packet in hand has not been counted as fired.
LEMMA FiredAreFewer ==
  ASSUME CppIInv, reader = "body", sent[current] > 0
  PROVE  Cardinality(Whole) < Cardinality(WithBody)
<1>1. CppTyped /\ FiredInOrder
  BY DEF CppIInv
<1>2. current \in WithBody
  BY <1>1, SizesAreNumbers DEF CppTyped, WithBody
<1>3. IsFiniteSet(WithBody) /\ Cardinality(WithBody) \in Nat /\ Cardinality(Whole) \in Nat
  BY <1>1, CountsAreNumbers
<1> DEFINE T == WithBody \ {current}
           f == [i \in Whole |-> fired[i].packet]
<1>4. IsFiniteSet(T) /\ Cardinality(T) = Cardinality(WithBody) - 1
  BY <1>2, <1>3, FS_RemoveElement
<1>5. f \in Injection(Whole, T)
  <2>1. \A i \in Whole : i \in 1..Len(fired)
    BY DEF Whole
  <2>2. \A i \in 1..Len(fired) : /\ fired[i].packet \in WithBody /\ fired[i].packet < current
                                 /\ fired[i].packet \in Nat
    BY <1>1, FiredIsSeq DEF FiredInOrder
  <2>3. current \in Nat /\ Len(fired) \in Nat
    BY <1>1, SizesAreNumbers, FiredIsSeq DEF CppTyped
  <2>4. f \in [Whole -> T]
    BY <2>1, <2>2, <2>3
  <2>5. ASSUME NEW i \in Whole, NEW j \in Whole, f[i] = f[j]
        PROVE  i = j
    <3>1. i \in 1..Len(fired) /\ j \in 1..Len(fired) /\ fired[i].packet = fired[j].packet
      BY <2>1, <2>5
    <3>2. ~ (i < j) /\ ~ (j < i)
      <4>1. i < j => fired[i].packet < fired[j].packet
        BY <1>1, <3>1 DEF FiredInOrder
      <4>2. j < i => fired[j].packet < fired[i].packet
        BY <1>1, <3>1 DEF FiredInOrder
      <4>. QED BY <2>2, <3>1, <4>1, <4>2
    <3>. QED BY <2>3, <3>1, <3>2
  <2>. QED BY <2>4, <2>5 DEF Injection, IsInjective
<1>6. Cardinality(Whole) <= Cardinality(T)
  BY <1>4, <1>5, FS_Injection
<1>. QED BY <1>3, <1>4, <1>6

\* What of the state PacketChannel sees.
ChannelVars == <<Cardinality(WithBody), Cardinality(Whole), ended, Damaged>>

LEMMA ChannelStep ==
  ASSUME CppIInv, [CppNext]_cppVars
  PROVE  [Channel!ChannelNext]_(Channel!vars)
<1>1. /\ CppTyped /\ FiredInOrder /\ DamagedIsLast
      /\ Len(sent) \in Nat /\ Len(fired) \in Nat
      /\ IsFiniteSet(WithBody) /\ Cardinality(WithBody) \in Nat
      /\ IsFiniteSet(Whole) /\ Cardinality(Whole) \in Nat
  BY SizesAreNumbers, FiredIsSeq, CountsAreNumbers DEF CppIInv, CppTyped
<1>2. UNCHANGED <<sent, fired, ended>> => UNCHANGED ChannelVars
  BY DEF ChannelVars, WithBody, Whole, Damaged
<1>3. UNCHANGED ChannelVars => UNCHANGED Channel!vars
  BY DEF ChannelVars, Channel!vars, Damaged
<1>4. CASE RecvHeader \/ UNCHANGED cppVars \/ ((\E k \in 1..Len(wire) : Arrive(k)) /\ UNCHANGED fired)
  BY <1>2, <1>3, <1>4 DEF RecvHeader, Consume, Arrive, cppVars, streamVars
<1>5. ASSUME NEW size \in BodySizes, ServerSend(size), UNCHANGED fired
      PROVE  [Channel!ChannelNext]_(Channel!vars)
  <2>1. /\ ~ended /\ ended' = ended /\ sent' = Append(sent, size) /\ fired' = fired
        /\ sent \in Seq(BodySizes) /\ size \in Nat
    BY <1>1, <1>5, StreamAssumption DEF ServerSend, CppTyped
  <2>2. /\ Len(sent') = Len(sent) + 1 /\ sent'[Len(sent) + 1] = size
        /\ \A n \in 1..Len(sent) : sent'[n] = sent[n]
    BY <2>1, AppendProperties
  <2>3. Whole' = Whole /\ Damaged' = Damaged
    BY <2>1 DEF Whole, Damaged
  <2>4. \A n : n \in 1..Len(sent') <=> n \in 1..Len(sent) \/ n = Len(sent) + 1
    BY <1>1, <2>2
  <2>5. CASE size = 0
    <3>1. WithBody' = WithBody
      BY <2>2, <2>4, <2>5 DEF WithBody
    <3>. QED BY <1>3, <2>1, <2>3, <3>1 DEF ChannelVars
  <2>6. CASE size > 0
    <3>1. WithBody' = WithBody \cup {Len(sent) + 1}
      BY <2>2, <2>4, <2>6 DEF WithBody
    <3>2. Len(sent) + 1 \notin WithBody
      BY <1>1 DEF WithBody
    <3>3. Cardinality(WithBody') = Cardinality(WithBody) + 1
      BY <1>1, <3>1, <3>2, FS_AddElement
    <3>4. Channel!Write
      BY <2>1, <2>3, <3>3 DEF Channel!Write, Damaged
    <3>. QED BY <3>4 DEF Channel!ChannelNext
  <2>. QED BY <2>1, <2>5, <2>6
<1>6. ASSUME NEW k \in 0..Len(wire), HangUp(k), UNCHANGED fired
      PROVE  [Channel!ChannelNext]_(Channel!vars)
  <2>1. Channel!Break
    BY <1>6 DEF HangUp, Channel!Break, WithBody, Whole
  <2>. QED BY <2>1 DEF Channel!ChannelNext
<1>7. CASE RecvBody
  <2> DEFINE n == sent[current]
             m == RecvSize(n)
             event == [packet |-> current, whole |-> IsBody(Read(n), current)]
  <2>1. /\ reader = "body" /\ sent' = sent /\ ended' = ended
        /\ fired' = IF m < 1 THEN fired ELSE Append(fired, event)
    BY <1>7 DEF RecvBody, Consume
  <2>2. /\ n \in Nat /\ m \in Nat /\ m <= n
        /\ m = n \/ ended
        /\ m = n /\ n > 0 => event.whole
    BY <1>7, CppBodyReceived
  <2>3. current \in 1..Len(sent) /\ event \in [packet : 1..Len(sent), whole : BOOLEAN]
    BY <1>1, <2>1 DEF CppTyped, IsBody
  <2>4. WithBody' = WithBody
    BY <2>1 DEF WithBody
  <2>5. CASE m < 1
    BY <1>2, <1>3, <2>1, <2>5
  <2>6. CASE ~ (m < 1)
    <3>1. n > 0 /\ (event.whole \/ ended)
      BY <2>2, <2>6
    <3>2. Cardinality(Whole) < Cardinality(WithBody)
      BY <2>1, <3>1, FiredAreFewer
    <3>3. \A i \in 1..Len(fired) : fired[i].whole
      BY <1>1, <2>1 DEF DamagedIsLast
    <3>. HIDE DEF event
    <3>4. /\ Len(fired') = Len(fired) + 1 /\ fired'[Len(fired) + 1] = event
          /\ \A i \in 1..Len(fired) : fired'[i] = fired[i]
      <4>1. fired' = Append(fired, event)
        BY <2>1, <2>6
      <4> DEFINE R == [packet : 1..Len(sent), whole : BOOLEAN]
      <4>2. fired \in Seq(R) /\ event \in R
        BY <1>1, <2>3 DEF CppTyped
      <4>. HIDE DEF R
      <4>. QED BY <4>1, <4>2, AppendProperties
    <3>5. \A i : i \in 1..Len(fired') <=> i \in 1..Len(fired) \/ i = Len(fired) + 1
      BY <1>1, <3>4
    <3>6. ~Damaged
      BY <3>3 DEF Damaged
    <3>7. CASE event.whole
      <4>1. Whole' = Whole \cup {Len(fired) + 1} /\ ~Damaged'
        BY <3>3, <3>4, <3>5, <3>7 DEF Whole, Damaged
      <4>2. Len(fired) + 1 \notin Whole
        BY <1>1 DEF Whole
      <4>3. Cardinality(Whole') = Cardinality(Whole) + 1
        BY <1>1, <4>1, <4>2, FS_AddElement
      <4>4. Channel!Handle
        BY <2>1, <2>4, <3>2, <3>6, <4>1, <4>3 DEF Channel!Handle, Damaged
      <4>. QED BY <4>4 DEF Channel!ChannelNext
    <3>8. CASE ~event.whole
      <4>1. Whole' = Whole /\ Damaged'
        BY <3>3, <3>4, <3>5, <3>8 DEF Whole, Damaged
      <4>2. Channel!HandleDamaged
        BY <2>1, <2>4, <3>1, <3>2, <3>6, <3>8, <4>1 DEF Channel!HandleDamaged, Damaged
      <4>. QED BY <4>2 DEF Channel!ChannelNext
    <3>. QED BY <3>7, <3>8
  <2>. QED BY <2>5, <2>6
<1>. QED BY <1>4, <1>5, <1>6, <1>7 DEF CppNext, StreamNext

\* Every step of the read thread and of the connection is a step of
\* PacketChannel over the packets with a body, or changes nothing there.
THEOREM StepsRefineChannel ==
  CppSpec => Channel!ChannelInit /\ [][Channel!ChannelNext]_(Channel!vars)
<1>1. ASSUME CppInit
      PROVE  Channel!ChannelInit
  <2>1. sent = <<>> /\ fired = <<>> /\ ended = FALSE
    BY <1>1 DEF CppInit, StreamInit
  <2>2. WithBody = {} /\ Whole = {} /\ ~Damaged
    <3>1. 1..Len(sent) = {} /\ 1..Len(fired) = {}
      BY <2>1, EmptySeq
    <3>. QED BY <3>1 DEF WithBody, Whole, Damaged
  <2>3. Cardinality({}) = 0
    BY FS_EmptySet
  <2>. QED BY <2>1, <2>2, <2>3 DEF Channel!ChannelInit, Damaged
<1>. QED BY <1>1, ChannelStep, CppInvHolds, PTL DEF CppSpec
-----------------------------------------------------------------------------
(* The Java library's reader *)

JavaEvent == [packet : Nat, whole : BOOLEAN]

JavaTyped ==
  /\ sent \in Seq(BodySizes)
  /\ ended \in BOOLEAN
  /\ reader \in {"header", "body", "ended"}
  /\ short \in BOOLEAN

\* What was fired is the first packets, and what is under way goes on with the
\* next one, or with its body.
JavaInPlace ==
  /\ fired \in Seq(JavaEvent)
  /\ \A i \in 1..Len(fired) : fired[i] = [packet |-> i, whole |-> TRUE]
  /\ reader = "header" => Pieces(inbox, wire, <<Len(fired) + 1, 1>>, ~ended, HeaderSize, sent)
  /\ reader = "body" =>
       /\ current = Len(fired) + 1 /\ current \in 1..Len(sent) /\ need = sent[current]
       /\ Pieces(inbox, wire,
                 IF need > 0 THEN <<current, HeaderSize + 1>> ELSE <<current + 1, 1>>,
                 ~ended, HeaderSize, sent)

JavaIInv == JavaTyped /\ (~short => JavaInPlace)
-----------------------------------------------------------------------------
LEMMA JavaInitInv ==
  ASSUME JavaInit
  PROVE  JavaIInv
<1>1. /\ sent = <<>> /\ wire = <<>> /\ inbox = <<>> /\ ended = FALSE
      /\ reader = "header" /\ fired = <<>> /\ short = FALSE
  BY DEF JavaInit, StreamInit
<1>2. Len(fired) = 0 /\ 1..Len(fired) = {} /\ fired \in Seq(JavaEvent) /\ sent \in Seq(BodySizes)
  BY <1>1, EmptySeq
<1>3. Pieces(inbox, wire, <<Len(fired) + 1, 1>>, ~ended, HeaderSize, sent)
  <2>1. <<Len(fired) + 1, 1>> = <<1, 1>> /\ (~ended) = TRUE
    BY <1>1, <1>2
  <2>2. Pieces(<<>>, <<>>, <<1, 1>>, TRUE, HeaderSize, <<>>)
    BY PiecesAtFirst
  <2>. QED BY ONLY <1>1, <2>1, <2>2
<1>. QED BY <1>1, <1>2, <1>3 DEF JavaIInv, JavaTyped, JavaInPlace

\* A step that leaves the thread alone moves bytes along the connection only.
LEMMA JavaStreamStep ==
  ASSUME JavaIInv, StreamNext, UNCHANGED <<reader, need, current, fired, short>>
  PROVE  JavaIInv'
<1> DEFINE place == IF reader = "header" THEN <<Len(fired) + 1, 1>>
                    ELSE IF need > 0 THEN <<current, HeaderSize + 1>> ELSE <<current + 1, 1>>
<1>1. /\ JavaTyped
      /\ sent \in Seq(BodySizes) /\ sent \in Seq(Nat) /\ (~ended) \in BOOLEAN
      /\ Len(sent) \in Nat
  BY SizesAreNumbers DEF JavaIInv, JavaTyped
<1>2. /\ place' = place
      /\ reader' = reader /\ need' = need /\ current' = current /\ fired' = fired /\ short' = short
  OBVIOUS
<1>. HIDE DEF place
<1>3. /\ JavaTyped'
      /\ Pieces(inbox, wire, place, ~ended, HeaderSize, sent)
           => Pieces(inbox', wire', place, ~ended', HeaderSize, sent')
      /\ ended => ended'
      /\ ~ended \/ sent' = sent
      /\ 1..Len(sent) \subseteq 1..Len(sent') /\ \A n \in 1..Len(sent) : sent'[n] = sent[n]
  <2>1. ASSUME NEW size \in BodySizes, ServerSend(size)
        PROVE  <1>3
    <3>1. /\ ended = FALSE /\ ended' = ended /\ inbox' = inbox /\ sent' = Append(sent, size)
          /\ wire' = wire \o Bytes(Len(sent'), size) /\ size \in Nat
      BY <1>1, <2>1, StreamAssumption DEF ServerSend, JavaTyped
    <3>2. /\ sent' \in Seq(BodySizes) /\ Len(sent') = Len(sent) + 1
          /\ \A n \in 1..Len(sent) : sent'[n] = sent[n]
      BY <1>1, <3>1, AppendProperties
    <3>3. wire' = wire \o [k \in 1..(HeaderSize + size) |-> <<Len(sent) + 1, k>>]
      BY <3>1, <3>2 DEF Bytes
    <3>4. ASSUME Pieces(inbox, wire, place, TRUE, HeaderSize, sent)
          PROVE  Pieces(inbox', wire', place, TRUE, HeaderSize, sent')
      <4>1. Pieces(inbox, wire \o [k \in 1..(HeaderSize + size) |-> <<Len(sent) + 1, k>>], place, TRUE,
                   HeaderSize, Append(sent, size))
        BY <1>1, <3>1, <3>4, HeaderSizeIsPositive, PiecesWritten
      <4>. QED BY <3>1, <3>3, <4>1
    <3>5. JavaTyped'
      BY <1>1, <1>2, <3>1, <3>2 DEF JavaTyped
    <3>6. 1..Len(sent) \subseteq 1..Len(sent')
      BY <1>1, <3>2
    <3>. QED BY <3>1, <3>2, <3>4, <3>5, <3>6
  <2>2. ASSUME NEW k \in 1..Len(wire), Arrive(k)
        PROVE  <1>3
    <3>1. /\ sent' = sent /\ ended' = ended
          /\ inbox' = inbox \o SubSeq(wire, 1, k) /\ wire' = SubSeq(wire, k + 1, Len(wire))
      BY <2>2 DEF Arrive
    <3>. QED BY <1>1, <1>2, <3>1, PiecesArrived DEF JavaTyped
  <2>3. ASSUME NEW k \in 0..Len(wire), HangUp(k)
        PROVE  <1>3
    <3>1. ended' = TRUE /\ sent' = sent /\ inbox' = inbox /\ wire' = SubSeq(wire, 1, k)
      BY <2>3 DEF HangUp
    <3>2. ASSUME Pieces(inbox, wire, place, ~ended, HeaderSize, sent)
          PROVE  Pieces(inbox', wire', place, FALSE, HeaderSize, sent)
      BY ONLY <1>1, <3>1, <3>2, k \in 0..Len(wire), HeaderSizeIsPositive, PiecesCut
    <3>. QED BY <1>1, <1>2, <3>1, <3>2 DEF JavaTyped
  <2>. QED BY <2>1, <2>2, <2>3 DEF StreamNext
<1>4. ASSUME ~short
      PROVE  JavaInPlace'
  <2>1. JavaInPlace
    BY <1>4 DEF JavaIInv
  <2>2. CASE reader = "header"
    <3>1. place = <<Len(fired) + 1, 1>>
      BY <2>2 DEF place
    <3>2. Pieces(inbox', wire', <<Len(fired) + 1, 1>>, ~ended', HeaderSize, sent')
      BY <1>3, <2>1, <2>2, <3>1 DEF JavaInPlace
    <3>. QED BY <1>2, <2>1, <2>2, <3>2 DEF JavaInPlace
  <2>3. CASE reader = "body"
    <3>1. place = IF need > 0 THEN <<current, HeaderSize + 1>> ELSE <<current + 1, 1>>
      BY <2>3 DEF place
    <3>2. Pieces(inbox, wire, place, ~ended, HeaderSize, sent)
      BY <2>1, <2>3, <3>1 DEF JavaInPlace
    <3>3. Pieces(inbox', wire', place, ~ended', HeaderSize, sent')
      BY <1>3, <3>2
    <3>4. current \in 1..Len(sent') /\ need = sent'[current]
      BY <1>3, <2>1, <2>3 DEF JavaInPlace
    <3>. QED BY <1>2, <2>1, <2>3, <3>1, <3>3, <3>4 DEF JavaInPlace
  <2>4. CASE reader = "ended"
    BY <1>2, <1>3, <2>1, <2>4 DEF JavaInPlace
  <2>. QED BY <1>1, <2>2, <2>3, <2>4 DEF JavaTyped
<1>. QED BY <1>2, <1>3, <1>4 DEF JavaIInv
-----------------------------------------------------------------------------
(* The thread's two reads, while none has been short.  With a whole header   *)
(* there, it is the next packet's.                                           *)
LEMMA JavaWholeHeader ==
  ASSUME JavaIInv, ~short, reader = "header", Consume(HeaderSize), Len(inbox) >= HeaderSize
  PROVE  /\ IsHeader(Read(HeaderSize)) /\ HeaderOf(inbox) = Len(fired) + 1
         /\ Len(fired) + 1 \in 1..Len(sent)
         /\ Pieces(inbox', wire', IF sent[Len(fired) + 1] > 0 THEN <<Len(fired) + 1, HeaderSize + 1>>
                                                              ELSE <<Len(fired) + 2, 1>>,
                   ~ended', HeaderSize, sent')
<1> DEFINE m == HeaderSize
           c == Len(fired) + 1
           k == 1
           open == ~ended
<1>1. /\ sent \in Seq(Nat) /\ Len(sent) \in Nat /\ open \in BOOLEAN /\ fired \in Seq(JavaEvent)
      /\ \A n \in 1..Len(sent) : sent[n] \in Nat
      /\ Pieces(inbox, wire, <<c, k>>, open, HeaderSize, sent)
  BY SizesAreNumbers DEF JavaIInv, JavaTyped, JavaInPlace
<1>2. inbox \in Seq(StreamByte) /\ Len(inbox) \in Nat /\ Len(fired) \in Nat
  BY <1>1, LenProperties DEF Pieces
<1>3. Shorter(m, Len(inbox)) = m /\ m \in Nat \ {0} /\ m \in 1..Len(inbox) /\ m \in 0..Len(inbox)
  BY <1>2, HeaderSizeIsPositive DEF Shorter
<1>4. inbox # <<>>
  <2>1. Len(inbox) # 0
    BY <1>2, <1>3
  <2>. QED BY <2>1, EmptySeq
<1>5. inbox[1] = <<c, k>> /\ c \in 1..Len(sent)
  BY <1>1, <1>4, HeaderSizeIsPositive, PiecesAt
<1>6. sent[c] \in Nat
  BY <1>1, <1>5
<1>7. k \in Nat /\ c \in Nat /\ k + m <= HeaderSize + sent[c] + 1
  BY <1>2, <1>3, <1>6
<1>. HIDE DEF c, k, open
<1>8. /\ SubSeq(inbox, 1, m) = [j \in 1..m |-> <<c, k + j - 1>>]
      /\ Pieces(SubSeq(inbox, m + 1, Len(inbox)), wire, PlaceAfter(c, k, m, HeaderSize, sent), open,
                HeaderSize, sent)
  <2>. HIDE DEF m
  <2>. QED BY <1>1, <1>3, <1>7, HeaderSizeIsPositive, PiecesRead, Zenon
<1>9. IsHeader(Read(HeaderSize))
  <2>1. \A j \in 1..m : k + j - 1 = j
    BY <1>3 DEF k
  <2>2. Read(HeaderSize) = [j \in 1..m |-> <<c, j>>]
    BY <1>3, <1>8, <2>1 DEF Read
  <2>3. Len(Read(HeaderSize)) = m
    BY <1>2, <1>3, FrontFacts DEF Read
  <2>4. \A j \in 1..m : Read(HeaderSize)[j] = <<c, j>>
    BY <2>2
  <2>5. Read(HeaderSize)[1] = <<c, 1>>
    <3>1. 1 \in 1..m
      BY <1>3
    <3>. QED BY <2>4, <3>1
  <2>. QED BY <2>3, <2>4, <2>5 DEF IsHeader
<1>10. PlaceAfter(c, k, m, HeaderSize, sent)
         = IF sent[c] > 0 THEN <<c, HeaderSize + 1>> ELSE <<Len(fired) + 2, 1>>
  <2>1. /\ k + m = HeaderSize + 1 /\ c + 1 = Len(fired) + 2
        /\ k + m <= HeaderSize + sent[c] <=> sent[c] > 0
    BY <1>2, <1>3, <1>6 DEF k, c
  <2>. QED BY <2>1 DEF PlaceAfter
<1>11. inbox' = SubSeq(inbox, m + 1, Len(inbox)) /\ wire' = wire /\ sent' = sent /\ ended' = ended
  BY <1>3 DEF Consume
<1>. QED BY <1>5, <1>8, <1>9, <1>10, <1>11 DEF HeaderOf, c, k, open

LEMMA JavaShortHeaderStep ==
  ASSUME JavaIInv, ReadShortHeader
  PROVE  JavaIInv'
<1>1. /\ JavaTyped /\ (~short => JavaInPlace)
      /\ reader = "header" /\ CanRead(HeaderSize) /\ Len(inbox) < HeaderSize /\ reader' = "ended"
      /\ sent' = sent /\ ended' = ended /\ fired' = fired /\ short' = short
      /\ wire' = wire
  BY DEF JavaIInv, ReadShortHeader, Consume
<1>. QED BY <1>1 DEF JavaIInv, JavaTyped, JavaInPlace

LEMMA JavaHeaderStep ==
  ASSUME JavaIInv, ReadHeader
  PROVE  JavaIInv'
<1>1. /\ JavaTyped /\ (~short => JavaInPlace)
      /\ reader = "header" /\ reader' = "body" /\ Consume(HeaderSize) /\ IsHeader(Read(HeaderSize))
      /\ current' = HeaderOf(inbox) /\ need' = sent[current']
      /\ sent' = sent /\ ended' = ended /\ fired' = fired /\ short' = short
  BY DEF JavaIInv, ReadHeader, Consume
<1>2. JavaTyped'
  BY <1>1 DEF JavaTyped
<1>3. ASSUME ~short
      PROVE  JavaInPlace'
  <2>1. JavaInPlace /\ fired \in Seq(JavaEvent)
    BY <1>1, <1>3 DEF JavaInPlace
  <2>2. inbox \in Seq(StreamByte) /\ Len(inbox) \in Nat /\ Len(fired) \in Nat
    BY <1>1, <2>1, LenProperties DEF JavaInPlace, Pieces
  <2>3. Len(inbox) >= HeaderSize
    <3>1. Len(inbox) < HeaderSize => Len(Read(HeaderSize)) = Len(inbox)
      <4>1. Len(inbox) < HeaderSize => Shorter(HeaderSize, Len(inbox)) = Len(inbox)
        BY <2>2, HeaderSizeIsPositive DEF Shorter
      <4>2. Len(inbox) \in 0..Len(inbox)
        BY <2>2
      <4>. QED BY <2>2, <4>1, <4>2, FrontFacts DEF Read
    <3>2. Len(Read(HeaderSize)) = HeaderSize
      BY <1>1 DEF IsHeader
    <3>. QED BY <2>2, <3>1, <3>2, HeaderSizeIsPositive
  <2>4. /\ HeaderOf(inbox) = Len(fired) + 1 /\ Len(fired) + 1 \in 1..Len(sent)
        /\ Pieces(inbox', wire', IF sent[Len(fired) + 1] > 0 THEN <<Len(fired) + 1, HeaderSize + 1>>
                                                             ELSE <<Len(fired) + 2, 1>>,
                  ~ended', HeaderSize, sent')
    BY <1>1, <1>3, <2>3, JavaWholeHeader
  <2>5. (Len(fired) + 1) + 1 = Len(fired) + 2
    BY <2>2
  <2>. QED BY <1>1, <2>1, <2>4, <2>5 DEF JavaInPlace
<1>. QED BY <1>1, <1>2, <1>3 DEF JavaIInv

\* Such bytes are met after a short read only.
LEMMA JavaGarbageStep ==
  ASSUME JavaIInv, ReadGarbageHeader
  PROVE  JavaIInv'
<1>1. /\ JavaTyped /\ reader = "header" /\ reader' \in {"header", "body"}
      /\ Consume(HeaderSize) /\ Len(inbox) >= HeaderSize /\ ~IsHeader(Read(HeaderSize))
      /\ sent' = sent /\ ended' = ended /\ short' = short
  BY DEF JavaIInv, ReadGarbageHeader, Consume
<1>2. short
  BY <1>1, JavaWholeHeader
<1>. QED BY <1>1, <1>2 DEF JavaIInv, JavaTyped

\* A body read that got all its bytes got the next packet's.
LEMMA JavaWholeBodyRead ==
  ASSUME JavaIInv, ~short, reader = "body", Consume(need), Len(inbox) >= need
  PROVE  /\ WholeBody /\ need \in Nat
         /\ Pieces(inbox', wire', <<current + 1, 1>>, ~ended', HeaderSize, sent')
<1> DEFINE n == need
           H == HeaderSize
           open == ~ended
<1>1. /\ sent \in Seq(Nat) /\ Len(sent) \in Nat /\ open \in BOOLEAN
      /\ current \in 1..Len(sent) /\ current \in Nat /\ n = sent[current] /\ n \in Nat
      /\ Pieces(inbox, wire, IF n > 0 THEN <<current, H + 1>> ELSE <<current + 1, 1>>, open, H, sent)
  BY SizesAreNumbers DEF JavaIInv, JavaTyped, JavaInPlace
<1>2. inbox \in Seq(StreamByte) /\ Len(inbox) \in Nat /\ H \in Nat \ {0}
  BY <1>1, HeaderSizeIsPositive, LenProperties DEF Pieces
<1>3. Shorter(n, Len(inbox)) = n /\ n \in 0..Len(inbox)
  BY <1>1, <1>2 DEF Shorter
<1>4. /\ inbox' = SubSeq(inbox, n + 1, Len(inbox)) /\ wire' = wire /\ sent' = sent /\ ended' = ended
      /\ Read(need) = SubSeq(inbox, 1, n)
  BY <1>3 DEF Consume, Read
<1>5. current # 0 /\ n \in Nat
  BY <1>1
<1>6. sent \in Seq(Nat) /\ Len(sent) \in Nat /\ open \in BOOLEAN /\ current \in Nat
  BY <1>1
<1>7. Pieces(inbox, wire, IF n > 0 THEN <<current, H + 1>> ELSE <<current + 1, 1>>, open, H, sent)
  BY <1>1
<1>. HIDE DEF n, H, open
<1>8. CASE n = 0
  <2>1. inbox' = inbox
    BY <1>2, <1>4, <1>8, SubSeqFull
  <2>2. Read(need) = <<>>
    BY <1>4, <1>8, SubSeqEmpty
  <2>3. IsBody(Read(need), current)
    <3>1. sent[current] = 0 /\ 1..sent[current] = {}
      BY <1>1, <1>8
    <3>2. [k \in 1..sent[current] |-> <<current, HeaderSize + k>>] = <<>>
      BY <3>1
    <3>. QED BY <2>2, <3>2 DEF IsBody
  <2>4. Pieces(inbox, wire, <<current + 1, 1>>, open, H, sent)
    <3>1. ~ (n > 0)
      BY <1>8
    <3>. QED BY <1>7, <3>1
  <2>. QED BY <1>4, <1>5, <2>1, <2>3, <2>4 DEF WholeBody, n, H, open
<1>9. CASE n > 0
  <2> DEFINE k == H + 1
  <2>1. /\ n \in 1..Len(inbox) /\ k \in Nat /\ k + n <= H + sent[current] + 1
        /\ ~ (k + n <= H + sent[current])
    BY <1>1, <1>2, <1>3, <1>9
  <2>2. Pieces(inbox, wire, <<current, k>>, open, H, sent)
    BY <1>7, <1>9
  <2>. HIDE DEF k
  <2>3. /\ SubSeq(inbox, 1, n) = [j \in 1..n |-> <<current, k + j - 1>>]
        /\ Pieces(SubSeq(inbox, n + 1, Len(inbox)), wire, PlaceAfter(current, k, n, H, sent), open, H,
                  sent)
    <3>1. k + n <= H + sent[current] + 1 /\ n \in 1..Len(inbox) /\ k \in Nat
      BY <2>1
    <3>. QED BY <1>2, <1>6, <2>2, <3>1, PiecesRead, Zenon
  <2>4. PlaceAfter(current, k, n, H, sent) = <<current + 1, 1>>
    BY <2>1 DEF PlaceAfter
  <2>5. IsBody(Read(need), current)
    <3>1. \A j \in 1..n : k + j - 1 = H + j
      BY <1>1, <1>2 DEF k
    <3>2. Read(need) = [j \in 1..n |-> <<current, H + j>>]
      BY <1>4, <2>3, <3>1
    <3>. QED BY <1>1, <3>2 DEF IsBody, H
  <2>. QED BY <1>1, <1>4, <1>5, <2>3, <2>4, <2>5 DEF WholeBody, n, H, open
<1>. QED BY <1>5, <1>8, <1>9

LEMMA JavaBodyStep ==
  ASSUME JavaIInv, ReadBody
  PROVE  JavaIInv'
<1>1. /\ JavaTyped /\ (~short => JavaInPlace)
      /\ reader = "body" /\ Consume(need) /\ reader' \in {"header", "body", "ended"}
      /\ fired' = Append(fired, [packet |-> current, whole |-> WholeBody])
      /\ short' = (short \/ Len(inbox) < need)
      /\ reader' = "header" \/ (~WholeBody /\ reader' = "ended")
      /\ sent' = sent /\ ended' = ended
  BY DEF JavaIInv, ReadBody, Consume
<1>2. JavaTyped'
  BY <1>1 DEF JavaTyped
<1>3. ASSUME ~short'
      PROVE  JavaInPlace'
  <2>1. ~short /\ ~ (Len(inbox) < need)
    BY <1>1, <1>3
  <2>2. /\ JavaInPlace /\ fired \in Seq(JavaEvent) /\ Len(fired) \in Nat
        /\ \A i \in 1..Len(fired) : fired[i] = [packet |-> i, whole |-> TRUE]
        /\ current = Len(fired) + 1
    BY <1>1, <2>1, LenProperties DEF JavaInPlace
  <2>3. inbox \in Seq(StreamByte) /\ Len(inbox) \in Nat
    BY <1>1, <2>2, LenProperties DEF JavaInPlace, Pieces
  <2>4. need \in Nat
    BY <1>1, <2>2, SizesAreNumbers DEF JavaInPlace, JavaTyped
  <2>5. Len(inbox) >= need
    BY <2>1, <2>3, <2>4
  <2>6. /\ WholeBody
        /\ Pieces(inbox', wire', <<current + 1, 1>>, ~ended', HeaderSize, sent')
    BY <1>1, <2>1, <2>5, JavaWholeBodyRead
  <2> DEFINE event == [packet |-> Len(fired) + 1, whole |-> TRUE]
  <2>7. event \in JavaEvent /\ fired' = Append(fired, event) /\ reader' = "header"
    BY <1>1, <2>2, <2>6 DEF JavaEvent
  <2>8. /\ fired' \in Seq(JavaEvent) /\ Len(fired') = Len(fired) + 1
        /\ \A i \in 1..Len(fired) : fired'[i] = fired[i]
        /\ fired'[Len(fired) + 1] = event
    <3>. HIDE DEF event
    <3>. QED BY <2>2, <2>7, AppendProperties
  <2>9. \A i \in 1..Len(fired') : fired'[i] = [packet |-> i, whole |-> TRUE]
    <3>. TAKE i \in 1..Len(fired')
    <3>1. i \in 1..Len(fired) \/ i = Len(fired) + 1
      BY <2>2, <2>8
    <3>. QED BY <2>2, <2>8, <3>1
  <2>. QED BY <2>2, <2>6, <2>7, <2>8, <2>9 DEF JavaInPlace
<1>. QED BY <1>2, <1>3 DEF JavaIInv
-----------------------------------------------------------------------------
LEMMA JavaStepInv ==
  ASSUME JavaIInv, [JavaNext]_javaVars
  PROVE  JavaIInv'
<1>1. CASE Reads
  BY <1>1, JavaShortHeaderStep, JavaHeaderStep, JavaGarbageStep, JavaBodyStep DEF Reads
<1>2. CASE StreamNext /\ UNCHANGED <<reader, need, current, fired, short>>
  BY <1>2, JavaStreamStep
<1>3. CASE UNCHANGED javaVars
  BY <1>3 DEF javaVars, streamVars, JavaIInv, JavaTyped, JavaInPlace
<1>. QED BY <1>1, <1>2, <1>3 DEF JavaNext

\* Until some body read comes up short, PacketReader gives its listeners the
\* server's packets, those without a body included, whole, once each and in
\* order, however headers and bodies are cut.
THEOREM RightUntilShort == JavaSpec => []WholeUntilShort
<1>1. ASSUME JavaIInv
      PROVE  WholeUntilShort
  <2>. SUFFICES ASSUME ~short
                PROVE  fired = [i \in 1..Len(fired) |-> [packet |-> i, whole |-> TRUE]]
    BY DEF WholeUntilShort
  <2>1. /\ fired \in Seq(JavaEvent)
        /\ \A i \in 1..Len(fired) : fired[i] = [packet |-> i, whole |-> TRUE]
    BY <1>1 DEF JavaIInv, JavaInPlace
  <2>2. fired \in [1..Len(fired) -> JavaEvent]
    BY <2>1, LenProperties
  <2>. QED BY <2>1, <2>2
<1>2. JavaSpec => []JavaIInv
  BY JavaInitInv, JavaStepInv, PTL DEF JavaSpec
<1>. QED BY <1>1, <1>2, PTL
-----------------------------------------------------------------------------
(* gfire's packet handler: until the static variables mix two connections     *)
(* they hold the first bytes of the next packet.                             *)

GfireEvent == [packet : Nat, whole : BOOLEAN]

\* The packet that is to be handled next.
Upcoming == first + Len(handled) + 1

FirstBytes(c, n) == [k \in 1..n |-> <<c, k>>]

\* The statics hold the beginning of a packet of this account.
Kept == temp_length > 0 /\ ~IsForeign(temp_buffer)

\* Where the connection goes on.
GfirePlace ==
  IF state = "body" THEN IF len > 0 THEN <<Upcoming, HeaderSize + 1>> ELSE <<Upcoming + 1, 1>>
  ELSE IF Kept THEN <<Upcoming, Len(temp_buffer) + 1>> ELSE <<Upcoming, 1>>

GfireTyped ==
  /\ sent \in Seq(BodySizes)
  /\ ended \in BOOLEAN
  /\ state \in {"offline", "online", "body", "crashed"}
  /\ first \in Nat
  /\ stale \in BOOLEAN

HandledSoFar ==
  /\ handled \in Seq(GfireEvent)
  /\ \A i \in 1..Len(handled) : handled[i] = [packet |-> first + i, whole |-> TRUE]

GfireStreamInPlace ==
  state \in {"online", "body"} => Pieces(inbox, wire, GfirePlace, ~ended, HeaderSize, sent)

StaticsInPlace ==
  /\ temp_length \in Nat
  /\ temp_length > 0 => temp_buffer \in Seq(StreamByte)
  /\ Kept => /\ Upcoming \in 1..Len(sent)
             /\ Len(temp_buffer) >= HeaderSize
             /\ Len(temp_buffer) + temp_length = HeaderSize + sent[Upcoming]
             /\ temp_buffer = FirstBytes(Upcoming, Len(temp_buffer))

HeaderInPlace ==
  state = "body" =>
    /\ temp_length = 0
    /\ Upcoming \in 1..Len(sent) /\ len = sent[Upcoming]
    /\ header = FirstBytes(Upcoming, HeaderSize)

GfireInPlace == HandledSoFar /\ GfireStreamInPlace /\ StaticsInPlace /\ HeaderInPlace

GfireIInv == GfireTyped /\ (~stale => GfireInPlace)
-----------------------------------------------------------------------------
LEMMA UpcomingIsNumber ==
  ASSUME GfireTyped, HandledSoFar
  PROVE  Upcoming \in Nat /\ Upcoming > 0 /\ Len(handled) \in Nat /\ first \in Nat
<1>1. first \in Nat /\ handled \in Seq(GfireEvent)
  BY DEF GfireTyped, HandledSoFar
<1>2. Len(handled) \in Nat
  BY <1>1, LenProperties
<1>. QED BY <1>1, <1>2 DEF Upcoming

(* The first bytes of a packet.                                              *)
LEMMA FirstBytesFacts ==
  ASSUME NEW c \in Nat, NEW n \in Nat
  PROVE  /\ FirstBytes(c, n) \in Seq(StreamByte)
         /\ Len(FirstBytes(c, n)) = n
         /\ \A k \in 1..n : FirstBytes(c, n)[k] = <<c, k>>
<1>1. FirstBytes(c, n) \in [1..n -> StreamByte]
  BY DEF FirstBytes, StreamByte
<1>2. \A k \in 1..n : FirstBytes(c, n)[k] = <<c, k>>
  BY DEF FirstBytes
<1>. HIDE DEF StreamByte
<1>. QED BY <1>1, <1>2, FunctionIsSeq

\* They and the bytes that follow are the first bytes again.
LEMMA FirstBytesGoOn ==
  ASSUME NEW c \in Nat, NEW a \in Nat, NEW b \in Nat
  PROVE  FirstBytes(c, a) \o [j \in 1..b |-> <<c, a + j>>] = FirstBytes(c, a + b)
<1> DEFINE s == FirstBytes(c, a)
           t == [j \in 1..b |-> <<c, a + j>>]
<1>1. s \in Seq(StreamByte) /\ Len(s) = a /\ \A k \in 1..a : s[k] = <<c, k>>
  BY FirstBytesFacts
<1>2. t \in Seq(StreamByte) /\ Len(t) = b
  <2>1. t \in [1..b -> StreamByte]
    BY DEF StreamByte
  <2>. QED BY ONLY <2>1, b \in Nat, FunctionIsSeq
<1>3. \A j \in 1..b : t[j] = <<c, a + j>>
  OBVIOUS
<1>. HIDE DEF s, t
<1>4. /\ s \o t \in Seq(StreamByte) /\ Len(s \o t) = a + b
      /\ \A i \in 1..(a + b) : (s \o t)[i] = IF i <= a THEN s[i] ELSE t[i - a]
  BY <1>1, <1>2, ConcatProperties
<1>5. \A i \in 1..(a + b) : (s \o t)[i] = <<c, i>>
  <2>. TAKE i \in 1..(a + b)
  <2>1. CASE i <= a
    <3>1. i \in 1..a
      BY <2>1
    <3>. QED BY <1>1, <1>4, <2>1, <3>1
  <2>2. CASE ~ (i <= a)
    <3>1. i - a \in 1..b /\ a + (i - a) = i
      BY <2>2
    <3>. QED BY <1>3, <1>4, <2>2, <3>1
  <2>. QED BY <2>1, <2>2
<1>6. s \o t \in [1..(a + b) -> StreamByte]
  BY <1>4, LenProperties
<1>7. s \o t = [k \in 1..(a + b) |-> <<c, k>>]
  BY <1>5, <1>6
<1>. QED BY <1>7 DEF s, t, FirstBytes

\* A header read where a packet begins is that packet's.
LEMMA FirstBytesAreHeader ==
  ASSUME NEW c \in Nat, NEW b \in Seq(StreamByte), Len(b) >= HeaderSize,
         \A k \in 1..HeaderSize : b[k] = <<c, k>>
  PROVE  IsHeader(SubSeq(b, 1, HeaderSize)) /\ HeaderOf(b) = c
<1>1. HeaderSize \in 0..Len(b) /\ 1 \in 1..HeaderSize
  BY HeaderSizeIsPositive, LenProperties
<1>2. /\ Len(SubSeq(b, 1, HeaderSize)) = HeaderSize
      /\ \A k \in 1..HeaderSize : SubSeq(b, 1, HeaderSize)[k] = b[k]
  BY <1>1, FrontFacts
<1>3. SubSeq(b, 1, HeaderSize)[1][1] = c /\ b[1][1] = c
  BY <1>1, <1>2
<1>. QED BY <1>2, <1>3 DEF IsHeader, HeaderOf

\* The switch is given a whole packet, the next.
LEMMA DispatchNext ==
  ASSUME GfireTyped, HandledSoFar, Upcoming \in 1..Len(sent),
         NEW b, b = FirstBytes(Upcoming, HeaderSize + sent[Upcoming]), Dispatch(b)
  PROVE  /\ handled' \in Seq(GfireEvent) /\ Len(handled') = Len(handled) + 1
         /\ \A i \in 1..Len(handled') : handled'[i] = [packet |-> first + i, whole |-> TRUE]
<1> DEFINE c == Upcoming
           n == sent[c]
           m == HeaderSize
<1>1. c \in Nat /\ c > 0 /\ Len(handled) \in Nat /\ first \in Nat
  BY UpcomingIsNumber
<1>2. n \in Nat /\ m \in Nat /\ m > 0 /\ m + n \in Nat
  <2>1. n \in Nat
    BY SizesAreNumbers DEF GfireTyped
  <2>. QED BY <2>1, HeaderSizeIsPositive
<1>. HIDE DEF c, n
<1>3. /\ b \in Seq(StreamByte) /\ Len(b) = m + n
      /\ \A k \in 1..(m + n) : b[k] = <<c, k>>
  <2>1. b = FirstBytes(c, m + n)
    BY DEF c, n
  <2>. QED BY ONLY <1>1, <1>2, <2>1, FirstBytesFacts
<1>4. m \in 0..Len(b) /\ 1 \in 1..(m + n) /\ 1..m \subseteq 1..(m + n) /\ Len(b) >= m
  BY <1>2, <1>3
<1>5. IsHeader(SubSeq(b, 1, m)) /\ b[1][1] = c /\ b # <<>>
  <2>1. \A k \in 1..m : b[k] = <<c, k>>
    BY <1>3, <1>4
  <2>2. IsHeader(SubSeq(b, 1, m)) /\ HeaderOf(b) = c
    BY <1>1, <1>3, <1>4, <2>1, FirstBytesAreHeader
  <2>3. Len(b) # 0
    BY <1>2, <1>3
  <2>4. b # <<>>
    BY <2>3, EmptySeq
  <2>. QED BY <2>2, <2>4 DEF HeaderOf
<1>6. ~IsForeign(b)
  BY <1>1, <1>5 DEF IsForeign
<1>7. IsBody(SubSeq(b, m + 1, Len(b)), b[1][1])
  <2> DEFINE t == SubSeq(b, m + 1, Len(b))
  <2>1. /\ t \in Seq(StreamByte) /\ Len(t) = Len(b) - m
        /\ \A i \in 1..(Len(b) - m) : t[i] = b[m + i]
    BY <1>3, <1>4, BackFacts
  <2>2. Len(b) - m = n
    BY <1>2, <1>3
  <2>. HIDE DEF t
  <2>3. t \in [1..n -> StreamByte]
    BY <2>1, <2>2, LenProperties
  <2>4. \A i \in 1..n : t[i] = <<c, m + i>>
    <3>. TAKE i \in 1..n
    <3>1. m + i \in 1..(m + n)
      BY <1>2
    <3>. QED BY <1>3, <2>1, <2>2, <3>1
  <2>5. t = [i \in 1..n |-> <<c, m + i>>]
    BY <2>3, <2>4
  <2>. QED BY <1>5, <2>5 DEF IsBody, t, n
<1> DEFINE event == [packet |-> c, whole |-> TRUE]
<1>8. handled' = Append(handled, event) /\ event \in GfireEvent
  BY <1>1, <1>5, <1>6, <1>7 DEF Dispatch, GfireEvent
<1>9. handled \in Seq(GfireEvent)
  BY DEF HandledSoFar
<1>10. /\ handled' \in Seq(GfireEvent) /\ Len(handled') = Len(handled) + 1
       /\ \A i \in 1..Len(handled) : handled'[i] = handled[i]
       /\ handled'[Len(handled) + 1] = event
  <2>. HIDE DEF event
  <2>. QED BY <1>8, <1>9, AppendProperties
<1>11. \A i \in 1..Len(handled') : handled'[i] = [packet |-> first + i, whole |-> TRUE]
  <2>. TAKE i \in 1..Len(handled')
  <2>1. i \in 1..Len(handled) \/ i = Len(handled) + 1
    BY <1>1, <1>10
  <2>2. c = first + (Len(handled) + 1)
    BY <1>1 DEF c, Upcoming
  <2>. QED BY <1>10, <2>1, <2>2 DEF HandledSoFar
<1>. QED BY <1>10, <1>11

\* A read of the stream, up to the end of a packet.
LEMMA Reading ==
  ASSUME GfireTyped, NEW c \in Nat, NEW k \in Nat, NEW n \in Nat,
         Pieces(inbox, wire, <<c, k>>, ~ended, HeaderSize, sent),
         k + n <= HeaderSize + sent[c] + 1, sent[c] \in Nat, Consume(n)
  PROVE  /\ Len(Read(n)) \in 0..n
         /\ Read(n) = [j \in 1..Len(Read(n)) |-> <<c, k + j - 1>>]
         /\ Pieces(inbox', wire', IF Len(Read(n)) = 0 THEN <<c, k>>
                                    ELSE PlaceAfter(c, k, Len(Read(n)), HeaderSize, sent),
                   ~ended', HeaderSize, sent')
<1> DEFINE m == Shorter(n, Len(inbox))
           open == ~ended
           H == HeaderSize
<1>1. sent \in Seq(Nat) /\ open \in BOOLEAN /\ inbox \in Seq(StreamByte) /\ Len(inbox) \in Nat
  BY SizesAreNumbers, LenProperties DEF GfireTyped, Pieces
<1>2. m \in 0..Len(inbox) /\ m \in 0..n /\ H \in Nat \ {0}
  <2>1. Len(inbox) \in Nat
    BY <1>1
  <2>2. m \in 0..Len(inbox) /\ m \in 0..n
    BY ONLY <2>1, n \in Nat DEF Shorter
  <2>. QED BY <2>2, HeaderSizeIsPositive
<1>3. /\ inbox' = SubSeq(inbox, m + 1, Len(inbox)) /\ Read(n) = SubSeq(inbox, 1, m)
      /\ wire' = wire /\ sent' = sent /\ ended' = ended
  BY DEF Consume, Read
<1>. HIDE DEF m, open, H
<1>4. Len(Read(n)) = m
  BY <1>1, <1>2, <1>3, FrontFacts
<1>5. Pieces(inbox, wire, <<c, k>>, open, H, sent)
  BY DEF open, H
<1>6. CASE m = 0
  <2>1. inbox' = inbox
    BY <1>1, <1>3, <1>6, SubSeqFull
  <2>2. Read(n) = [j \in 1..m |-> <<c, k + j - 1>>]
    <3>1. 1..m = {}
      BY <1>6
    <3>2. [j \in 1..m |-> <<c, k + j - 1>>] = <<>>
      BY <3>1
    <3>. QED BY <1>3, <1>6, <3>2, SubSeqEmpty
  <2>. QED BY <1>2, <1>3, <1>4, <1>5, <1>6, <2>1, <2>2 DEF open, H
<1>7. CASE m # 0
  <2> DEFINE l == Len(inbox)
             z == sent[c]
  <2>1. m \in 1..Len(inbox) /\ k + m <= H + sent[c] + 1
    <3>1. l \in Nat /\ m \in 0..l /\ m \in 0..n /\ m # 0 /\ z \in Nat /\ H \in Nat
          /\ k + n <= H + z + 1
      BY <1>1, <1>2, <1>7 DEF H
    <3>. HIDE DEF l, z
    <3>2. m \in 1..l /\ k + m <= H + z + 1
      BY ONLY <3>1, k \in Nat, n \in Nat
    <3>. QED BY <3>2 DEF l, z
  <2>2. /\ SubSeq(inbox, 1, m) = [j \in 1..m |-> <<c, k + j - 1>>]
        /\ Pieces(SubSeq(inbox, m + 1, Len(inbox)), wire, PlaceAfter(c, k, m, H, sent), open, H, sent)
    BY <1>1, <1>2, <1>5, <2>1, PiecesRead, Zenon
  <2>. QED BY <1>2, <1>3, <1>4, <1>7, <2>2 DEF open, H
<1>. QED BY <1>6, <1>7

(* The steps, while the statics have not mixed two connections.              *)
LEMMA GfireInitInv ==
  ASSUME GfireInit
  PROVE  GfireIInv
<1>1. /\ sent = <<>> /\ ended = FALSE /\ state = "offline" /\ temp_length = 0
      /\ handled = <<>> /\ first = 0 /\ stale = FALSE
  BY DEF GfireInit, StreamInit
<1>2. Len(handled) = 0 /\ 1..Len(handled) = {} /\ handled \in Seq(GfireEvent) /\ sent \in Seq(BodySizes)
  BY <1>1, EmptySeq
<1>3. HandledSoFar /\ GfireStreamInPlace /\ HeaderInPlace /\ GfireTyped
  BY <1>1, <1>2 DEF HandledSoFar, GfireStreamInPlace, HeaderInPlace, GfireTyped
<1>4. StaticsInPlace
  <2>1. temp_length \in Nat /\ ~ (temp_length > 0)
    BY <1>1
  <2>. QED BY <2>1 DEF StaticsInPlace, Kept
<1>. QED BY <1>3, <1>4 DEF GfireIInv, GfireInPlace

\* The other account, and a new connection, leave the packets behind.
LEMMA GfireTypedSteps ==
  ASSUME GfireTyped, GfireNext
  PROVE  GfireTyped'
<1>1. /\ sent \in Seq(BodySizes) /\ ended \in BOOLEAN /\ first \in Nat /\ stale \in BOOLEAN
      /\ Len(sent) \in Nat
  BY SizesAreNumbers DEF GfireTyped
<1>2. CASE Login
  BY <1>1, <1>2 DEF Login, GfireTyped
<1>3. CASE Close
  BY <1>1, <1>3 DEF Close, streamVars, GfireTyped
<1>4. CASE Callback
  <2>1. /\ sent' = sent /\ ended' = ended /\ first' = first /\ stale' \in BOOLEAN
        /\ state' \in {"offline", "online", "body", "crashed"}
    <3>1. CASE ReadMore
      BY <1>1, <3>1 DEF ReadMore, Consume, GfireTyped
    <3>2. CASE BeginPacket
      BY <1>1, <3>2 DEF BeginPacket, Consume, GfireTyped
    <3>3. CASE ReadRest
      BY <1>1, <3>3 DEF ReadRest, Consume, GfireTyped
    <3>. QED BY <1>4, <3>1, <3>2, <3>3 DEF Callback
  <2>. QED BY <1>1, <2>1 DEF GfireTyped
<1>5. CASE ReadFails
  BY <1>1, <1>5 DEF ReadFails, streamVars, GfireTyped
<1>6. CASE OtherAccount
  <2>1. /\ sent' = sent /\ ended' = ended /\ first' = first /\ stale' \in BOOLEAN /\ state' = state
    BY <1>1, <1>6 DEF OtherAccount, OtherBegins, OtherReadsMore, streamVars
  <2>. QED BY <1>1, <2>1 DEF GfireTyped
<1>7. CASE Stream
  <2>1. state' = state /\ first' = first /\ stale' = stale /\ StreamNext
    BY <1>7 DEF Stream
  <2>2. sent' \in Seq(BodySizes) /\ ended' \in BOOLEAN
    <3>1. ASSUME NEW size \in BodySizes, ServerSend(size)
          PROVE  sent' \in Seq(BodySizes) /\ ended' \in BOOLEAN
      BY <1>1, <3>1, AppendProperties DEF ServerSend
    <3>. QED BY <1>1, <2>1, <3>1 DEF StreamNext, Arrive, HangUp
  <2>. QED BY <2>1, <2>2, <1>1 DEF GfireTyped
<1>. QED BY <1>2, <1>3, <1>4, <1>5, <1>6, <1>7 DEF GfireNext

\* A log-in: what the statics hold is of the other account, or nothing.
LEMMA GfireLoginStep ==
  ASSUME GfireTyped, GfireInPlace, Login, ~stale'
  PROVE  GfireInPlace'
<1>1. /\ state' = "online" /\ wire' = <<>> /\ inbox' = <<>> /\ ended' = FALSE /\ first' = Len(sent)
      /\ sent' = sent /\ handled' = <<>> /\ temp_length' = temp_length /\ temp_buffer' = temp_buffer
      /\ ~Kept
  BY DEF Login, Kept
<1>2. Len(handled') = 0 /\ 1..Len(handled') = {} /\ handled' \in Seq(GfireEvent) /\ Len(sent) \in Nat
  BY <1>1, EmptySeq, SizesAreNumbers DEF GfireTyped
<1>3. ~Kept'
  BY <1>1 DEF Kept, IsForeign
<1>4. HandledSoFar' /\ HeaderInPlace'
  BY <1>1, <1>2 DEF HandledSoFar, HeaderInPlace
<1>5. StaticsInPlace'
  BY <1>1, <1>3 DEF GfireInPlace, StaticsInPlace
<1>6. GfireStreamInPlace'
  <2>1. Upcoming' = Len(sent) + 1
    BY <1>1, <1>2 DEF Upcoming
  <2>2. GfirePlace' = <<Len(sent) + 1, 1>>
    BY <1>1, <1>3, <2>1 DEF GfirePlace
  <2>3. Pieces(<<>>, <<>>, <<Len(sent) + 1, 1>>, TRUE, HeaderSize, sent)
    BY PiecesBegin
  <2>. QED BY <1>1, <2>2, <2>3 DEF GfireStreamInPlace
<1>. QED BY <1>4, <1>5, <1>6 DEF GfireInPlace

\* Nothing of the connection goes on.
LEMMA GfireEndStep ==
  ASSUME GfireTyped, GfireInPlace, Close \/ ReadFails
  PROVE  GfireInPlace'
<1>1. /\ state' \in {"offline", "crashed"} /\ handled' = handled /\ first' = first /\ sent' = sent
      /\ temp_length' = temp_length /\ temp_buffer' = temp_buffer
  BY DEF Close, ReadFails, streamVars
<1>2. Upcoming' = Upcoming /\ Kept' = Kept
  BY <1>1 DEF Upcoming, Kept, IsForeign
<1>3. HandledSoFar' /\ GfireStreamInPlace' /\ HeaderInPlace'
  BY <1>1 DEF GfireInPlace, HandledSoFar, GfireStreamInPlace, HeaderInPlace
<1>4. StaticsInPlace'
  BY <1>1, <1>2 DEF GfireInPlace, StaticsInPlace
<1>. QED BY <1>3, <1>4 DEF GfireInPlace

\* The other account's bytes bear the number 0, and stay apart from this one's.
LEMMA GfireOtherStep ==
  ASSUME GfireTyped, GfireInPlace, OtherAccount, ~stale'
  PROVE  GfireInPlace'
<1>1. /\ handled' = handled /\ first' = first /\ sent' = sent /\ state' = state
      /\ inbox' = inbox /\ wire' = wire /\ ended' = ended /\ len' = len /\ header' = header
      /\ state \in {"offline", "online"}
  BY DEF OtherAccount, OtherBegins, OtherReadsMore, streamVars
<1>2. ~Kept /\ ~Kept' /\ temp_length' \in Nat /\ (temp_length' > 0 => temp_buffer' \in Seq(StreamByte))
  <2>1. ASSUME NEW size \in BodySizes, NEW k \in 0..(size - 1), OtherBegins(size, k)
        PROVE  <1>2
    <3>1. /\ temp_length = 0 /\ temp_buffer' = [i \in 1..(HeaderSize + k) |-> <<0, i>>]
          /\ temp_length' = size - k
      BY <2>1 DEF OtherBegins
    <3>2. size \in Nat /\ k \in Nat /\ HeaderSize + k \in Nat /\ HeaderSize + k > 0 /\ size - k \in Nat
      <4>1. size \in Nat
        BY StreamAssumption
      <4>. QED BY <4>1, HeaderSizeIsPositive
    <3>3. temp_buffer' = FirstBytes(0, HeaderSize + k)
      BY <3>1 DEF FirstBytes
    <3>4. temp_buffer' \in Seq(StreamByte) /\ temp_buffer'[1] = <<0, 1>> /\ Len(temp_buffer') > 0
      <4>1. 1 \in 1..(HeaderSize + k)
        BY <3>2
      <4>. QED BY <3>2, <3>3, <4>1, FirstBytesFacts
    <3>5. temp_buffer' # <<>>
      BY <3>4, EmptySeq
    <3>6. IsForeign(temp_buffer')
      BY <3>4, <3>5 DEF IsForeign
    <3>7. IsForeign(temp_buffer)'
      BY <3>6 DEF IsForeign
    <3>8. ~ (temp_length > 0)
      BY <3>1
    <3>. QED BY <3>1, <3>2, <3>4, <3>7, <3>8 DEF Kept
  <2>2. ASSUME NEW k \in 1..temp_length, OtherReadsMore(k)
        PROVE  <1>2
    <3>1. /\ temp_length > 0 /\ temp_length' = temp_length - k /\ IsForeign(temp_buffer)
          /\ temp_buffer' = IF temp_length' = 0 THEN <<>>
                            ELSE temp_buffer \o [i \in 1..k |-> <<0, Len(temp_buffer) + i>>]
      BY <2>2 DEF OtherReadsMore
    <3>2. temp_buffer \in Seq(StreamByte) /\ temp_length \in Nat
      BY <3>1 DEF GfireInPlace, StaticsInPlace
    <3>3. k \in Nat /\ temp_length - k \in Nat /\ Len(temp_buffer) \in Nat /\ Len(temp_buffer) > 0
      <4>1. temp_buffer # <<>>
        BY <3>1 DEF IsForeign
      <4>2. Len(temp_buffer) \in Nat /\ Len(temp_buffer) # 0
        BY <3>2, <4>1, EmptySeq, LenProperties
      <4>. QED BY <3>2, <4>2
    <3>4. CASE temp_length' = 0
      <4>1. ~ (temp_length' > 0)
        BY <3>4
      <4>. QED BY <3>1, <3>3, <4>1 DEF Kept
    <3>5. CASE temp_length' # 0
      <4> DEFINE t == [i \in 1..k |-> <<0, Len(temp_buffer) + i>>]
      <4>1. t \in Seq(StreamByte) /\ Len(t) = k
        <5>1. t \in [1..k -> StreamByte]
          BY <3>3 DEF StreamByte
        <5>. QED BY ONLY <3>3, <5>1, FunctionIsSeq
      <4>. HIDE DEF t
      <4>2. /\ temp_buffer \o t \in Seq(StreamByte) /\ Len(temp_buffer \o t) = Len(temp_buffer) + k
            /\ \A i \in 1..(Len(temp_buffer) + k) :
                 (temp_buffer \o t)[i] = IF i <= Len(temp_buffer) THEN temp_buffer[i]
                                         ELSE t[i - Len(temp_buffer)]
        BY <3>2, <4>1, ConcatProperties
      <4>3. temp_buffer' = temp_buffer \o t
        BY <3>1, <3>5 DEF t
      <4>4. 1 \in 1..(Len(temp_buffer) + k) /\ 1 <= Len(temp_buffer) /\ Len(temp_buffer) + k # 0
        BY <3>3
      <4>5. temp_buffer'[1] = temp_buffer[1] /\ temp_buffer' # <<>>
        BY <4>2, <4>3, <4>4, EmptySeq
      <4>6. IsForeign(temp_buffer)'
        BY <3>1, <4>5 DEF IsForeign
      <4>. QED BY <3>1, <3>3, <4>2, <4>3, <4>6 DEF Kept
    <3>. QED BY <3>4, <3>5
  <2>. QED BY <2>1, <2>2 DEF OtherAccount
<1>3. Upcoming' = Upcoming
  BY <1>1 DEF Upcoming
<1>4. HandledSoFar' /\ HeaderInPlace'
  BY <1>1 DEF GfireInPlace, HandledSoFar, HeaderInPlace
<1>5. StaticsInPlace'
  BY <1>2 DEF StaticsInPlace
<1>6. GfireStreamInPlace'
  <2>1. GfirePlace' = <<Upcoming, 1>> /\ GfirePlace = <<Upcoming, 1>>
    BY <1>1, <1>2, <1>3 DEF GfirePlace
  <2>. QED BY <1>1, <2>1 DEF GfireInPlace, GfireStreamInPlace
<1>. QED BY <1>4, <1>5, <1>6 DEF GfireInPlace

\* Bytes move along the connection.
LEMMA GfireStreamStep ==
  ASSUME GfireTyped, GfireInPlace, Stream
  PROVE  GfireInPlace'
<1> DEFINE place == GfirePlace
<1>1. /\ sent \in Seq(BodySizes) /\ sent \in Seq(Nat) /\ (~ended) \in BOOLEAN /\ Len(sent) \in Nat
      /\ Pieces(inbox, wire, place, ~ended, HeaderSize, sent)
  BY SizesAreNumbers DEF GfireTyped, GfireInPlace, GfireStreamInPlace, Stream
<1>2. /\ state' = state /\ handled' = handled /\ first' = first /\ len' = len /\ header' = header
      /\ temp_length' = temp_length /\ temp_buffer' = temp_buffer
  BY DEF Stream
<1>3. Upcoming' = Upcoming /\ Kept' = Kept /\ place' = place
  BY <1>2 DEF Upcoming, Kept, IsForeign, GfirePlace
<1>. HIDE DEF place
<1>4. /\ Pieces(inbox', wire', place, ~ended', HeaderSize, sent')
      /\ 1..Len(sent) \subseteq 1..Len(sent') /\ \A n \in 1..Len(sent) : sent'[n] = sent[n]
  <2>1. ASSUME NEW size \in BodySizes, ServerSend(size)
        PROVE  <1>4
    <3>1. /\ ended = FALSE /\ ended' = ended /\ inbox' = inbox /\ sent' = Append(sent, size)
          /\ wire' = wire \o Bytes(Len(sent'), size) /\ size \in Nat
      BY <1>1, <2>1, StreamAssumption DEF ServerSend, GfireTyped
    <3>2. /\ Len(sent') = Len(sent) + 1
          /\ \A n \in 1..Len(sent) : sent'[n] = sent[n]
      BY <1>1, <3>1, AppendProperties
    <3>3. wire' = wire \o [k \in 1..(HeaderSize + size) |-> <<Len(sent) + 1, k>>]
      BY <3>1, <3>2 DEF Bytes
    <3>4. Pieces(inbox, wire, place, TRUE, HeaderSize, sent)
      BY <1>1, <3>1
    <3>5. Pieces(inbox, wire \o [k \in 1..(HeaderSize + size) |-> <<Len(sent) + 1, k>>], place, TRUE,
                 HeaderSize, Append(sent, size))
      BY <1>1, <3>1, <3>4, HeaderSizeIsPositive, PiecesWritten
    <3>6. Pieces(inbox', wire', place, ~ended', HeaderSize, sent')
      BY <3>1, <3>3, <3>5
    <3>7. 1..Len(sent) \subseteq 1..Len(sent')
      BY <1>1, <3>2
    <3>. QED BY <3>2, <3>6, <3>7
  <2>2. ASSUME NEW k \in 1..Len(wire), Arrive(k)
        PROVE  <1>4
    <3>1. /\ sent' = sent /\ ended' = ended
          /\ inbox' = inbox \o SubSeq(wire, 1, k) /\ wire' = SubSeq(wire, k + 1, Len(wire))
      BY <2>2 DEF Arrive
    <3>. QED BY <1>1, <3>1, PiecesArrived
  <2>3. ASSUME NEW k \in 0..Len(wire), HangUp(k)
        PROVE  <1>4
    <3>1. ended' = TRUE /\ sent' = sent /\ inbox' = inbox /\ wire' = SubSeq(wire, 1, k)
      BY <2>3 DEF HangUp
    <3>2. Pieces(inbox', wire', place, FALSE, HeaderSize, sent)
      BY ONLY <1>1, <3>1, k \in 0..Len(wire), HeaderSizeIsPositive, PiecesCut
    <3>. QED BY <1>1, <3>1, <3>2
  <2>. QED BY <2>1, <2>2, <2>3 DEF StreamNext, Stream
<1>5. HandledSoFar'
  BY <1>2 DEF GfireInPlace, HandledSoFar
<1>6. GfireStreamInPlace'
  BY <1>3, <1>4 DEF GfireStreamInPlace, place
<1>7. StaticsInPlace'
  BY <1>2, <1>3, <1>4 DEF GfireInPlace, StaticsInPlace
<1>8. HeaderInPlace'
  BY <1>2, <1>3, <1>4 DEF GfireInPlace, HeaderInPlace
<1>. QED BY <1>5, <1>6, <1>7, <1>8 DEF GfireInPlace

\* A call that begins a packet reads the header of the next one.
LEMMA GfireHeaderStep ==
  ASSUME GfireTyped, GfireInPlace, BeginPacket
  PROVE  GfireInPlace'
<1> DEFINE c == Upcoming
           H == HeaderSize
           m == Len(Read(H))
<1>1. /\ state = "online" /\ temp_length = 0 /\ Consume(H) /\ handled' = handled /\ first' = first
      /\ temp_length' = temp_length /\ temp_buffer' = temp_buffer /\ sent' = sent
      /\ \/ state' = "offline"
         \/ /\ state' = "body" /\ header' = Read(H) /\ len' \in Announced(Read(H))
            /\ ~ (Len(inbox) < H)
  BY DEF BeginPacket, Consume
<1>2. Upcoming' = Upcoming /\ ~Kept /\ ~Kept'
  <2>1. ~ (temp_length > 0)
    BY <1>1
  <2>. QED BY <1>1, <2>1 DEF Upcoming, Kept
<1>3. HandledSoFar'
  BY <1>1 DEF GfireInPlace, HandledSoFar
<1>4. StaticsInPlace'
  BY <1>1, <1>2 DEF GfireInPlace, StaticsInPlace
<1>5. CASE state' = "offline"
  BY <1>3, <1>4, <1>5 DEF GfireInPlace, GfireStreamInPlace, HeaderInPlace
<1>6. CASE state' = "body"
  <2>1. /\ sent \in Seq(Nat) /\ Len(sent) \in Nat /\ \A n \in 1..Len(sent) : sent[n] \in Nat
        /\ H \in Nat \ {0}
    BY SizesAreNumbers, HeaderSizeIsPositive DEF GfireTyped
  <2>2. c \in Nat
    BY UpcomingIsNumber DEF GfireInPlace
  <2>3. Pieces(inbox, wire, <<c, 1>>, ~ended, H, sent)
    BY <1>1, <1>2 DEF GfireInPlace, GfireStreamInPlace, GfirePlace
  <2>4. inbox \in Seq(StreamByte) /\ Len(inbox) \in Nat
    BY <2>3, LenProperties DEF Pieces
  <2>5. Len(inbox) >= H /\ Len(inbox) # 0 /\ Shorter(H, Len(inbox)) = H /\ H \in 0..Len(inbox)
    BY <1>1, <1>6, <2>1, <2>4 DEF Shorter
  <2>6. inbox # <<>>
    BY <2>5, EmptySeq
  <2>7. c \in 1..Len(sent)
    <3>. HIDE DEF c, H
    <3>. QED BY <2>1, <2>3, <2>6, PiecesAt
  <2>8. sent[c] \in Nat /\ 1 + H <= H + sent[c] + 1 /\ H \in Nat /\ 1 \in Nat
    BY <2>1, <2>7
  <2>9. Len(Read(H)) = H
    BY <2>4, <2>5, FrontFacts DEF Read
  <2>. HIDE DEF c, H
  <2>10. /\ Read(H) = [j \in 1..H |-> <<c, 1 + j - 1>>]
         /\ Pieces(inbox', wire', IF H = 0 THEN <<c, 1>> ELSE PlaceAfter(c, 1, H, HeaderSize, sent),
                   ~ended', HeaderSize, sent')
    <3>1. Pieces(inbox, wire, <<c, 1>>, ~ended, HeaderSize, sent) /\ 1 + H <= HeaderSize + sent[c] + 1
      BY <2>3, <2>8 DEF H
    <3>. QED BY <1>1, <2>2, <2>8, <2>9, <3>1, Reading
  <2>11. Read(H) = FirstBytes(c, H)
    <3>1. \A j \in 1..H : 1 + j - 1 = j
      BY <2>8
    <3>. QED BY <2>10, <3>1 DEF FirstBytes
  <2>12. len' = sent[c]
    <3>1. IsHeader(Read(H)) /\ HeaderOf(Read(H)) = c
      <4>1. \A k \in 1..H : Read(H)[k] = <<c, k>>
        BY <2>11 DEF FirstBytes
      <4>2. Read(H)[1][1] = c
        <5>1. 1 \in 1..H
          BY <2>1
        <5>. QED BY <4>1, <5>1
      <4>. QED BY <2>9, <4>1, <4>2 DEF IsHeader, HeaderOf, H
    <3>. QED BY <1>1, <1>6, <3>1 DEF Announced
  <2>13. HeaderInPlace'
    BY <1>1, <1>2, <1>6, <2>7, <2>11, <2>12 DEF HeaderInPlace, c, H
  <2>14. GfireStreamInPlace'
    <3>1. GfirePlace' = IF sent[c] > 0 THEN <<c, H + 1>> ELSE <<c + 1, 1>>
      BY <1>2, <1>6, <2>12 DEF GfirePlace, c, H
    <3>2. PlaceAfter(c, 1, H, HeaderSize, sent) = IF sent[c] > 0 THEN <<c, H + 1>> ELSE <<c + 1, 1>>
      <4>1. 1 + H = H + 1 /\ (1 + H <= HeaderSize + sent[c] <=> sent[c] > 0)
        BY <2>8 DEF H
      <4>. QED BY <4>1 DEF PlaceAfter
    <3>3. H # 0
      BY <2>1
    <3>. QED BY <2>10, <3>1, <3>2, <3>3 DEF GfireStreamInPlace
  <2>. QED BY <1>3, <1>4, <2>13, <2>14 DEF GfireInPlace
<1>. QED BY <1>1, <1>5, <1>6

\* A call that goes on reads what is missing of the packet, or some of it.
LEMMA GfireMoreStep ==
  ASSUME GfireTyped, GfireInPlace, ReadMore, ~stale'
  PROVE  GfireInPlace'
<1> DEFINE c == Upcoming
           H == HeaderSize
           a == Len(temp_buffer)
           n == temp_length
           m == Len(Read(n))
<1>1. /\ state = "online" /\ state' = "online" /\ n > 0 /\ Consume(n) /\ first' = first
      /\ n' = n - m /\ sent' = sent /\ Kept
      /\ IF n' = 0 THEN temp_buffer' = <<>> /\ Dispatch(temp_buffer \o Read(n))
                   ELSE temp_buffer' = temp_buffer \o Read(n) /\ handled' = handled
  BY DEF ReadMore, Consume, Kept
<1>2. /\ n \in Nat /\ temp_buffer \in Seq(StreamByte)
      /\ c \in 1..Len(sent) /\ a >= H /\ a + n = H + sent[c] /\ temp_buffer = FirstBytes(c, a)
  BY <1>1 DEF GfireInPlace, StaticsInPlace
<1>3. c \in Nat /\ a \in Nat /\ H \in Nat \ {0} /\ sent[c] \in Nat
  BY <1>2, SizesAreNumbers, HeaderSizeIsPositive, LenProperties DEF GfireTyped
<1>4. Pieces(inbox, wire, <<c, a + 1>>, ~ended, HeaderSize, sent)
  BY <1>1 DEF GfireInPlace, GfireStreamInPlace, GfirePlace
<1>. HIDE DEF c, H, a, n
<1>5. /\ m \in 0..n
      /\ Read(n) = [j \in 1..m |-> <<c, a + 1 + j - 1>>]
      /\ Pieces(inbox', wire', IF m = 0 THEN <<c, a + 1>>
                                 ELSE PlaceAfter(c, a + 1, m, HeaderSize, sent),
                ~ended', HeaderSize, sent')
  <2>1. a + 1 \in Nat /\ a + 1 + n <= HeaderSize + sent[c] + 1
    BY <1>2, <1>3 DEF H
  <2>. QED BY <1>1, <1>2, <1>3, <1>4, <2>1, Reading
<1>. HIDE DEF m
<1>6. m \in Nat /\ a + m \in Nat /\ m <= n
  BY <1>2, <1>3, <1>5
<1>7. temp_buffer \o Read(n) = FirstBytes(c, a + m)
  <2>1. \A j \in 1..m : a + 1 + j - 1 = a + j
    BY <1>3, <1>6
  <2>2. Read(n) = [j \in 1..m |-> <<c, a + j>>]
    BY <1>5, <2>1
  <2>3. FirstBytes(c, a) \o [j \in 1..m |-> <<c, a + j>>] = FirstBytes(c, a + m)
    BY <1>3, <1>6, FirstBytesGoOn
  <2>. QED BY <1>2, <2>2, <2>3
<1>8. HeaderInPlace'
  BY <1>1 DEF HeaderInPlace
<1>9. CASE n' = 0
  <2>1. n' = temp_length' /\ m = n /\ m > 0 /\ a + m = HeaderSize + sent[c]
    <3>1. n' = n - m
      BY <1>1
    <3>. QED BY <1>1, <1>2, <1>6, <1>9, <3>1 DEF n, H
  <2>2. Dispatch(temp_buffer \o Read(n))
    BY <1>1, <1>9
  <2>3. /\ handled' \in Seq(GfireEvent) /\ Len(handled') = Len(handled) + 1
        /\ \A i \in 1..Len(handled') : handled'[i] = [packet |-> first + i, whole |-> TRUE]
    BY <1>2, <1>7, <2>1, <2>2, DispatchNext DEF GfireInPlace, c
  <2>4. HandledSoFar'
    BY <1>1, <2>3 DEF HandledSoFar
  <2>5. Upcoming' = c + 1 /\ ~Kept' /\ temp_length' = 0
    BY <1>1, <1>9, <2>1, <2>3, UpcomingIsNumber DEF GfireInPlace, Upcoming, Kept, c
  <2>6. StaticsInPlace'
    BY <2>5 DEF StaticsInPlace
  <2>7. GfireStreamInPlace'
    <3>1. GfirePlace' = <<c + 1, 1>>
      BY <1>1, <2>5 DEF GfirePlace
    <3>2. ~ (a + 1 + m <= HeaderSize + sent[c]) /\ m # 0
      BY <1>3, <1>6, <2>1 DEF H
    <3>3. PlaceAfter(c, a + 1, m, HeaderSize, sent) = <<c + 1, 1>>
      BY <3>2 DEF PlaceAfter
    <3>. QED BY <1>5, <3>1, <3>2, <3>3 DEF GfireStreamInPlace
  <2>. QED BY <1>8, <2>4, <2>6, <2>7 DEF GfireInPlace
<1>10. CASE n' # 0
  <2>1. /\ n' = temp_length' /\ n' = n - m /\ n' \in Nat /\ n' > 0
        /\ temp_buffer' = temp_buffer \o Read(n) /\ handled' = handled
    <3>1. n' = n - m /\ temp_buffer' = temp_buffer \o Read(n) /\ handled' = handled
      BY <1>1, <1>10
    <3>2. n - m \in Nat
      BY <1>2, <1>6
    <3>3. n' = temp_length'
      BY DEF n
    <3>. QED BY <1>10, <3>1, <3>2, <3>3
  <2>2. Upcoming' = c
    BY <1>1, <2>1 DEF Upcoming, c
  <2>3. HandledSoFar'
    BY <1>1, <2>1 DEF GfireInPlace, HandledSoFar
  <2>4. temp_buffer' = FirstBytes(c, a + m)
    BY <1>7, <2>1
  <2>5. temp_buffer' \in Seq(StreamByte) /\ Len(temp_buffer') = a + m
    BY <1>3, <1>6, <2>4, FirstBytesFacts
  <2>6. StaticsInPlace'
    <3>1. a + m >= HeaderSize /\ a + m + n' = HeaderSize + sent[c]
      BY <1>2, <1>3, <1>6, <2>1 DEF H
    <3>. QED BY <1>1, <1>2, <2>1, <2>2, <2>4, <2>5, <3>1 DEF StaticsInPlace
  <2>7. Kept'
    <3>1. temp_buffer'[1] = <<c, 1>> /\ c # 0
      <4>1. 1 \in 1..(a + m)
        BY <1>2, <1>3, <1>6
      <4>2. temp_buffer'[1] = <<c, 1>>
        BY <2>4, <4>1 DEF FirstBytes
      <4>. QED BY <1>2, <4>2
    <3>2. ~IsForeign(temp_buffer)'
      BY <3>1 DEF IsForeign
    <3>. QED BY <2>1, <3>2 DEF Kept
  <2>8. GfireStreamInPlace'
    <3>1. GfirePlace' = <<c, a + m + 1>>
      BY <1>1, <2>2, <2>5, <2>7 DEF GfirePlace
    <3>2. m = 0 => <<c, a + 1>> = <<c, a + m + 1>>
      BY <1>3
    <3>3. m # 0 => PlaceAfter(c, a + 1, m, HeaderSize, sent) = <<c, a + m + 1>>
      <4>1. a + 1 + m = a + m + 1 /\ a + 1 + m <= HeaderSize + sent[c]
        BY <1>2, <1>3, <1>6, <2>1 DEF H
      <4>. QED BY <4>1 DEF PlaceAfter
    <3>. QED BY <1>5, <3>1, <3>2, <3>3 DEF GfireStreamInPlace
  <2>. QED BY <1>8, <2>3, <2>6, <2>8 DEF GfireInPlace
<1>. QED BY <1>9, <1>10

\* The second read of a call that began a packet.
LEMMA GfireBodyStep ==
  ASSUME GfireTyped, GfireInPlace, ReadRest
  PROVE  GfireInPlace'
<1> DEFINE c == Upcoming
           H == HeaderSize
           n == len
           m == Len(Read(n))
<1>1. /\ state = "body" /\ state' = "online" /\ Consume(n) /\ first' = first /\ sent' = sent
      /\ IF m # n THEN /\ temp_length' = n - m /\ temp_buffer' = header \o Read(n)
                       /\ handled' = handled
                  ELSE Dispatch(header \o Read(n)) /\ temp_length' = temp_length
  BY DEF ReadRest, Consume
<1>2. /\ temp_length = 0 /\ c \in 1..Len(sent) /\ n = sent[c] /\ header = FirstBytes(c, H)
      /\ Pieces(inbox, wire, IF n > 0 THEN <<c, H + 1>> ELSE <<c + 1, 1>>, ~ended, HeaderSize, sent)
  BY <1>1 DEF GfireInPlace, HeaderInPlace, GfireStreamInPlace, GfirePlace
<1>3. c \in Nat /\ H \in Nat \ {0} /\ sent[c] \in Nat /\ n \in Nat
  BY <1>2, SizesAreNumbers, HeaderSizeIsPositive DEF GfireTyped
<1>. HIDE DEF c, H, n
<1>4. /\ m \in 0..n
      /\ Read(n) = [j \in 1..m |-> <<c, H + j>>]
      /\ Pieces(inbox', wire', IF m = n THEN <<c + 1, 1>> ELSE <<c, H + m + 1>>,
                ~ended', HeaderSize, sent')
  <2>1. CASE n = 0
    <3>1. Pieces(inbox, wire, <<c + 1, 1>>, ~ended, HeaderSize, sent)
      <4>1. ~ (n > 0)
        BY <2>1
      <4>. QED BY <1>2, <4>1
    <3>2. inbox \in Seq(StreamByte) /\ Len(inbox) \in Nat
      BY <1>2, LenProperties DEF Pieces
    <3>3. Shorter(n, Len(inbox)) = 0
      BY <2>1, <3>2 DEF Shorter
    <3>4. Read(n) = <<>> /\ inbox' = inbox /\ wire' = wire /\ ended' = ended
      BY <1>1, <3>2, <3>3, SubSeqEmpty, SubSeqFull DEF Read, Consume
    <3>5. m = 0
      BY <3>4, EmptySeq
    <3>6. Read(n) = [j \in 1..m |-> <<c, H + j>>]
      <4>1. 1..m = {}
        BY <3>5
      <4>2. [j \in 1..m |-> <<c, H + j>>] = <<>>
        BY <4>1
      <4>. QED BY <3>4, <4>2
    <3>7. m \in 0..n /\ m = n
      BY <2>1, <3>5
    <3>. QED BY <1>1, <3>1, <3>4, <3>6, <3>7
  <2>2. CASE n # 0
    <3>1. n > 0 /\ H + 1 \in Nat /\ H + 1 + n <= HeaderSize + sent[c] + 1
      BY <1>2, <1>3, <2>2 DEF H
    <3>2. Pieces(inbox, wire, <<c, H + 1>>, ~ended, HeaderSize, sent)
      BY <1>2, <3>1
    <3>3. /\ m \in 0..n
          /\ Read(n) = [j \in 1..m |-> <<c, H + 1 + j - 1>>]
          /\ Pieces(inbox', wire', IF m = 0 THEN <<c, H + 1>>
                                     ELSE PlaceAfter(c, H + 1, m, HeaderSize, sent),
                    ~ended', HeaderSize, sent')
      BY <1>1, <1>3, <3>1, <3>2, Reading
    <3>. HIDE DEF m
    <3>4. m \in Nat
      BY <1>3, <3>3
    <3>5. Read(n) = [j \in 1..m |-> <<c, H + j>>]
      <4>1. \A j \in 1..m : H + 1 + j - 1 = H + j
        BY <1>3, <3>4
      <4>. QED BY <3>3, <4>1
    <3>6. (IF m = 0 THEN <<c, H + 1>> ELSE PlaceAfter(c, H + 1, m, HeaderSize, sent))
            = IF m = n THEN <<c + 1, 1>> ELSE <<c, H + m + 1>>
      <4>1. CASE m = n
        <5>1. ~ (H + 1 + m <= HeaderSize + sent[c]) /\ m # 0
          BY <1>2, <1>3, <2>2, <4>1 DEF H
        <5>. QED BY <4>1, <5>1 DEF PlaceAfter
      <4>2. CASE m # n
        <5>1. H + 1 + m <= HeaderSize + sent[c] /\ H + 1 + m = H + m + 1
          BY <1>2, <1>3, <3>3, <4>2 DEF H
        <5>2. m = 0 => <<c, H + 1>> = <<c, H + m + 1>>
          BY <1>3
        <5>. QED BY <4>2, <5>1, <5>2 DEF PlaceAfter
      <4>. QED BY <4>1, <4>2
    <3>. QED BY <3>3, <3>5, <3>6
  <2>. QED BY <2>1, <2>2
<1>. HIDE DEF m
<1>5. m \in Nat /\ H + m \in Nat /\ m <= n
  BY <1>3, <1>4
<1>6. header \o Read(n) = FirstBytes(c, H + m)
  <2>1. FirstBytes(c, H) \o [j \in 1..m |-> <<c, H + j>>] = FirstBytes(c, H + m)
    BY <1>3, <1>5, FirstBytesGoOn
  <2>. QED BY <1>2, <1>4, <2>1
<1>7. HeaderInPlace'
  BY <1>1 DEF HeaderInPlace
<1>8. CASE m = n
  <2>1. Dispatch(header \o Read(n)) /\ temp_length' = 0 /\ ~ (temp_length' > 0)
    BY <1>1, <1>2, <1>8
  <2>2. /\ handled' \in Seq(GfireEvent) /\ Len(handled') = Len(handled) + 1
        /\ \A i \in 1..Len(handled') : handled'[i] = [packet |-> first + i, whole |-> TRUE]
    <3>1. header \o Read(n) = FirstBytes(c, HeaderSize + sent[c])
      BY <1>2, <1>6, <1>8 DEF H
    <3>. QED BY <1>2, <2>1, <3>1, DispatchNext DEF GfireInPlace, c
  <2>3. HandledSoFar'
    BY <1>1, <2>2 DEF HandledSoFar
  <2>4. Upcoming' = c + 1 /\ ~Kept'
    BY <1>1, <2>1, <2>2, UpcomingIsNumber DEF GfireInPlace, Upcoming, Kept, c
  <2>5. StaticsInPlace'
    BY <2>1, <2>4 DEF StaticsInPlace
  <2>6. GfireStreamInPlace'
    <3>1. GfirePlace' = <<c + 1, 1>>
      BY <1>1, <2>4 DEF GfirePlace
    <3>. QED BY <1>4, <1>8, <3>1 DEF GfireStreamInPlace
  <2>. QED BY <1>7, <2>3, <2>5, <2>6 DEF GfireInPlace
<1>9. CASE m # n
  <2>1. /\ temp_length' = n - m /\ temp_buffer' = FirstBytes(c, H + m) /\ handled' = handled
        /\ n - m \in Nat /\ n - m > 0
    <3>1. n - m \in Nat /\ n - m > 0
      BY <1>3, <1>5, <1>9
    <3>. QED BY <1>1, <1>6, <1>9, <3>1
  <2>2. Upcoming' = c
    BY <1>1, <2>1 DEF Upcoming, c
  <2>3. HandledSoFar'
    BY <1>1, <2>1 DEF GfireInPlace, HandledSoFar
  <2>4. temp_buffer' \in Seq(StreamByte) /\ Len(temp_buffer') = H + m
    BY <1>3, <1>5, <2>1, FirstBytesFacts
  <2>5. StaticsInPlace'
    <3>1. H + m >= HeaderSize /\ H + m + (n - m) = HeaderSize + sent[c]
      BY <1>2, <1>3, <1>5 DEF H
    <3>. QED BY <1>1, <1>2, <2>1, <2>2, <2>4, <3>1 DEF StaticsInPlace
  <2>6. Kept'
    <3>1. temp_buffer'[1] = <<c, 1>> /\ c # 0
      <4>1. 1 \in 1..(H + m)
        BY <1>3, <1>5
      <4>2. temp_buffer'[1] = <<c, 1>>
        BY <2>1, <4>1 DEF FirstBytes
      <4>. QED BY <1>2, <4>2
    <3>2. ~IsForeign(temp_buffer)'
      BY <3>1 DEF IsForeign
    <3>. QED BY <2>1, <3>2 DEF Kept
  <2>7. GfireStreamInPlace'
    <3>1. GfirePlace' = <<c, H + m + 1>>
      BY <1>1, <2>2, <2>4, <2>6 DEF GfirePlace
    <3>. QED BY <1>4, <1>9, <3>1 DEF GfireStreamInPlace
  <2>. QED BY <1>7, <2>3, <2>5, <2>7 DEF GfireInPlace
<1>. QED BY <1>8, <1>9
-----------------------------------------------------------------------------
\* A step begun after the statics have mixed two connections leaves them so.
LEMMA GfireStepInv ==
  ASSUME GfireIInv, [GfireNext]_gfireVars
  PROVE  GfireIInv'
<1>1. GfireTyped /\ (~stale => GfireInPlace)
  BY DEF GfireIInv
<1>2. CASE GfireNext
  <2>1. GfireTyped'
    BY <1>1, <1>2, GfireTypedSteps
  <2>2. ASSUME ~stale'
        PROVE  GfireInPlace'
    <3>1. ~stale
      BY <1>2, <2>2 DEF GfireNext, Login, Close, Callback, ReadMore, BeginPacket, ReadRest, ReadFails,
                        OtherAccount, OtherBegins, OtherReadsMore, Stream
    <3>. QED BY <1>1, <1>2, <2>2, <3>1, GfireLoginStep, GfireEndStep, GfireOtherStep, GfireStreamStep, GfireHeaderStep,
                GfireMoreStep, GfireBodyStep DEF GfireNext, Callback
  <2>. QED BY <2>1, <2>2 DEF GfireIInv
<1>3. CASE UNCHANGED gfireVars
  BY <1>1, <1>3 DEF gfireVars, streamVars, GfireIInv, GfireTyped, GfireInPlace, HandledSoFar, GfireStreamInPlace,
                    StaticsInPlace, HeaderInPlace, Upcoming, Kept, GfirePlace, IsForeign, FirstBytes
<1>. QED BY <1>2, <1>3

LEMMA GfireInvHolds == GfireSpec => []GfireIInv
BY GfireInitInv, GfireStepInv, PTL DEF GfireSpec

\* However the bodies are cut, the switch is given the packets of the present
\* connection, whole, once each and in order, until a connection is closed
\* inside a packet or the packets of two accounts meet in the statics.
THEOREM HandledRight == GfireSpec => []HandledInOrder
<1>1. ASSUME GfireIInv
      PROVE  HandledInOrder
  <2>. SUFFICES ASSUME ~stale
                PROVE  handled = [i \in 1..Len(handled) |-> [packet |-> first + i, whole |-> TRUE]]
    BY DEF HandledInOrder
  <2>1. /\ handled \in Seq(GfireEvent)
        /\ \A i \in 1..Len(handled) : handled[i] = [packet |-> first + i, whole |-> TRUE]
    BY <1>1 DEF GfireIInv, GfireInPlace, HandledSoFar
  <2>2. handled \in [1..Len(handled) -> GfireEvent]
    BY <2>1, LenProperties
  <2>. QED BY <2>1, <2>2
<1>. QED BY <1>1, GfireInvHolds, PTL

\* What is kept of a packet and what temp_length says is missing make up the
\* packet that the kept header announces.
THEOREM BufferAddsUp == GfireSpec => []BufferAccounts
<1>1. ASSUME GfireIInv
      PROVE  BufferAccounts
  <2>. SUFFICES ASSUME ~stale, temp_length > 0, ~IsForeign(temp_buffer)
                PROVE  /\ IsHeader(SubSeq(temp_buffer, 1, HeaderSize))
                       /\ Len(temp_buffer) + temp_length = HeaderSize + sent[HeaderOf(temp_buffer)]
    BY DEF BufferAccounts
  <2> DEFINE c == Upcoming
             a == Len(temp_buffer)
  <2>1. /\ temp_buffer \in Seq(StreamByte) /\ c \in 1..Len(sent) /\ a >= HeaderSize
        /\ a + temp_length = HeaderSize + sent[c] /\ temp_buffer = FirstBytes(c, a)
    BY <1>1 DEF GfireIInv, GfireInPlace, StaticsInPlace, Kept
  <2>2. a \in Nat /\ c \in Nat /\ HeaderSize \in Nat
    BY <2>1, HeaderSizeIsPositive, LenProperties
  <2>. HIDE DEF c, a
  <2>3. \A k \in 1..HeaderSize : temp_buffer[k] = <<c, k>>
    <3>1. 1..HeaderSize \subseteq 1..a
      BY <2>1, <2>2
    <3>. QED BY <2>1, <3>1 DEF FirstBytes
  <2>4. IsHeader(SubSeq(temp_buffer, 1, HeaderSize)) /\ HeaderOf(temp_buffer) = c
    BY <2>1, <2>2, <2>3, FirstBytesAreHeader DEF a
  <2>. QED BY <2>1, <2>4 DEF a
<1>. QED BY <1>1, GfireInvHolds, PTL
=============================================================================
