---------------------------- MODULE SequenceFacts ----------------------------
(***************************************************************************)
(* What the proofs need to know of least and greatest numbers, of the      *)
(* community modules' RemoveAt and Reverse, of functions from 1..n as      *)
(* sequences, and of the bytes of a stream of packets, which the packet    *)
(* readers cut up (PacketStream).                                          *)
(***************************************************************************)
EXTENDS Naturals, Sequences, SequencesExt, SequenceTheorems, WellFoundedInduction, TLAPS

LEMMA NatOrder ==
  ASSUME NEW m \in Nat, NEW n \in Nat, m < n
  PROVE  <<m, n>> \in OpToRel(<, Nat)
BY DEF OpToRel

LEMMA LeastOfNat ==
  ASSUME NEW S \in SUBSET Nat, S # {}
  PROVE  Min(S) \in S /\ \A y \in S : Min(S) <= y
<1>1. PICK x \in S : \A y \in S : ~ (<<y, x>> \in OpToRel(<, Nat))
  BY WFMin, NatLessThanWellFounded
<1>2. \A y \in S : ~ (y < x)
  BY <1>1, NatOrder
<1>3. \A y \in S : x =< y
  BY <1>2
<1>. QED BY <1>3 DEF Min

LEMMA GreatestOfNat ==
  ASSUME NEW S \in SUBSET Nat, S # {}, NEW n \in Nat, \A s \in S : s <= n
  PROVE  Max(S) \in S /\ \A s \in S : s <= Max(S)
<1> DEFINE T == {n - s : s \in S}
<1>1. T \subseteq Nat /\ T # {}
  <2>1. \A s \in S : s \in Nat /\ s <= n
    OBVIOUS
  <2>2. \A s \in S : n - s \in Nat
    BY <2>1
  <2>. QED BY <2>2
<1>2. PICK t \in T : \A u \in T : ~ (<<u, t>> \in OpToRel(<, Nat))
  BY <1>1, WFMin, NatLessThanWellFounded
<1>3. PICK x \in S : t = n - x
  BY <1>2
<1>4. \A s \in S : ~ (n - s < t)
  BY <1>1, <1>2, NatOrder
<1>5. \A s \in S : x >= s
  BY <1>3, <1>4
<1>6. Max(S) \in S /\ \A s \in S : Max(S) >= s
  BY <1>5 DEF Max
<1>. QED BY <1>6

LEMMA RemoveAtFacts ==
  ASSUME NEW S, NEW s \in Seq(S), NEW i \in 1..Len(s)
  PROVE  /\ RemoveAt(s, i) \in Seq(S)
         /\ Len(RemoveAt(s, i)) = Len(s) - 1
         /\ \A k \in 1..(Len(s) - 1) :
              RemoveAt(s, i)[k] = IF k < i THEN s[k] ELSE s[k + 1]
<1> DEFINE a == SubSeq(s, 1, i - 1)
           b == SubSeq(s, i + 1, Len(s))
<1>0. Len(s) \in Nat
  BY LenProperties
<1>1. /\ a \in Seq(S)
      /\ Len(a) = i - 1
      /\ \A k \in 1..(i - 1) : a[k] = s[k]
  <2>1. \A k \in 1..(i - 1) : s[k] \in S
    BY <1>0, ElementOfSeq
  <2>. QED BY <2>1, <1>0, SubSeqProperties
<1>2. /\ b \in Seq(S)
      /\ Len(b) = Len(s) - i
      /\ \A k \in 1..(Len(s) - i) : b[k] = s[k + i]
  <2>1. \A k \in (i + 1)..Len(s) : s[k] \in S
    BY <1>0, ElementOfSeq
  <2>2. /\ b \in Seq(S)
        /\ Len(b) = IF i + 1 <= Len(s) THEN Len(s) - (i + 1) + 1 ELSE 0
        /\ \A k \in 1..(Len(s) - (i + 1) + 1) : b[k] = s[(i + 1) + k - 1]
    <3>1. i + 1 \in Int /\ Len(s) \in Int
      BY <1>0
    <3>. HIDE DEF b
    <3>. QED BY ONLY <2>1, <3>1, SubSeqProperties DEF b
  <2>. QED BY <2>2, <1>0
<1>3. /\ a \o b \in Seq(S)
      /\ Len(a \o b) = Len(a) + Len(b)
      /\ \A k \in 1..(Len(a) + Len(b)) :
           (a \o b)[k] = IF k <= Len(a) THEN a[k] ELSE b[k - Len(a)]
  BY <1>1, <1>2, ConcatProperties
<1>4. RemoveAt(s, i) = a \o b
  BY DEF RemoveAt
<1>. HIDE DEF a, b
<1> DEFINE c == a \o b
<1>5. Len(c) = Len(s) - 1 /\ c \in Seq(S)
  BY <1>0, <1>1, <1>2, <1>3
<1>6. \A k \in 1..(Len(s) - 1) : c[k] = IF k < i THEN s[k] ELSE s[k + 1]
  <2>. TAKE k \in 1..(Len(s) - 1)
  <2>1. c[k] = IF k <= Len(a) THEN a[k] ELSE b[k - Len(a)]
    BY <1>0, <1>1, <1>2, <1>3
  <2>. HIDE DEF c
  <2>2. CASE k < i
    BY <2>1, <2>2, <1>0, <1>1
  <2>3. CASE ~(k < i)
    <3>1. k - Len(a) \in 1..(Len(s) - i) /\ (k - Len(a)) + i = k + 1
      BY <2>3, <1>0, <1>1
    <3>2. c[k] = b[k - Len(a)]
      BY <2>1, <2>3, <1>0, <1>1
    <3>. QED BY <3>1, <3>2, <2>3, <1>2
  <2>. QED BY <2>2, <2>3
<1>. QED BY <1>4, <1>5, <1>6

LEMMA FunctionIsSeq ==
  ASSUME NEW S, NEW n \in Nat, NEW f \in [1..n -> S]
  PROVE  f \in Seq(S) /\ Len(f) = n
<1>1. f \in Seq(S)
  BY SeqDef
<1>. QED BY <1>1, LenProperties

LEMMA ReverseFacts ==
  ASSUME NEW S, NEW s \in Seq(S)
  PROVE  /\ Reverse(s) \in Seq(S)
         /\ Len(Reverse(s)) = Len(s)
         /\ \A k \in 1..Len(s) : Reverse(s)[k] = s[Len(s) - k + 1]
<1>1. Len(s) \in Nat
  BY LenProperties
<1>2. Reverse(s) \in [1..Len(s) -> S]
  <2>1. \A k \in 1..Len(s) : s[(Len(s) - k) + 1] \in S
    BY <1>1, ElementOfSeq
  <2>. QED BY <2>1 DEF Reverse
<1>3. \A k \in 1..Len(s) : Reverse(s)[k] = s[(Len(s) - k) + 1]
  BY DEF Reverse
<1>. QED BY <1>1, <1>2, <1>3, FunctionIsSeq
-----------------------------------------------------------------------------
(* Folds.  FoldLeft chooses a function on the sets of the sequence's         *)
(* indices; these lemmas say that there is one, and give the induction over  *)
(* the indices that takes its place.                                         *)

LEMMA StepByStep ==
  ASSUME NEW n \in Nat, NEW Good, 0 \in Good,
         \A k \in 1..n : k - 1 \in Good => k \in Good
  PROVE  n \in Good
<1> DEFINE Bad == {k \in 0..n : k \notin Good}
<1>. SUFFICES ASSUME n \notin Good
              PROVE  FALSE
  OBVIOUS
<1>1. Bad \in SUBSET Nat /\ Bad # {}
  <2>1. n \in Bad
    OBVIOUS
  <2>. QED BY <2>1
<1> DEFINE m == Min(Bad)
<1>2. m \in Bad /\ \A k \in Bad : m <= k
  BY <1>1, LeastOfNat
<1>. HIDE DEF m
<1>3. m \in 1..n /\ m \notin Good
  BY <1>2
<1>4. m - 1 \in 0..n /\ ~(m <= m - 1)
  BY <1>3
<1>5. m - 1 \in Good
  BY <1>2, <1>4
<1>. QED BY <1>3, <1>5

LEMMA TopOfInterval ==
  ASSUME NEW k \in Nat \ {0}
  PROVE  1..k # {} /\ Max(1..k) = k /\ (1..k) \ {k} = 1..(k - 1)
<1>1. k \in 1..k /\ \A j \in 1..k : j <= k
  OBVIOUS
<1>2. Max(1..k) = k
  <2> DEFINE m == Max(1..k)
  <2>1. 1..k \in SUBSET Nat /\ 1..k # {}
    BY <1>1
  <2>2. m \in 1..k /\ \A j \in 1..k : j <= m
    BY <1>1, <2>1, GreatestOfNat
  <2>. HIDE DEF m
  <2>3. m = k
    BY <1>1, <2>2
  <2>. QED BY <2>3 DEF m
<1>. QED BY <1>1, <1>2

\* g folds the indices of each set up to m, the greatest last.
FoldsUp(g, base, F, m) ==
  \A s \in SUBSET (1..m) :
    g[s] = IF s = {} THEN base ELSE F[<<g[s \ {Max(s)}], Max(s)>>]

LEMMA FoldExists ==
  ASSUME NEW T, NEW base \in T, NEW n \in Nat, NEW F \in [T \X (1..n) -> T]
  PROVE  \E g \in [SUBSET (1..n) -> T] : FoldsUp(g, base, F, n)
<1> DEFINE Folds(g, m) == FoldsUp(g, base, F, m)
           Good == {m \in 0..n : \E g \in [SUBSET (1..m) -> T] : Folds(g, m)}
<1>1. 0 \in Good
  <2> DEFINE g == [s \in SUBSET (1..0) |-> base]
  <2>1. g \in [SUBSET (1..0) -> T]
    OBVIOUS
  <2>2. \A s \in SUBSET (1..0) : s = {} /\ g[s] = base
    <3>1. 1..0 = {}
      OBVIOUS
    <3>. QED BY <3>1
  <2>. HIDE DEF g
  <2>3. Folds(g, 0)
    BY <2>2 DEF FoldsUp
  <2>. HIDE DEF Folds
  <2>4. \E e \in [SUBSET (1..0) -> T] : Folds(e, 0)
    BY <2>1, <2>3
  <2>5. 0 \in 0..n
    OBVIOUS
  <2>. QED BY <2>4, <2>5
<1>2. ASSUME NEW m \in 1..n, m - 1 \in Good
      PROVE  m \in Good
  <2>1. PICK g \in [SUBSET (1..(m - 1)) -> T] : Folds(g, m - 1)
    BY <1>2
  <2> DEFINE low == SUBSET (1..(m - 1))
             f == [s \in SUBSET (1..m) |-> IF m \in s THEN F[<<g[s \ {m}], m>>] ELSE g[s]]
  <2>2. ASSUME NEW s \in SUBSET (1..m)
        PROVE  /\ m \notin s => s \in low
               /\ m \in s => s \ {m} \in low /\ Max(s) = m /\ s # {}
    <3>1. \A k \in 1..m : k # m => k \in 1..(m - 1)
      OBVIOUS
    <3>2. m \notin s => s \in low
      BY <3>1
    <3>3. m \in s => s \ {m} \in low
      BY <3>1
    <3>4. ASSUME m \in s
          PROVE  Max(s) = m
      <4> DEFINE t == Max(s)
      <4>1. s \in SUBSET Nat /\ s # {} /\ m \in Nat /\ \A k \in s : k <= m
        BY <3>4
      <4>2. t \in s /\ \A k \in s : k <= t
        BY <4>1, GreatestOfNat
      <4>. HIDE DEF t
      <4>3. t = m
        BY <3>4, <4>1, <4>2
      <4>. QED BY <4>3 DEF t
    <3>. QED BY <3>2, <3>3, <3>4
  <2>3. \A s \in SUBSET (1..m) : f[s] = IF m \in s THEN F[<<g[s \ {m}], m>>] ELSE g[s]
    OBVIOUS
  <2>4. ASSUME NEW s \in SUBSET (1..m)
        PROVE  (IF m \in s THEN F[<<g[s \ {m}], m>>] ELSE g[s]) \in T
    <3>1. CASE m \in s
      <4>1. g[s \ {m}] \in T
        BY <3>1, <2>1, <2>2
      <4>2. <<g[s \ {m}], m>> \in T \X (1..n)
        BY <4>1
      <4>. QED BY <3>1, <4>2
    <3>2. CASE m \notin s
      <4>1. s \in low
        BY <3>2, <2>2
      <4>. QED BY <3>2, <4>1, <2>1
    <3>. QED BY <3>1, <3>2
  <2>5. f \in [SUBSET (1..m) -> T]
    BY <2>4
  <2>6. \A s \in low : s \in SUBSET (1..m) /\ m \notin s
    OBVIOUS
  <2>. HIDE DEF f
  <2>7. \A s \in low : f[s] = g[s]
    BY <2>3, <2>6
  <2>8. ASSUME NEW s \in SUBSET (1..m)
        PROVE  f[s] = IF s = {} THEN base ELSE F[<<f[s \ {Max(s)}], Max(s)>>]
    <3>1. CASE m \in s
      <4>1. s \ {m} \in low /\ Max(s) = m /\ s # {}
        BY <3>1, <2>2
      <4>. QED BY ONLY <3>1, <4>1, <2>3, <2>7, s \in SUBSET (1..m)
    <3>2. CASE m \notin s
      <4>1. s \in low
        BY <3>2, <2>2
      <4>2. f[s] = g[s]
        BY <4>1, <2>7
      <4>3. g[s] = IF s = {} THEN base ELSE F[<<g[s \ {Max(s)}], Max(s)>>]
        BY <4>1, <2>1 DEF FoldsUp
      <4>4. s \ {Max(s)} \in low
        BY <4>1
      <4>5. f[s \ {Max(s)}] = g[s \ {Max(s)}]
        BY <4>4, <2>7
      <4>. QED BY <4>2, <4>3, <4>5
    <3>. QED BY <3>1, <3>2
  <2>9. Folds(f, m)
    BY <2>8 DEF FoldsUp
  <2>. HIDE DEF Folds
  <2>10. \E e \in [SUBSET (1..m) -> T] : Folds(e, m)
    BY <2>5, <2>9
  <2>. QED BY <2>10
<1>. HIDE DEF Good
<1>3. n \in Good
  BY <1>1, <1>2, StepByStep
<1>. QED BY <1>3 DEF Good
-----------------------------------------------------------------------------
\* Where the stream goes on, m bytes after byte k of packet c and not beyond
\* its end.
PlaceAfter(c, k, m, H, z) == IF k + m <= H + z[c] THEN <<c, k + m>> ELSE <<c + 1, 1>>

\* The first m members of a sequence, and the others.
LEMMA FrontFacts ==
  ASSUME NEW S, NEW s \in Seq(S), NEW m \in 0..Len(s)
  PROVE  /\ SubSeq(s, 1, m) \in Seq(S)
         /\ Len(SubSeq(s, 1, m)) = m
         /\ \A i \in 1..m : SubSeq(s, 1, m)[i] = s[i]
<1>1. Len(s) \in Nat /\ 1 \in Int /\ m \in Int /\ m \in Nat
  BY LenProperties
<1>2. \A i \in 1..m : s[i] \in S
  BY <1>1, ElementOfSeq
<1> DEFINE t == SubSeq(s, 1, m)
<1>3. /\ t \in Seq(S)
      /\ Len(t) = IF 1 <= m THEN m - 1 + 1 ELSE 0
      /\ \A i \in 1..(m - 1 + 1) : t[i] = s[1 + i - 1]
  BY ONLY <1>1, <1>2, SubSeqProperties
<1>4. m - 1 + 1 = m /\ \A i \in 1..m : 1 + i - 1 = i
  BY <1>1
<1>. HIDE DEF t
<1>5. Len(t) = m
  BY <1>1, <1>3, <1>4
<1>6. \A i \in 1..m : t[i] = s[i]
  BY <1>3, <1>4
<1>. QED BY <1>3, <1>5, <1>6 DEF t

LEMMA BackFacts ==
  ASSUME NEW S, NEW s \in Seq(S), NEW m \in 0..Len(s)
  PROVE  /\ SubSeq(s, m + 1, Len(s)) \in Seq(S)
         /\ Len(SubSeq(s, m + 1, Len(s))) = Len(s) - m
         /\ \A i \in 1..(Len(s) - m) : SubSeq(s, m + 1, Len(s))[i] = s[m + i]
<1> DEFINE n == Len(s)
<1>1. n \in Nat /\ n \in Int /\ m + 1 \in Int /\ m \in Nat /\ m <= n
  BY LenProperties
<1>2. \A i \in (m + 1)..n : s[i] \in S
  BY <1>1, ElementOfSeq
<1> DEFINE t == SubSeq(s, m + 1, n)
<1>3. /\ t \in Seq(S)
      /\ Len(t) = IF m + 1 <= n THEN n - (m + 1) + 1 ELSE 0
      /\ \A i \in 1..(n - (m + 1) + 1) : t[i] = s[(m + 1) + i - 1]
  <2>. HIDE DEF n
  <2>. QED BY ONLY <1>1, <1>2, SubSeqProperties
<1>. HIDE DEF t, n
<1>4. n - (m + 1) + 1 = n - m /\ \A i \in 1..(n - m) : (m + 1) + i - 1 = m + i
  BY <1>1
<1>5. Len(t) = n - m
  BY <1>1, <1>3
<1>6. \A i \in 1..(n - m) : t[i] = s[m + i]
  BY <1>3, <1>4
<1>. QED BY <1>3, <1>5, <1>6 DEF t, n

(* A stream of packets.  z gives the size of each packet's body, H that of   *)
(* a header; a byte is its packet's number and its place in that packet.     *)
(* What is said of two bytes of the stream is said at any distance, so that  *)
(* none of the lemmas needs an induction over the bytes.                     *)

StreamByte == Nat \X Nat

\* P[j] is the byte that j - i bytes after P[i] belong, within the packet of
\* P[i] and up to the first byte of the next.
Follows(P, i, j, H, z) ==
  /\ P[i][2] + (j - i) <= H + z[P[i][1]] => P[j] = <<P[i][1], P[i][2] + (j - i)>>
  /\ P[i][2] + (j - i) = H + z[P[i][1]] + 1 => P[j] = <<P[i][1] + 1, 1>>

\* P is a run of consecutive bytes of the stream.
InStream(P, H, z) ==
  /\ P \in Seq(StreamByte)
  /\ \A j \in 1..Len(P) : P[j][1] \in 1..Len(z) /\ P[j][2] \in 1..(H + z[P[j][1]])
  /\ \A i, j \in 1..Len(P) : i <= j => Follows(P, i, j, H, z)

\* The run begins at place; while more may be written, it goes up to the last
\* byte written.
StreamFrom(P, place, open, H, z) ==
  /\ InStream(P, H, z)
  /\ P # <<>> => P[1] = place
  /\ open => IF P = <<>> THEN place = <<Len(z) + 1, 1>>
                         ELSE P[Len(P)] = <<Len(z), H + z[Len(z)]>>

\* A packet is written behind the run.
LEMMA WritePacket ==
  ASSUME NEW H \in Nat \ {0}, NEW z \in Seq(Nat), NEW size \in Nat,
         NEW P, NEW place, StreamFrom(P, place, TRUE, H, z)
  PROVE  StreamFrom(P \o [k \in 1..(H + size) |-> <<Len(z) + 1, k>>], place, TRUE, H,
                    Append(z, size))
<1> DEFINE L == Len(z)
           N == L + 1
           M == H + size
           b == [k \in 1..M |-> <<N, k>>]
           Q == P \o b
           y == Append(z, size)
           p == Len(P)
<1>1. L \in Nat /\ N \in Nat /\ M \in Nat /\ M > 0 /\ H \in Nat
  BY LenProperties
<1>2. P \in Seq(StreamByte) /\ p \in Nat
  BY LenProperties DEF StreamFrom, InStream
<1>3. \A j \in 1..p : P[j][1] \in 1..L /\ P[j][2] \in 1..(H + z[P[j][1]])
  BY DEF StreamFrom, InStream
<1>4. \A i, j \in 1..p : i <= j => Follows(P, i, j, H, z)
  BY DEF StreamFrom, InStream
<1>5. P # <<>> => P[1] = place /\ P[p] = <<L, H + z[L]>>
  BY DEF StreamFrom
<1>6. P = <<>> => place = <<N, 1>>
  BY DEF StreamFrom
<1>7. y \in Seq(Nat) /\ Len(y) = N /\ y[N] = size /\ \A n \in 1..L : y[n] = z[n]
  BY AppendProperties
<1>8. \A n \in 1..L : z[n] \in Nat
  BY ElementOfSeq
<1>9. b \in Seq(StreamByte) /\ Len(b) = M /\ \A k \in 1..M : b[k] = <<N, k>>
  <2>1. b \in [1..M -> StreamByte]
    BY ONLY <1>1 DEF StreamByte
  <2>2. b \in Seq(StreamByte)
    BY <1>1, <2>1, SeqDef
  <2>. QED BY <1>1, <2>1, <2>2, LenProperties
<1>. HIDE DEF b, y, N, L, M, p
<1>10. /\ Q \in Seq(StreamByte)
       /\ Len(Q) = p + M
       /\ \A i \in 1..(p + M) : Q[i] = IF i <= p THEN P[i] ELSE b[i - p]
  BY <1>2, <1>9, ConcatProperties DEF p
<1>. HIDE DEF Q
<1>11. \A j \in 1..p : Q[j] = P[j]
  <2>. TAKE j \in 1..p
  <2>1. j \in 1..(p + M) /\ j <= p
    BY <1>1, <1>2
  <2>. QED BY <2>1, <1>10
<1>12. \A j \in (p + 1)..(p + M) : j - p \in 1..M /\ Q[j] = <<N, j - p>>
  <2>. TAKE j \in (p + 1)..(p + M)
  <2>1. j - p \in 1..M /\ j \in 1..(p + M) /\ ~ (j <= p)
    BY <1>1, <1>2
  <2>2. Q[j] = b[j - p]
    BY <2>1, <1>10
  <2>. QED BY <2>1, <2>2, <1>9
<1>13. \A j \in 1..(p + M) : Q[j][1] \in 1..N /\ Q[j][2] \in 1..(H + y[Q[j][1]])
  <2>. TAKE j \in 1..(p + M)
  <2>1. CASE j <= p
    <3>1. j \in 1..p /\ Q[j] = P[j]
      BY <2>1, <1>1, <1>2, <1>11
    <3>2. P[j][1] \in 1..L /\ P[j][2] \in 1..(H + z[P[j][1]])
      BY <3>1, <1>3
    <3>3. y[P[j][1]] = z[P[j][1]]
      BY <3>2, <1>7
    <3>4. P[j][1] \in 1..N
      BY <3>2, <1>1 DEF N
    <3>. QED BY <3>1, <3>2, <3>3, <3>4
  <2>2. CASE j > p
    <3>1. j \in (p + 1)..(p + M)
      BY <2>2, <1>1, <1>2
    <3>2. j - p \in 1..M /\ Q[j] = <<N, j - p>>
      BY <3>1, <1>12
    <3>3. Q[j][1] = N /\ Q[j][2] = j - p /\ N \in 1..N
      BY <3>2, <1>1 DEF N
    <3>. QED BY <3>2, <3>3, <1>7 DEF M
  <2>3. j <= p \/ j > p
    BY <1>1, <1>2
  <2>. QED BY <2>1, <2>2, <2>3
<1>14. ASSUME NEW i \in 1..(p + M), NEW j \in 1..(p + M), i <= j
       PROVE  Follows(Q, i, j, H, y)
  <2>1. CASE j <= p
    <3>1. i \in 1..p /\ j \in 1..p
      BY <2>1, <1>14, <1>1, <1>2
    <3>2. Q[i] = P[i] /\ Q[j] = P[j]
      BY <3>1, <1>11
    <3>3. y[P[i][1]] = z[P[i][1]]
      BY <3>1, <1>3, <1>7
    <3>4. Follows(P, i, j, H, z)
      BY <3>1, <1>14, <1>4
    <3>. QED BY <3>2, <3>3, <3>4 DEF Follows
  <2>2. CASE i > p
    <3>1. /\ i \in (p + 1)..(p + M) /\ j \in (p + 1)..(p + M)
      BY <2>2, <1>14, <1>1, <1>2
    <3>2. Q[i] = <<N, i - p>> /\ Q[j] = <<N, j - p>>
      BY <3>1, <1>12
    <3>3. Q[i][1] = N /\ Q[i][2] = i - p /\ (i - p) + (j - i) = j - p
      BY <3>2, <1>1, <1>2
    <3>4. ~ (j - p = M + 1)
      BY <3>1, <1>1, <1>2
    <3>5. y[Q[i][1]] = size /\ H + y[Q[i][1]] = M
      BY <3>3, <1>7 DEF M
    <3>. QED BY <3>2, <3>3, <3>4, <3>5 DEF Follows
  <2>3. CASE i <= p /\ j > p
    <3> DEFINE n == P[i][1]
               k == P[i][2]
               d == p - i
    <3>1. i \in 1..p /\ j \in (p + 1)..(p + M) /\ p \in 1..p /\ i <= p
      BY <2>3, <1>14, <1>1, <1>2
    <3>2. P # <<>>
      BY <3>1 DEF p
    <3>3. n \in 1..L /\ k \in 1..(H + z[n])
      BY <3>1, <1>3
    <3>4. z[n] \in Nat /\ y[n] = z[n] /\ Q[i] = P[i] /\ Q[j] = <<N, j - p>> /\ j - p \in 1..M
      BY <3>1, <3>3, <1>7, <1>8, <1>11, <1>12
    <3>5. k + d <= H + z[n] => P[p] = <<n, k + d>>
      <4>1. Follows(P, i, p, H, z)
        BY <3>1, <1>4
      <4>. QED BY <4>1 DEF Follows
    <3>6. P[p] = <<L, H + z[L]>>
      BY <3>2, <1>5
    <3>. HIDE DEF n, k
    <3>7. k + d <= H + z[n] => n = L /\ k + d = H + z[L]
      BY <3>5, <3>6
    <3>8. d \in Nat /\ j - i = d + (j - p) /\ k \in Nat /\ n \in Nat
      <4>1. k \in Nat
        BY <3>3, <3>4, <1>1
      <4>. QED BY <4>1, <3>1, <3>3, <1>1, <1>2
    <3> DEFINE end == H + z[n]
               e == j - p
    <3>9. end \in Nat /\ e \in Nat /\ e > 0
      <4>1. end \in Nat
        BY <3>4, <1>1
      <4>2. e \in Nat /\ e > 0
        BY <3>4, <1>1
      <4>. QED BY <4>1, <4>2
    <3>10. (k + d <= end => k + d = end) /\ j - i = d + e
      BY <3>7, <3>8
    <3>. HIDE DEF end, e
    <3>11. /\ ~ (k + (j - i) <= end)
           /\ k + (j - i) = end + 1 => k + d <= end /\ e = 1
      BY <3>8, <3>9, <3>10
    <3>12. k + (j - i) = H + z[n] + 1 => Q[j] = <<n + 1, 1>>
      <4>1. k + (j - i) = end + 1 => n = L /\ j - p = 1
        BY <3>7, <3>11 DEF end, e
      <4>. QED BY <4>1, <3>4 DEF N, end
    <3>. QED BY <3>4, <3>11, <3>12 DEF n, k, end, Follows
  <2>. QED BY <2>1, <2>2, <2>3, <1>1, <1>2
<1>15. InStream(Q, H, y)
  BY <1>7, <1>10, <1>13, <1>14 DEF InStream
<1>16. Q # <<>> /\ Q[Len(Q)] = <<Len(y), H + y[Len(y)]>>
  <2>1. Len(Q) \in (p + 1)..(p + M) /\ Len(Q) - p = M
    BY <1>1, <1>2, <1>10
  <2>2. Q # <<>>
    <3>1. Len(Q) # 0
      BY <2>1, <1>2
    <3>. QED BY <3>1
  <2>3. Q[Len(Q)] = <<N, M>>
    BY <2>1, <1>12
  <2>. QED BY <2>2, <2>3, <1>7 DEF M
<1>17. Q[1] = place
  <2>1. CASE P = <<>>
    <3>1. p = 0 /\ 1 \in (p + 1)..(p + M)
      BY <2>1, <1>1 DEF p
    <3>. QED BY <3>1, <2>1, <1>6, <1>12
  <2>2. CASE P # <<>>
    <3>1. p # 0
      BY <2>2, <1>2, EmptySeq DEF p
    <3>2. 1 \in 1..p
      BY <3>1, <1>2
    <3>. QED BY <3>2, <2>2, <1>5, <1>11
  <2>. QED BY <2>1, <2>2
<1>18. StreamFrom(Q, place, TRUE, H, y)
  BY <1>15, <1>16, <1>17 DEF StreamFrom
<1>. QED BY <1>18 DEF Q, b, y, N, L, M

\* Reading m bytes that end in the packet they begin in.
LEMMA ReadStream ==
  ASSUME NEW H \in Nat \ {0}, NEW z \in Seq(Nat), NEW open \in BOOLEAN,
         NEW P, NEW c \in Nat, NEW k \in Nat, StreamFrom(P, <<c, k>>, open, H, z),
         NEW m \in 1..Len(P), k + m <= H + z[c] + 1
  PROVE  /\ SubSeq(P, 1, m) = [j \in 1..m |-> <<c, k + j - 1>>]
         /\ StreamFrom(SubSeq(P, m + 1, Len(P)),
                       PlaceAfter(c, k, m, H, z), open, H, z)
<1> DEFINE p == Len(P)
           R == SubSeq(P, m + 1, Len(P))
           A == SubSeq(P, 1, m)
<1>1. P \in Seq(StreamByte) /\ p \in Nat /\ m \in 1..p /\ H \in Nat /\ m \in Nat
  BY LenProperties DEF StreamFrom, InStream
<1>2. \A j \in 1..p : P[j][1] \in 1..Len(z) /\ P[j][2] \in 1..(H + z[P[j][1]])
  BY DEF StreamFrom, InStream
<1>3. \A i, j \in 1..p : i <= j => Follows(P, i, j, H, z)
  BY DEF StreamFrom, InStream
<1>4. P # <<>> /\ P[1] = <<c, k>>
  <2>1. P # <<>>
    <3>1. p # 0
      BY <1>1
    <3>. QED BY <3>1, EmptySeq
  <2>. QED BY <2>1 DEF StreamFrom
<1>5. open => P[p] = <<Len(z), H + z[Len(z)]>>
  BY <1>4 DEF StreamFrom
<1>6. c \in 1..Len(z) /\ z[c] \in Nat
  <2>1. 1 \in 1..p
    BY <1>1
  <2>2. c \in 1..Len(z)
    BY <2>1, <1>2, <1>4
  <2>. QED BY <2>2, ElementOfSeq
<1> DEFINE end == H + z[c]
<1>7. end \in Nat /\ k + m <= end + 1
  <2>1. end \in Nat
    BY ONLY <1>6, H \in Nat \ {0}
  <2>. QED BY <2>1
<1>8. \A j \in 1..p : /\ k + (j - 1) <= end => P[j] = <<c, k + (j - 1)>>
                      /\ k + (j - 1) = end + 1 => P[j] = <<c + 1, 1>>
  <2>. SUFFICES ASSUME NEW j \in 1..p
                PROVE  /\ k + (j - 1) <= end => P[j] = <<c, k + (j - 1)>>
                       /\ k + (j - 1) = end + 1 => P[j] = <<c + 1, 1>>
    OBVIOUS
  <2>1. 1 \in 1..p /\ 1 <= j
    BY <1>1
  <2>2. Follows(P, 1, j, H, z)
    BY <2>1, <1>3
  <2>3. P[1][1] = c /\ P[1][2] = k
    BY <1>4
  <2>. QED BY <2>2, <2>3 DEF Follows
<1>9. /\ A \in Seq(StreamByte) /\ Len(A) = m /\ \A j \in 1..m : A[j] = P[j]
  <2>1. m \in 0..Len(P)
    BY <1>1
  <2>. QED BY ONLY <1>1, <2>1, FrontFacts
<1>10. /\ R \in Seq(StreamByte) /\ Len(R) = p - m
       /\ \A j \in 1..(p - m) : R[j] = P[m + j]
  <2>1. m \in 0..Len(P)
    BY <1>1
  <2>. QED BY ONLY <1>1, <2>1, BackFacts
<1>. HIDE DEF A, R, end, p
<1>11. A = [j \in 1..m |-> <<c, k + j - 1>>]
  <2>1. \A j \in 1..m : A[j] = <<c, k + j - 1>>
    <3>. TAKE j \in 1..m
    <3>0. j \in 1..p /\ j \in Nat /\ j <= m
      BY <1>1
    <3>1. k + (j - 1) <= end /\ k + (j - 1) = k + j - 1
      BY ONLY <3>0, m \in Nat, k \in Nat, <1>7
    <3>. QED BY <3>0, <3>1, <1>8, <1>9
  <2>2. A \in [1..m -> StreamByte]
    BY <1>9, LenProperties
  <2>. QED BY <2>1, <2>2
<1>12. ASSUME NEW i \in 1..(p - m), NEW j \in 1..(p - m), i <= j
       PROVE  Follows(R, i, j, H, z)
  <2>1. m + i \in 1..p /\ m + j \in 1..p /\ m + i <= m + j /\ (m + j) - (m + i) = j - i
    BY <1>12, <1>1
  <2>2. R[i] = P[m + i] /\ R[j] = P[m + j]
    BY <1>10
  <2>3. Follows(P, m + i, m + j, H, z)
    BY <2>1, <1>3
  <2>. QED BY <2>1, <2>2, <2>3 DEF Follows
<1>13. \A j \in 1..(p - m) : R[j][1] \in 1..Len(z) /\ R[j][2] \in 1..(H + z[R[j][1]])
  <2>. TAKE j \in 1..(p - m)
  <2>1. m + j \in 1..p
    BY <1>1
  <2>. QED BY <2>1, <1>2, <1>10
<1>14. InStream(R, H, z)
  BY <1>10, <1>12, <1>13 DEF InStream
<1>15. CASE R = <<>>
  <2>1. m = p
    BY <1>15, <1>10, <1>1
  <2>2. k + (m - 1) <= end /\ k + (m - 1) \in Nat
    BY <1>1, <1>7
  <2>3. P[p] = <<c, k + (m - 1)>>
    BY <2>1, <2>2, <1>1, <1>8
  <2>4. open => c = Len(z) /\ k + (m - 1) = end
    BY <2>3, <1>5 DEF end
  <2>5. open => ~ (k + m <= end)
    BY <2>4, <1>1, <1>7
  <2>6. open => IF k + m <= end THEN FALSE ELSE <<c + 1, 1>> = <<Len(z) + 1, 1>>
    BY <2>4, <2>5
  <2>. QED BY <1>11, <1>14, <1>15, <2>6 DEF StreamFrom, R, A, end, PlaceAfter
<1>16. CASE R # <<>>
  <2>1. Len(R) # 0
    BY <1>16, <1>10, EmptySeq
  <2>2. 1 \in 1..(p - m) /\ Len(R) \in 1..(p - m) /\ m + Len(R) = p /\ m + 1 \in 1..p
    BY <2>1, <1>1, <1>10
  <2>3. R[1] = P[m + 1] /\ R[Len(R)] = P[p]
    BY <2>2, <1>10
  <2>4. R[1] = IF k + m <= end THEN <<c, k + m>> ELSE <<c + 1, 1>>
    <3>1. k + ((m + 1) - 1) = k + m
      BY <1>1
    <3>2. k + m <= end => P[m + 1] = <<c, k + m>>
      BY <3>1, <2>2, <1>8
    <3>3. ~ (k + m <= end) => k + m = end + 1
      BY <1>1, <1>7
    <3>4. ~ (k + m <= end) => P[m + 1] = <<c + 1, 1>>
      BY <3>1, <3>3, <2>2, <1>8
    <3>. QED BY <2>3, <3>2, <3>4
  <2>. QED BY <1>14, <1>16, <2>3, <2>4, <1>5, <1>11 DEF StreamFrom, R, A, end, PlaceAfter
<1>. QED BY <1>11, <1>15, <1>16 DEF A, R, end

\* The connection ends after m bytes.
LEMMA CutStream ==
  ASSUME NEW H \in Nat \ {0}, NEW z \in Seq(Nat), NEW open \in BOOLEAN,
         NEW P, NEW place, StreamFrom(P, place, open, H, z),
         NEW m \in 0..Len(P)
  PROVE  StreamFrom(SubSeq(P, 1, m), place, FALSE, H, z)
<1> DEFINE p == Len(P)
           A == SubSeq(P, 1, m)
<1>1. P \in Seq(StreamByte) /\ p \in Nat /\ m \in 0..p
  BY LenProperties DEF StreamFrom, InStream
<1>2. \A j \in 1..p : P[j][1] \in 1..Len(z) /\ P[j][2] \in 1..(H + z[P[j][1]])
  BY DEF StreamFrom, InStream
<1>3. \A i, j \in 1..p : i <= j => Follows(P, i, j, H, z)
  BY DEF StreamFrom, InStream
<1>4. P # <<>> => P[1] = place
  BY DEF StreamFrom
<1>5. /\ A \in Seq(StreamByte) /\ Len(A) = m /\ \A j \in 1..m : A[j] = P[j]
  BY ONLY <1>1, m \in 0..Len(P), FrontFacts
<1>. HIDE DEF A, p
<1>6. \A j \in 1..m : j \in 1..p
  BY <1>1
<1>7. InStream(A, H, z)
  <2>1. \A j \in 1..m : A[j][1] \in 1..Len(z) /\ A[j][2] \in 1..(H + z[A[j][1]])
    BY <1>2, <1>5, <1>6
  <2>2. ASSUME NEW i \in 1..m, NEW j \in 1..m, i <= j
        PROVE  Follows(A, i, j, H, z)
    <3>1. Follows(P, i, j, H, z)
      BY <2>2, <1>3, <1>6
    <3>2. A[i] = P[i] /\ A[j] = P[j]
      BY <1>5
    <3>. QED BY <3>1, <3>2 DEF Follows
  <2>. QED BY <1>5, <2>1, <2>2 DEF InStream
<1>8. A # <<>> => A[1] = place
  <2>1. HAVE A # <<>>
  <2>2. m # 0
    BY <2>1, <1>5, EmptySeq
  <2>3. 1 \in 1..m /\ p # 0
    BY <2>2, <1>1
  <2>4. P # <<>>
    BY <2>3, EmptySeq DEF p
  <2>. QED BY <2>3, <2>4, <1>4, <1>5
<1>. QED BY <1>7, <1>8 DEF StreamFrom, A

\* The run is in two pieces: what has arrived and what has not.
Pieces(inbox, wire, place, open, H, z) ==
  /\ inbox \in Seq(StreamByte) /\ wire \in Seq(StreamByte)
  /\ StreamFrom(inbox \o wire, place, open, H, z)

LEMMA ThreePieces ==
  \A a, b, c \in Seq(StreamByte) : (a \o b) \o c = a \o (b \o c)
BY ConcatAssociative

\* The same of the two pieces, for each thing that happens to them.
LEMMA PiecesWritten ==
  ASSUME NEW H \in Nat \ {0}, NEW z \in Seq(Nat), NEW size \in Nat, NEW place,
         NEW inbox, NEW wire, Pieces(inbox, wire, place, TRUE, H, z)
  PROVE  Pieces(inbox, wire \o [k \in 1..(H + size) |-> <<Len(z) + 1, k>>], place, TRUE, H,
                Append(z, size))
<1> DEFINE b == [k \in 1..(H + size) |-> <<Len(z) + 1, k>>]
<1>1. b \in Seq(StreamByte)
  <2>1. Len(z) + 1 \in Nat /\ H + size \in Nat
    BY LenProperties
  <2>2. b \in [1..(H + size) -> StreamByte]
    BY ONLY <2>1 DEF StreamByte
  <2>. QED BY <2>1, <2>2, SeqDef
<1>2. StreamFrom((inbox \o wire) \o b, place, TRUE, H, Append(z, size))
  BY WritePacket DEF Pieces
<1>3. inbox \in Seq(StreamByte) /\ wire \in Seq(StreamByte)
  BY DEF Pieces
<1>. HIDE DEF b
<1>4. (inbox \o wire) \o b = inbox \o (wire \o b)
  BY ONLY <1>1, <1>3, ThreePieces
<1>5. wire \o b \in Seq(StreamByte)
  BY <1>1, <1>3, ConcatProperties
<1>6. Pieces(inbox, wire \o b, place, TRUE, H, Append(z, size))
  BY <1>2, <1>3, <1>4, <1>5 DEF Pieces
<1>. QED BY <1>6 DEF b

LEMMA SubSeqIn ==
  ASSUME NEW S, NEW s \in Seq(S), NEW m \in 1..(Len(s) + 1), NEW n \in 0..Len(s)
  PROVE  SubSeq(s, m, n) \in Seq(S)
<1>1. Len(s) \in Nat
  BY LenProperties
<1>2. \A i \in m..n : s[i] \in S
  BY <1>1, ElementOfSeq
<1>3. m \in Int /\ n \in Int
  BY <1>1
<1>. QED BY <1>2, <1>3, SubSeqProperties

LEMMA PiecesArrived ==
  ASSUME NEW H, NEW z, NEW open, NEW place,
         NEW inbox, NEW wire, Pieces(inbox, wire, place, open, H, z), NEW k \in 1..Len(wire)
  PROVE  Pieces(inbox \o SubSeq(wire, 1, k), SubSeq(wire, k + 1, Len(wire)), place, open, H, z)
<1> DEFINE a == SubSeq(wire, 1, k)
           b == SubSeq(wire, k + 1, Len(wire))
<1>1. inbox \in Seq(StreamByte) /\ wire \in Seq(StreamByte) /\ Len(wire) \in Nat
  BY LenProperties DEF Pieces
<1>2. a \in Seq(StreamByte)
  <2>1. 1 \in 1..(Len(wire) + 1) /\ k \in 0..Len(wire)
    BY <1>1
  <2>. QED BY <1>1, <2>1, SubSeqIn
<1>3. b \in Seq(StreamByte)
  <2>1. k + 1 \in 1..(Len(wire) + 1) /\ Len(wire) \in 0..Len(wire)
    BY <1>1
  <2>. QED BY <1>1, <2>1, SubSeqIn
<1>4. a \o b = wire
  <2>1. 1 \in 1..(Len(wire) + 1) /\ k \in (1 - 1)..Len(wire) /\ Len(wire) \in k..Len(wire)
    BY <1>1
  <2>2. a \o b = SubSeq(wire, 1, Len(wire))
    BY <1>1, <2>1, ConcatAdjacentSubSeq
  <2>. QED BY <2>2, <1>1, SubSeqFull
<1>. HIDE DEF a, b
<1>5. (inbox \o a) \o b = inbox \o wire
  <2>2. (inbox \o a) \o b = inbox \o (a \o b)
    <3>1. inbox \in Seq(StreamByte) /\ a \in Seq(StreamByte) /\ b \in Seq(StreamByte)
      BY <1>1, <1>2, <1>3
    <3>. QED BY ONLY <3>1, ThreePieces
  <2>. QED BY <1>4, <2>2
<1>6. inbox \o a \in Seq(StreamByte)
  BY <1>1, <1>2, ConcatProperties
<1>7. Pieces(inbox \o a, b, place, open, H, z)
  BY <1>3, <1>5, <1>6 DEF Pieces
<1>. QED BY <1>7 DEF a, b

\* The first bytes of two pieces, up to one in the second.
LEMMA FrontOfConcat ==
  ASSUME NEW S, NEW s \in Seq(S), NEW t \in Seq(S), NEW k \in 0..Len(t)
  PROVE  s \o SubSeq(t, 1, k) = SubSeq(s \o t, 1, Len(s) + k)
<1> DEFINE a == SubSeq(t, 1, k)
           l == s \o a
           r == SubSeq(s \o t, 1, Len(s) + k)
<1>1. Len(s) \in Nat /\ Len(t) \in Nat /\ k \in Nat
  BY LenProperties
<1>2. a \in Seq(S) /\ Len(a) = k /\ \A i \in 1..k : a[i] = t[i]
  BY FrontFacts
<1>3. /\ s \o t \in Seq(S) /\ Len(s \o t) = Len(s) + Len(t)
      /\ \A i \in 1..(Len(s) + Len(t)) : (s \o t)[i] = IF i <= Len(s) THEN s[i] ELSE t[i - Len(s)]
  BY ConcatProperties
<1> DEFINE q == s \o t
<1>4. r \in Seq(S) /\ Len(r) = Len(s) + k /\ \A i \in 1..(Len(s) + k) : r[i] = (s \o t)[i]
  <2>1. q \in Seq(S) /\ Len(s) + k \in 0..Len(q)
    BY <1>1, <1>3
  <2>. HIDE DEF q
  <2>2. r \in Seq(S) /\ Len(r) = Len(s) + k /\ \A i \in 1..(Len(s) + k) : r[i] = q[i]
    BY ONLY <2>1, FrontFacts DEF q
  <2>. QED BY <2>2 DEF q
<1>5. /\ l \in Seq(S) /\ Len(l) = Len(s) + k
      /\ \A i \in 1..(Len(s) + k) : l[i] = IF i <= Len(s) THEN s[i] ELSE a[i - Len(s)]
  BY <1>2, ConcatProperties
<1>6. \A i \in 1..(Len(s) + k) : l[i] = r[i]
  <2>. TAKE i \in 1..(Len(s) + k)
  <2>1. r[i] = IF i <= Len(s) THEN s[i] ELSE t[i - Len(s)]
    <3>1. i \in 1..(Len(s) + Len(t))
      BY <1>1
    <3>. HIDE DEF r
    <3>. QED BY <3>1, <1>3, <1>4
  <2>. HIDE DEF r, l, a
  <2>2. i > Len(s) => i - Len(s) \in 1..k
    BY <1>1
  <2>. QED BY <1>1, <1>2, <1>5, <2>1, <2>2
<1>. HIDE DEF r, l
<1>7. l = r
  BY <1>1, <1>4, <1>5, <1>6, SeqEqual
<1>. QED BY <1>7 DEF l, r

LEMMA PiecesCut ==
  ASSUME NEW H \in Nat \ {0}, NEW z \in Seq(Nat), NEW open \in BOOLEAN, NEW place,
         NEW inbox, NEW wire, Pieces(inbox, wire, place, open, H, z), NEW k \in 0..Len(wire)
  PROVE  Pieces(inbox, SubSeq(wire, 1, k), place, FALSE, H, z)
<1>1. inbox \in Seq(StreamByte) /\ wire \in Seq(StreamByte) /\ Len(wire) \in Nat /\ Len(inbox) \in Nat
  BY LenProperties DEF Pieces
<1>2. Len(inbox \o wire) = Len(inbox) + Len(wire)
  BY <1>1, ConcatProperties
<1>3. Len(inbox) + k \in 0..Len(inbox \o wire)
  BY <1>1, <1>2
<1>4. StreamFrom(SubSeq(inbox \o wire, 1, Len(inbox) + k), place, FALSE, H, z)
  BY <1>3, CutStream DEF Pieces
<1>5. inbox \o SubSeq(wire, 1, k) = SubSeq(inbox \o wire, 1, Len(inbox) + k)
  BY <1>1, FrontOfConcat
<1>6. SubSeq(wire, 1, k) \in Seq(StreamByte)
  <2>1. 1 \in 1..(Len(wire) + 1)
    BY <1>1
  <2>. QED BY <1>1, <2>1, SubSeqIn
<1>. QED BY <1>1, <1>4, <1>5, <1>6 DEF Pieces

\* What is left of two pieces when some of the first has been read.
LEMMA RestOfConcat ==
  ASSUME NEW S, NEW s \in Seq(S), NEW t \in Seq(S), NEW m \in 0..Len(s)
  PROVE  /\ SubSeq(s, 1, m) = SubSeq(s \o t, 1, m)
         /\ SubSeq(s, m + 1, Len(s)) \o t = SubSeq(s \o t, m + 1, Len(s \o t))
<1> DEFINE q == s \o t
           a == SubSeq(s, 1, m)
           b == SubSeq(s, m + 1, Len(s))
<1>1. Len(s) \in Nat /\ Len(t) \in Nat /\ m \in Nat
  BY LenProperties
<1>2. q \in Seq(S) /\ Len(q) = Len(s) + Len(t)
  BY ConcatProperties
<1>3. a \in Seq(S) /\ b \in Seq(S)
  <2>1. 1 \in 1..(Len(s) + 1) /\ m + 1 \in 1..(Len(s) + 1) /\ Len(s) \in 0..Len(s)
    BY <1>1
  <2>. QED BY <2>1, SubSeqIn
<1>4. a \o b = s
  <2>1. 1 \in 1..(Len(s) + 1) /\ m \in (1 - 1)..Len(s) /\ Len(s) \in m..Len(s)
    BY <1>1
  <2>2. a \o b = SubSeq(s, 1, Len(s))
    BY <2>1, ConcatAdjacentSubSeq
  <2>. QED BY <2>2, SubSeqFull
<1>5. a = SubSeq(q, 1, m)
  <2>1. CASE m = 0
    BY <2>1, SubSeqEmpty
  <2>2. CASE m # 0
    <3>1. 1 \in 1..Len(s) /\ m \in 1..Len(s)
      BY <2>2, <1>1
    <3>. QED BY <3>1, SubSeqOfConcat1
  <2>. QED BY <2>1, <2>2
<1>6. q = a \o (b \o t)
  <2>. HIDE DEF a, b
  <2>1. (a \o b) \o t = a \o (b \o t)
    BY ONLY <1>3, t \in Seq(S), ConcatAssociative
  <2>. QED BY <1>4, <2>1 DEF q
<1>7. SubSeq(q, 1, m) \o SubSeq(q, m + 1, Len(q)) = q
  <2>. HIDE DEF q
  <2>1. 1 \in 1..(Len(q) + 1) /\ m \in (1 - 1)..Len(q) /\ Len(q) \in m..Len(q)
    BY <1>1, <1>2
  <2>2. SubSeq(q, 1, m) \o SubSeq(q, m + 1, Len(q)) = SubSeq(q, 1, Len(q))
    BY <2>1, <1>2, ConcatAdjacentSubSeq
  <2>. QED BY <2>2, <1>2, SubSeqFull
<1>8. SubSeq(q, m + 1, Len(q)) \in Seq(S) /\ b \o t \in Seq(S)
  <2>1. m + 1 \in 1..(Len(q) + 1) /\ Len(q) \in 0..Len(q)
    BY <1>1, <1>2
  <2>. HIDE DEF q, b
  <2>. QED BY <2>1, <1>2, <1>3, SubSeqIn, ConcatProperties
<1>. HIDE DEF a, b
<1> DEFINE u == SubSeq(q, m + 1, Len(q))
           v == b \o t
<1>9. a \o u = a \o v /\ u \in Seq(S) /\ v \in Seq(S)
  BY <1>5, <1>6, <1>7, <1>8
<1>. HIDE DEF q, u, v
<1>10. v = u
  BY <1>3, <1>9, ConcatSimplifications
<1>. QED BY <1>5, <1>10 DEF a, b, q, u, v

LEMMA PiecesRead ==
  ASSUME NEW H \in Nat \ {0}, NEW z \in Seq(Nat), NEW open \in BOOLEAN,
         NEW inbox, NEW wire, NEW c \in Nat, NEW k \in Nat,
         Pieces(inbox, wire, <<c, k>>, open, H, z),
         NEW m \in 1..Len(inbox), k + m <= H + z[c] + 1
  PROVE  /\ SubSeq(inbox, 1, m) = [j \in 1..m |-> <<c, k + j - 1>>]
         /\ Pieces(SubSeq(inbox, m + 1, Len(inbox)), wire,
                   PlaceAfter(c, k, m, H, z), open, H, z)
<1> DEFINE P == inbox \o wire
           next == PlaceAfter(c, k, m, H, z)
<1>1. inbox \in Seq(StreamByte) /\ wire \in Seq(StreamByte) /\ Len(wire) \in Nat /\ Len(inbox) \in Nat
  BY LenProperties DEF Pieces
<1>2. Len(P) = Len(inbox) + Len(wire)
  BY <1>1, ConcatProperties
<1>3. StreamFrom(P, <<c, k>>, open, H, z)
  BY DEF Pieces
<1>. HIDE DEF P
<1>4. m \in 1..Len(P) /\ m \in 0..Len(inbox)
  BY <1>1, <1>2
<1>5. /\ SubSeq(P, 1, m) = [j \in 1..m |-> <<c, k + j - 1>>]
      /\ StreamFrom(SubSeq(P, m + 1, Len(P)), next, open, H, z)
  BY ONLY <1>3, <1>4, ReadStream, H \in Nat \ {0}, z \in Seq(Nat), open \in BOOLEAN,
          c \in Nat, k \in Nat, k + m <= H + z[c] + 1, Zenon
<1>. HIDE DEF next
<1>6. /\ SubSeq(inbox, 1, m) = SubSeq(P, 1, m)
      /\ SubSeq(inbox, m + 1, Len(inbox)) \o wire = SubSeq(P, m + 1, Len(P))
  BY <1>1, <1>4, RestOfConcat DEF P
<1>7. SubSeq(inbox, m + 1, Len(inbox)) \in Seq(StreamByte)
  <2>1. m + 1 \in 1..(Len(inbox) + 1) /\ Len(inbox) \in 0..Len(inbox)
    BY <1>1
  <2>. QED BY <1>1, <2>1, SubSeqIn
<1>8. Pieces(SubSeq(inbox, m + 1, Len(inbox)), wire, next, open, H, z)
  BY <1>1, <1>5, <1>6, <1>7 DEF Pieces
<1>. QED BY <1>5, <1>6, <1>8 DEF next

\* The next byte that has arrived stands where the stream goes on.
LEMMA PiecesAt ==
  ASSUME NEW H \in Nat \ {0}, NEW z \in Seq(Nat), NEW open, NEW inbox, NEW wire,
         NEW c, NEW k, Pieces(inbox, wire, <<c, k>>, open, H, z), inbox # <<>>
  PROVE  inbox[1] = <<c, k>> /\ c \in 1..Len(z) /\ k \in 1..(H + z[c])
<1> DEFINE P == inbox \o wire
<1>1. inbox \in Seq(StreamByte) /\ wire \in Seq(StreamByte) /\ Len(wire) \in Nat /\ Len(inbox) \in Nat
  BY LenProperties DEF Pieces
<1>2. Len(inbox) # 0
  BY <1>1, EmptySeq
<1>3. 1 \in 1..(Len(inbox) + Len(wire)) /\ 1 <= Len(inbox)
  BY <1>1, <1>2
<1>4. Len(P) = Len(inbox) + Len(wire) /\ P[1] = inbox[1]
  BY <1>1, <1>3, ConcatProperties
<1>5. StreamFrom(P, <<c, k>>, open, H, z)
  BY DEF Pieces
<1>. HIDE DEF P
<1>6. P # <<>> /\ 1 \in 1..Len(P)
  <2>1. Len(P) # 0
    BY <1>3, <1>4
  <2>. QED BY <1>3, <1>4, <2>1, EmptySeq
<1>7. P[1] = <<c, k>>
  BY <1>5, <1>6 DEF StreamFrom
<1>8. P[1][1] \in 1..Len(z) /\ P[1][2] \in 1..(H + z[P[1][1]])
  BY <1>5, <1>6 DEF StreamFrom, InStream
<1>. QED BY <1>4, <1>7, <1>8

\* Once nothing is under way and nothing will be written, any place will do.
LEMMA PiecesOver ==
  ASSUME NEW H, NEW z, NEW place
  PROVE  Pieces(<<>>, <<>>, place, FALSE, H, z)
<1>1. <<>> \in Seq(StreamByte)
  BY EmptySeq
<1>2. <<>> \o <<>> = <<>>
  BY <1>1, ConcatEmptySeq
<1>3. InStream(<<>>, H, z)
  <2>1. Len(<<>>) = 0 /\ 1..0 = {}
    BY EmptySeq
  <2>. QED BY <1>1, <2>1 DEF InStream
<1>. QED BY <1>1, <1>2, <1>3 DEF Pieces, StreamFrom

\* While the connection is open and nothing is under way, the stream goes on
\* with the next packet to be written.
LEMMA PiecesBegin ==
  ASSUME NEW H, NEW z
  PROVE  Pieces(<<>>, <<>>, <<Len(z) + 1, 1>>, TRUE, H, z)
<1>1. <<>> \in Seq(StreamByte)
  BY EmptySeq
<1>2. <<>> \o <<>> = <<>>
  BY <1>1, ConcatEmptySeq
<1>3. Len(<<>>) = 0 /\ 1..0 = {}
  BY EmptySeq
<1>4. InStream(<<>>, H, z)
  BY <1>1, <1>3 DEF InStream
<1>. QED BY <1>1, <1>2, <1>4 DEF Pieces, StreamFrom

\* Nothing is written yet.
LEMMA PiecesAtFirst ==
  ASSUME NEW H
  PROVE  Pieces(<<>>, <<>>, <<1, 1>>, TRUE, H, <<>>)
<1>1. Pieces(<<>>, <<>>, <<Len(<<>>) + 1, 1>>, TRUE, H, <<>>)
  BY PiecesBegin
<1>2. Len(<<>>) + 1 = 1
  BY EmptySeq
<1>. QED BY <1>1, <1>2
=============================================================================
