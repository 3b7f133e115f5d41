-------------------------- MODULE SrcServerFraming --------------------------
(***************************************************************************)
(* The parsers stay in step with the streams: as long as every message has *)
(* its magic byte, the queue holds just the messages that the protocol has *)
(* the server forward, each of them once and in the order they were sent,  *)
(* for all messages, sources, ways of breaking off and of reading.         *)
(***************************************************************************)
EXTENDS SrcServerProofs, CtmpProofs

-----------------------------------------------------------------------------
(* How the messages that were sent lie in a stream.                        *)

\* Where message x begins in its stream.
StartOf(x) == x.end - HEADER_LENGTH - Len(x.msg.data)

\* Where the messages q end.
LastEnd(q) == IF q = <<>> THEN 0 ELSE q[Len(q)].end

\* Position p is between two of the messages q.
Boundary(q, p) == p = 0 \/ \E k \in DOMAIN q : p = q[k].end

\* Message x is in the bytes b, as far as they go.
LiesIn(x, b) ==
    \A i \in 1 .. HEADER_LENGTH + Len(x.msg.data) :
        StartOf(x) + i <= Len(b) => b[StartOf(x) + i] = (x.msg.header \o x.msg.data)[i]

\* Message k of q begins where the one before it ends, behind all others.
InTurn(q, k) ==
    /\ StartOf(q[k]) = IF k = 1 THEN 0 ELSE q[k - 1].end
    /\ \A j \in 1 .. k - 1 : q[j].end <= StartOf(q[k])

\* The bytes b are the messages q, one after the other, or the first part of them.
Laid(q, b) ==
    /\ Len(b) <= LastEnd(q)
    /\ \A k \in DOMAIN q : InTurn(q, k) /\ LiesIn(q[k], b)

\* The parts of a message that was sent.
LEMMA SentFacts ==
    ASSUME NEW q \in Seq(Sent), NEW k \in DOMAIN q
    PROVE  /\ k \in 1 .. Len(q) /\ q[k] \in Sent /\ q[k].msg \in Messages
           /\ q[k].end \in Nat /\ Len(q[k].msg.data) \in Nat
           /\ StartOf(q[k]) \in Int /\ q[k].end = StartOf(q[k]) + HEADER_LENGTH + Len(q[k].msg.data)
           /\ StartOf(q[k]) < q[k].end
<1>1. k \in 1 .. Len(q) /\ q[k] \in Sent
  OBVIOUS
<1>2. q[k].msg \in Messages /\ q[k].end \in Nat
  BY <1>1 DEF Sent
<1>3. Len(q[k].msg.data) \in Nat
  BY <1>2, MessageType
<1> DEFINE e == q[k].end
           n == Len(q[k].msg.data)
<1>4. e \in Nat /\ n \in Nat
  BY <1>2, <1>3
<1> HIDE DEF e, n
<1>5. e - HEADER_LENGTH - n \in Int /\ e = e - HEADER_LENGTH - n + HEADER_LENGTH + n /\ e - HEADER_LENGTH - n < e
  BY <1>4 DEF HEADER_LENGTH
<1>6. QED
  BY <1>1, <1>2, <1>3, <1>5 DEF StartOf, e, n

\* The bytes of a message.
LEMMA MessageBytes ==
    ASSUME NEW m \in Messages
    PROVE  /\ m.header \in Seq(Byte) /\ Len(m.header) = HEADER_LENGTH
           /\ m.data \in Seq(Byte) /\ Len(m.data) \in Nat
           /\ m.header \o m.data \in Seq(Byte)
           /\ Len(m.header \o m.data) = HEADER_LENGTH + Len(m.data)
           /\ \A i \in 1 .. HEADER_LENGTH : (m.header \o m.data)[i] = m.header[i]
           /\ \A i \in 1 .. Len(m.data) : (m.header \o m.data)[HEADER_LENGTH + i] = m.data[i]
<1>1. m.header \in Seq(Byte) /\ m.data \in Seq(Byte) /\ m.header \o m.data \in Seq(Byte)
  BY MessageType
<1>2. m.header \in [1 .. 8 -> Byte]
  BY SrcAssumption DEF ctmp_msg, HEADER_LENGTH
<1> DEFINE h == m.header
           d == m.data
<1> HIDE DEF h, d
<1>3. DOMAIN h = 1 .. 8
  BY <1>2 DEF h
<1>4. h \in Seq(Byte) /\ d \in Seq(Byte)
  BY <1>1 DEF h, d
<1>5. Len(h) = 8
  BY <1>3, <1>4
<1>6. Len(d) \in Nat
  BY <1>4
<1>7. /\ Len(h \o d) = Len(h) + Len(d)
      /\ \A i \in 1 .. Len(h) + Len(d) :
            (h \o d)[i] = IF i <= Len(h) THEN h[i] ELSE d[i - Len(h)]
  BY <1>4, ConcatProperties
<1>8. \A i \in 1 .. 8 : (h \o d)[i] = h[i]
  BY <1>5, <1>6, <1>7
<1>9. \A i \in 1 .. Len(d) : (h \o d)[8 + i] = d[i]
  <2> SUFFICES ASSUME NEW i \in 1 .. Len(d) PROVE (h \o d)[8 + i] = d[i]
    OBVIOUS
  <2>1. 8 + i \in 1 .. 8 + Len(d) /\ ~(8 + i <= 8) /\ 8 + i - 8 = i
    BY <1>6
  <2>2. QED
    BY <1>5, <1>7, <2>1
<1>10. QED
  BY <1>1, <1>5, <1>6, <1>7, <1>8, <1>9 DEF h, d, HEADER_LENGTH

\* Messages end in the order they were sent, and none after the last.
LEMMA LaidEnds ==
    ASSUME NEW q \in Seq(Sent), NEW b \in Seq(Byte), Laid(q, b)
    PROVE  /\ LastEnd(q) \in Nat
           /\ \A k \in DOMAIN q : StartOf(q[k]) \in Nat /\ q[k].end <= LastEnd(q)
           /\ \A j, k \in DOMAIN q : j < k => q[j].end <= StartOf(q[k]) /\ q[j].end < q[k].end
<1> DEFINE l == Len(q)
<1>1. l \in Nat /\ DOMAIN q = 1 .. l
  OBVIOUS
<1>2. \A k \in 1 .. l : q[k].end \in Nat /\ StartOf(q[k]) < q[k].end /\ StartOf(q[k]) \in Int
  BY <1>1, SentFacts
<1>3. \A k \in 1 .. l : InTurn(q, k)
  BY <1>1 DEF Laid
<1>4. q # <<>> => l >= 1 /\ LastEnd(q) = q[l].end
  <2>1. q # <<>> => l # 0
    OBVIOUS
  <2>2. QED
    BY <1>1, <2>1 DEF LastEnd
<1> HIDE DEF l
<1>5. LastEnd(q) \in Nat
  BY <1>1, <1>2, <1>4 DEF LastEnd
<1>6. ASSUME NEW j \in 1 .. l, NEW k \in 1 .. l, j < k
      PROVE  q[j].end <= StartOf(q[k]) /\ q[j].end < q[k].end
  <2>1. j \in 1 .. k - 1
    BY <1>1, <1>6
  <2>2. q[j].end <= StartOf(q[k])
    BY <1>3, <2>1 DEF InTurn
  <2>3. q[j].end \in Nat /\ q[k].end \in Nat /\ StartOf(q[k]) < q[k].end /\ StartOf(q[k]) \in Int
    BY <1>2
  <2>4. QED
    BY <2>2, <2>3
<1>7. ASSUME NEW k \in 1 .. l PROVE StartOf(q[k]) \in Nat /\ q[k].end <= LastEnd(q)
  <2>1. StartOf(q[k]) \in Nat
    <3>1. k = 1 \/ k - 1 \in 1 .. l
      BY <1>1
    <3>2. StartOf(q[k]) = IF k = 1 THEN 0 ELSE q[k - 1].end
      BY <1>3 DEF InTurn
    <3>3. QED
      BY <1>2, <3>1, <3>2
  <2>2. LastEnd(q) = q[l].end /\ l \in 1 .. l
    <3>1. q # <<>>
      BY <1>1, <1>7
    <3>2. QED
      BY <1>1, <1>4, <3>1
  <2>3. k = l \/ k < l
    BY <1>1
  <2>4. q[k].end \in Nat /\ q[l].end \in Nat
    BY <1>2, <2>2
  <2>5. k < l => q[k].end < q[l].end
    BY <1>6, <2>2
  <2>6. QED
    BY <2>1, <2>2, <2>3, <2>4, <2>5
<1>8. QED
  BY <1>1, <1>5, <1>6, <1>7

\* If there are bytes behind a boundary, a message begins there.
LEMMA LaidStart ==
    ASSUME NEW q \in Seq(Sent), NEW b \in Seq(Byte), Laid(q, b),
           NEW p \in Nat, Boundary(q, p), p < Len(b)
    PROVE  \E k \in DOMAIN q : StartOf(q[k]) = p
<1> DEFINE l == Len(q)
<1>1. l \in Nat /\ DOMAIN q = 1 .. l /\ Len(b) \in Nat
  OBVIOUS
<1>2. Len(b) <= LastEnd(q) /\ LastEnd(q) \in Nat /\ \A k \in 1 .. l : InTurn(q, k)
  BY <1>1, LaidEnds DEF Laid
<1>3. q # <<>> /\ LastEnd(q) = q[l].end
  BY <1>1, <1>2 DEF LastEnd
<1>4. l >= 1
  <2>1. l # 0
    BY <1>3
  <2>2. QED
    BY <1>1, <2>1
<1> HIDE DEF l
<1>5. CASE p = 0
  <2>1. 1 \in 1 .. l /\ InTurn(q, 1)
    BY <1>1, <1>2, <1>4
  <2>2. StartOf(q[1]) = 0
    BY <2>1 DEF InTurn
  <2>3. QED
    BY <1>1, <1>5, <2>1, <2>2
<1>6. ASSUME NEW j \in 1 .. l, p = q[j].end PROVE \E k \in DOMAIN q : StartOf(q[k]) = p
  <2>1. j # l
    BY <1>1, <1>2, <1>3, <1>6
  <2>2. j + 1 \in 1 .. l /\ j + 1 # 1 /\ j + 1 - 1 = j
    BY <1>1, <2>1
  <2>3. StartOf(q[j + 1]) = q[j].end
    <3>1. InTurn(q, j + 1)
      BY <1>2, <2>2
    <3>2. StartOf(q[j + 1]) = IF j + 1 = 1 THEN 0 ELSE q[j + 1 - 1].end
      BY <3>1 DEF InTurn
    <3>3. QED
      BY <2>2, <3>2
  <2>4. QED
    BY <1>1, <1>6, <2>2, <2>3
<1>7. QED
  BY <1>1, <1>5, <1>6 DEF Boundary

\* The bytes of a piece of a stream.
LEMMA PieceAt ==
    ASSUME NEW S, NEW q \in Seq(S), NEW a \in Nat, NEW b \in Nat, a <= b, b <= Len(q)
    PROVE  \A i \in 1 .. b - a : SubSeq(q, a + 1, b)[i] = q[a + i]
<1>1. \A i \in a + 1 .. b : q[i] \in S
  OBVIOUS
<1>2. \A i \in 1 .. b - (a + 1) + 1 : SubSeq(q, a + 1, b)[i] = q[a + 1 + i - 1]
  BY <1>1, SubSeqProperties
<1>3. \A i \in 1 .. b - a : i \in 1 .. b - (a + 1) + 1 /\ a + 1 + i - 1 = a + i
  OBVIOUS
<1>4. QED
  BY <1>2, <1>3

\* The bytes behind those of a first sequence.
LEMMA BehindAt ==
    ASSUME NEW S, NEW h \in Seq(S), NEW d \in Seq(S)
    PROVE  /\ \A i \in 1 .. Len(h) : (h \o d)[i] = h[i]
           /\ \A i \in 1 .. Len(d) : (h \o d)[Len(h) + i] = d[i]
<1>1. Len(h) \in Nat /\ Len(d) \in Nat
  OBVIOUS
<1>2. \A i \in 1 .. Len(h) + Len(d) : (h \o d)[i] = IF i <= Len(h) THEN h[i] ELSE d[i - Len(h)]
  BY ConcatProperties
<1> DEFINE m == Len(h)
           n == Len(d)
<1>3. m \in Nat /\ n \in Nat
  BY <1>1
<1> HIDE DEF m, n
<1>4. /\ \A i \in 1 .. m : i \in 1 .. m + n /\ i <= m
      /\ \A i \in 1 .. n : m + i \in 1 .. m + n /\ ~(m + i <= m) /\ m + i - m = i
  BY <1>3
<1>5. QED
  BY <1>2, <1>4 DEF m, n

\* The first bytes of a message that came are its header.
LEMMA LaidHeader ==
    ASSUME NEW q \in Seq(Sent), NEW b \in Seq(Byte), Laid(q, b), NEW k \in DOMAIN q,
           NEW h \in Seq(Byte), Len(h) = HEADER_LENGTH, NEW d \in Seq(Byte),
           StartOf(q[k]) + HEADER_LENGTH + Len(d) <= Len(b),
           SubSeq(b, StartOf(q[k]) + 1, StartOf(q[k]) + HEADER_LENGTH + Len(d)) = h \o d
    PROVE  h = q[k].msg.header
<1> DEFINE m == q[k].msg
           p == StartOf(q[k])
           n == Len(d)
<1>1. /\ m.header \in Seq(Byte) /\ Len(m.header) = HEADER_LENGTH /\ Len(m.data) \in Nat
      /\ \A i \in 1 .. HEADER_LENGTH : (m.header \o m.data)[i] = m.header[i]
  BY SentFacts, MessageBytes
<1>2. p \in Nat /\ Len(b) \in Nat /\ n \in Nat /\ p + 8 + n <= Len(b)
  BY LaidEnds, SMTT(30) DEF HEADER_LENGTH
<1>3. \A i \in 1 .. 8 : b[p + i] = m.header[i]
  <2> SUFFICES ASSUME NEW i \in 1 .. 8 PROVE b[p + i] = m.header[i]
    OBVIOUS
  <2>1. LiesIn(q[k], b)
    BY DEF Laid
  <2>2. i \in 1 .. HEADER_LENGTH + Len(m.data) /\ i \in 1 .. HEADER_LENGTH /\ p + i <= Len(b)
    <3> DEFINE l == Len(m.data)
    <3>1. l \in Nat
      BY <1>1
    <3> HIDE DEF m, p, n, l
    <3>2. i \in 1 .. 8 + l /\ p + i <= Len(b)
      BY <1>2, <3>1
    <3>3. QED
      BY <3>2 DEF HEADER_LENGTH, l
  <2>3. b[p + i] = (m.header \o m.data)[i]
    BY <2>1, <2>2 DEF LiesIn
  <2>4. QED
    BY <1>1, <2>2, <2>3
<1>4. \A i \in 1 .. 8 : (h \o d)[i] = h[i]
  <2>1. \A i \in 1 .. Len(h) : (h \o d)[i] = h[i]
    BY BehindAt
  <2>2. QED
    BY <2>1 DEF HEADER_LENGTH
<1>5. \A i \in 1 .. 8 : SubSeq(b, p + 1, p + 8 + n)[i] = b[p + i]
  <2> HIDE DEF m, p, n
  <2>1. p + 8 + n \in Nat /\ p <= p + 8 + n /\ p + 8 + n - p = 8 + n
    BY <1>2
  <2>2. \A i \in 1 .. 8 + n : SubSeq(b, p + 1, p + 8 + n)[i] = b[p + i]
    BY <1>2, <2>1, PieceAt
  <2>3. \A i \in 1 .. 8 : i \in 1 .. 8 + n
    BY <1>2
  <2>4. QED
    BY <2>2, <2>3
<1>6. SubSeq(b, p + 1, p + 8 + n) = h \o d
  BY DEF HEADER_LENGTH
<1>7. \A i \in 1 .. 8 : h[i] = m.header[i]
  BY <1>3, <1>4, <1>5, <1>6
<1>8. h = m.header
  <2> DEFINE c == m.header
  <2>1. h \in Seq(Byte) /\ c \in Seq(Byte) /\ Len(c) = Len(h) /\ \A i \in 1 .. Len(h) : h[i] = c[i]
    BY <1>1, <1>7 DEF HEADER_LENGTH
  <2> HIDE DEF c
  <2>2. h = c
    BY <2>1
  <2>3. QED
    BY <2>2 DEF c
<1>9. QED
  BY <1>8 DEF m

\* If all of a message came, the bytes behind its header are its data.
LEMMA LaidData ==
    ASSUME NEW q \in Seq(Sent), NEW b \in Seq(Byte), Laid(q, b), NEW k \in DOMAIN q,
           NEW h \in Seq(Byte), Len(h) = HEADER_LENGTH,
           NEW n \in Nat, NEW d \in Seq(Byte), Len(d) = n, Len(q[k].msg.data) = n,
           StartOf(q[k]) + HEADER_LENGTH + n <= Len(b),
           SubSeq(b, StartOf(q[k]) + 1, StartOf(q[k]) + HEADER_LENGTH + n) = h \o d
    PROVE  d = q[k].msg.data
<1> DEFINE m == q[k].msg
           p == StartOf(q[k])
<1>1. /\ m.data \in Seq(Byte) /\ Len(m.data) = n
      /\ \A i \in 1 .. n : (m.header \o m.data)[HEADER_LENGTH + i] = m.data[i]
  BY SentFacts, MessageBytes
<1>2. p \in Nat /\ Len(b) \in Nat /\ n \in Nat /\ p + 8 + n <= Len(b)
  BY LaidEnds DEF HEADER_LENGTH
<1>3. \A i \in 1 .. n : b[p + (8 + i)] = m.data[i]
  <2> SUFFICES ASSUME NEW i \in 1 .. n PROVE b[p + (8 + i)] = m.data[i]
    OBVIOUS
  <2>1. LiesIn(q[k], b)
    BY DEF Laid
  <2>2. 8 + i \in 1 .. HEADER_LENGTH + Len(m.data) /\ p + (8 + i) <= Len(b)
    <3> HIDE DEF m, p
    <3>1. QED
      BY <1>1, <1>2 DEF HEADER_LENGTH
  <2>3. b[p + (8 + i)] = (m.header \o m.data)[8 + i]
    BY <2>1, <2>2 DEF LiesIn
  <2>4. QED
    BY <1>1, <2>3 DEF HEADER_LENGTH
<1>4. \A i \in 1 .. n : (h \o d)[8 + i] = d[i]
  <2>1. \A x, y \in Seq(Byte) : \A i \in 1 .. Len(y) : (x \o y)[Len(x) + i] = y[i]
    BY BehindAt
  <2>2. Len(h) = 8 /\ 1 .. Len(d) = 1 .. n
    BY DEF HEADER_LENGTH
  <2>3. \A i \in 1 .. Len(d) : (h \o d)[Len(h) + i] = d[i]
    BY <2>1
  <2>4. QED
    BY <2>2, <2>3
<1>5. \A i \in 1 .. n : SubSeq(b, p + 1, p + 8 + n)[8 + i] = b[p + (8 + i)]
  <2> HIDE DEF m, p
  <2>1. p + 8 + n \in Nat /\ p <= p + 8 + n /\ p + 8 + n - p = 8 + n
    BY <1>2
  <2>2. \A i \in 1 .. 8 + n : SubSeq(b, p + 1, p + 8 + n)[i] = b[p + i]
    BY <1>2, <2>1, PieceAt
  <2>3. \A i \in 1 .. n : 8 + i \in 1 .. 8 + n
    BY <1>2
  <2>4. QED
    BY <2>2, <2>3
<1>6. SubSeq(b, p + 1, p + 8 + n) = h \o d
  BY DEF HEADER_LENGTH
<1>7. \A i \in 1 .. n : d[i] = m.data[i]
  BY <1>3, <1>4, <1>5, <1>6
<1>8. d = m.data
  <2> DEFINE c == m.data
  <2>1. d \in Seq(Byte) /\ c \in Seq(Byte) /\ Len(d) = n /\ Len(c) = n /\ \A i \in 1 .. n : d[i] = c[i]
    BY <1>1, <1>7
  <2> HIDE DEF c
  <2>2. d = c
    BY <2>1
  <2>3. QED
    BY <2>2 DEF c
<1>9. QED
  BY <1>8

\* A stream that loses its end still has the first part of the messages.
LEMMA LaidCut ==
    ASSUME NEW q \in Seq(Sent), NEW b \in Seq(Byte), Laid(q, b), NEW c \in Seq(Byte),
           Len(c) <= Len(b), \A i \in 1 .. Len(c) : c[i] = b[i]
    PROVE  Laid(q, c)
<1>1. Len(b) \in Nat /\ Len(c) \in Nat /\ LastEnd(q) \in Nat
  BY LaidEnds
<1>2. Len(c) <= LastEnd(q)
  BY <1>1 DEF Laid
<1>3. ASSUME NEW k \in DOMAIN q PROVE LiesIn(q[k], c)
  <2> SUFFICES ASSUME NEW i \in 1 .. HEADER_LENGTH + Len(q[k].msg.data), StartOf(q[k]) + i <= Len(c)
               PROVE  c[StartOf(q[k]) + i] = (q[k].msg.header \o q[k].msg.data)[i]
    BY DEF LiesIn
  <2>1. StartOf(q[k]) \in Nat
    BY LaidEnds
  <2> DEFINE p == StartOf(q[k])
  <2>2. p \in Nat /\ i \in Nat /\ i >= 1 /\ p + i <= Len(c)
    <3>1. Len(q[k].msg.data) \in Nat
      BY SentFacts
    <3>2. HEADER_LENGTH + Len(q[k].msg.data) \in Nat
      BY <3>1 DEF HEADER_LENGTH
    <3>3. QED
      BY <2>1, <3>2
  <2> HIDE DEF p
  <2>3. p + i \in 1 .. Len(c) /\ p + i <= Len(b)
    BY <1>1, <2>2
  <2>4. c[p + i] = b[p + i]
    BY <2>3
  <2>5. LiesIn(q[k], b)
    BY DEF Laid
  <2>6. b[p + i] = (q[k].msg.header \o q[k].msg.data)[i]
    BY <2>3, <2>5 DEF LiesIn, p
  <2>7. QED
    BY <2>4, <2>6 DEF p
<1>4. QED
  BY <1>2, <1>3 DEF Laid

\* A message that is sent goes behind the others, in a stream that has all of them.
LEMMA LaidAppend ==
    ASSUME NEW q \in Seq(Sent), NEW b \in Seq(Byte), Laid(q, b), Len(b) = LastEnd(q),
           NEW m \in Messages, NEW x \in Sent,
           x.msg = m, x.end = Len(b) + HEADER_LENGTH + Len(m.data)
    PROVE  /\ Laid(Append(q, x), b \o (m.header \o m.data))
           /\ Len(b \o (m.header \o m.data)) = LastEnd(Append(q, x))
<1> DEFINE l == Len(q)
           B == Len(b)
           n == Len(m.data)
           c == m.header \o m.data
           r == Append(q, x)
           d == b \o c
<1>1. l \in Nat /\ B \in Nat /\ DOMAIN q = 1 .. l
  OBVIOUS
<1>2. n \in Nat /\ c \in Seq(Byte) /\ Len(c) = 8 + n
  BY MessageBytes DEF HEADER_LENGTH
<1>3. /\ r \in Seq(Sent) /\ Len(r) = l + 1 /\ r[l + 1] = x
      /\ \A k \in 1 .. l : r[k] = q[k]
  BY AppendProperties
<1>4. \A k \in 1 .. l : r[k] = q[k] /\ InTurn(q, k) /\ LiesIn(q[k], b) /\ q[k].end <= B /\ q[k].end \in Nat
  BY <1>1, <1>3, LaidEnds, SentFacts DEF Laid
<1> HIDE DEF c, r
<1>5. d \in Seq(Byte) /\ Len(d) = B + Len(c)
  BY <1>2, ConcatProperties
<1>6. (\A i \in 1 .. B : d[i] = b[i]) /\ (\A i \in 1 .. Len(c) : d[B + i] = c[i])
  BY <1>2, BehindAt, SMTT(30)
<1> HIDE DEF d
<1>7. DOMAIN r = 1 .. l + 1 /\ r # <<>>
  <2>1. DOMAIN r = 1 .. l + 1
    BY <1>3
  <2>2. 1 \in 1 .. l + 1
    BY <1>1
  <2>3. QED
    BY <2>1, <2>2
<1>8. LastEnd(r) = B + 8 + n
  BY <1>3, <1>7 DEF LastEnd, HEADER_LENGTH
<1>9. Len(d) = LastEnd(r)
  <2> HIDE DEF B, n
  <2>1. B + (8 + n) = B + 8 + n
    BY <1>1, <1>2
  <2>2. QED
    BY <1>2, <1>5, <1>8, <2>1
<1>10. ASSUME NEW k \in 1 .. l PROVE InTurn(r, k) /\ LiesIn(r[k], d)
  <2>1. InTurn(r, k)
    <3>1. k = 1 \/ k - 1 \in 1 .. l
      BY <1>1
    <3>2. \A j \in 1 .. k - 1 : j \in 1 .. l
      BY <1>1
    <3>3. k # 1 => r[k - 1] = q[k - 1]
      BY <1>3, <3>1
    <3>4. \A j \in 1 .. k - 1 : r[j] = q[j]
      BY <1>3, <3>2
    <3>5. r[k] = q[k]
      BY <1>3
    <3>6. QED
      BY <1>4, <3>3, <3>4, <3>5 DEF InTurn
  <2>2. LiesIn(q[k], d)
    <3> SUFFICES ASSUME NEW i \in 1 .. HEADER_LENGTH + Len(q[k].msg.data)
                 PROVE  d[StartOf(q[k]) + i] = (q[k].msg.header \o q[k].msg.data)[i]
      BY DEF LiesIn
    <3> DEFINE p == StartOf(q[k])
               e == q[k].end
               z == Len(q[k].msg.data)
    <3>1. p \in Nat /\ z \in Nat /\ e = p + 8 + z /\ e <= B /\ i \in 1 .. 8 + z
      BY <1>1, <1>4, LaidEnds, SentFacts DEF HEADER_LENGTH
    <3> HIDE DEF p, e, z, B
    <3>2. p + i \in 1 .. B /\ p + i <= B
      BY <1>1, <3>1
    <3>3. d[p + i] = b[p + i]
      BY <1>6, <3>2
    <3>4. b[p + i] = (q[k].msg.header \o q[k].msg.data)[i]
      BY <1>4, <3>2 DEF LiesIn, p, B
    <3>5. QED
      BY <3>3, <3>4 DEF p
  <2>3. QED
    BY <1>3, <2>1, <2>2
<1>11. StartOf(x) = B
  <2>1. StartOf(x) = B + 8 + n - 8 - n
    BY DEF StartOf, HEADER_LENGTH
  <2> HIDE DEF B, n
  <2>2. QED
    BY <1>1, <1>2, <2>1
<1>12. InTurn(r, l + 1)
  <2>1. l + 1 - 1 = l /\ (l + 1 = 1 <=> l = 0) /\ (l # 0 => l \in 1 .. l) /\ 1 .. l + 1 - 1 = 1 .. l
    BY <1>1
  <2>2. l = 0 => B = 0
    <3>1. l = 0 => q = <<>>
      OBVIOUS
    <3>2. QED
      BY <3>1 DEF LastEnd
  <2>3. l # 0 => B = q[l].end
    <3>1. l # 0 => q # <<>>
      OBVIOUS
    <3>2. QED
      BY <3>1 DEF LastEnd
  <2>4. l # 0 => r[l] = q[l]
    BY <1>3, <2>1
  <2>5. B = IF l + 1 = 1 THEN 0 ELSE r[l + 1 - 1].end
    <3> HIDE DEF B, l
    <3>1. QED
      BY <2>1, <2>2, <2>3, <2>4
  <2>6. \A j \in 1 .. l + 1 - 1 : r[j].end <= B
    <3> HIDE DEF B, l
    <3>1. QED
      BY <1>4, <2>1
  <2>7. QED
    BY <1>3, <1>11, <2>5, <2>6 DEF InTurn
<1>13. LiesIn(x, d)
  <2>1. \A i \in 1 .. HEADER_LENGTH + Len(m.data) : d[B + i] = c[i]
    BY <1>2, <1>6 DEF HEADER_LENGTH
  <2>2. QED
    BY <1>11, <2>1 DEF LiesIn, c
<1>14. \A k \in DOMAIN r : InTurn(r, k) /\ LiesIn(r[k], d)
  <2>1. \A k \in 1 .. l + 1 : k \in 1 .. l \/ k = l + 1
    BY <1>1
  <2>2. QED
    BY <1>3, <1>7, <1>10, <1>12, <1>13, <2>1
<1>15. Len(d) <= LastEnd(r)
  <2>1. Len(d) \in Nat
    BY <1>5
  <2>2. QED
    BY <1>9, <2>1
<1>16. Laid(r, d) /\ Len(d) = LastEnd(r)
  BY <1>9, <1>14, <1>15 DEF Laid
<1>17. QED
  BY <1>16 DEF r, d, c

-----------------------------------------------------------------------------
(* Streams and turns.                                                      *)

\* The streams are what was sent, all of it until the source leaves.
StreamInv ==
    \A s \in Sources :
        /\ Laid(sent[s], stream[s])
        /\ conn[s] \in {"new", "open"} => Len(stream[s]) = LastEnd(sent[s])

\* Nothing that was sent is taken back, nor does the mode change.
LEMMA SentKept ==
    ASSUME TypeOK, [Next]_vars
    PROVE  /\ extended' = extended
           /\ \A s \in Sources : \A k \in DOMAIN sent[s] :
                k \in DOMAIN sent'[s] /\ sent'[s][k] = sent[s][k]
<1>1. sent \in [Sources -> Seq(Sent)] /\ stream \in [Sources -> Seq(Byte)]
  BY DEF TypeOK
<1>2. ASSUME NEW t \in Sources, NEW m \in Messages, Send(t, m)
      PROVE  \A s \in Sources : \A k \in DOMAIN sent[s] :
                k \in DOMAIN sent'[s] /\ sent'[s][k] = sent[s][k]
  <2>1. PICK x : sent' = [sent EXCEPT ![t] = Append(sent[t], x)]
    BY <1>2 DEF Send
  <2>2. ASSUME NEW k \in DOMAIN sent[t]
        PROVE  k \in DOMAIN Append(sent[t], x) /\ Append(sent[t], x)[k] = sent[t][k]
    BY <1>1
  <2>3. QED
    BY <1>1, <2>1, <2>2
<1>3. ASSUME sent' = sent
      PROVE  \A s \in Sources : \A k \in DOMAIN sent[s] :
                k \in DOMAIN sent'[s] /\ sent'[s][k] = sent[s][k]
  BY <1>3
<1>4. extended' = extended
  BY DEF Next, SourceThread, Connect, Send, Leave, S_Accept, S_Alive, S_NotAlive, S_Read,
     S_ReadNone, S_ReadFails, S_Insert, vars
<1>5. QED
  BY <1>2, <1>3, <1>4 DEF Next, SourceThread, Connect, Leave, S_Accept, S_Alive, S_NotAlive, S_Read,
     S_ReadNone, S_ReadFails, S_Insert, netVars, vars

\* What a source sends goes to the end of its stream; leaving may cut it; nothing
\* else touches it.
LEMMA StreamStep ==
    ASSUME TypeOK, TypeOK', StreamInv, [Next]_vars
    PROVE  StreamInv'
<1>1. /\ sent \in [Sources -> Seq(Sent)] /\ stream \in [Sources -> Seq(Byte)]
      /\ rpos \in [Sources -> Nat] /\ \A s \in Sources : rpos[s] <= Len(stream[s])
      /\ conn \in [Sources -> {"new", "open", "closed", "reset"}]
  BY DEF TypeOK
<1>2. ASSUME NEW t \in Sources, NEW m \in Messages, Send(t, m) PROVE StreamInv'
  <2> DEFINE x == [msg |-> m, end |-> Len(stream[t]) + HEADER_LENGTH + Len(m.data)]
             b == m.header \o m.data
  <2>1. x \in Sent /\ x.msg = m /\ x.end = Len(stream[t]) + HEADER_LENGTH + Len(m.data)
    <3>1. Len(stream[t]) \in Nat /\ Len(m.data) \in Nat
      BY <1>1, MessageType
    <3>2. \A u, v \in Nat : u + HEADER_LENGTH + v \in Nat
      BY DEF HEADER_LENGTH
    <3>3. Len(stream[t]) + HEADER_LENGTH + Len(m.data) \in Nat
      BY <3>1, <3>2
    <3>4. QED
      BY <3>3 DEF Sent
  <2>2. /\ sent' = [sent EXCEPT ![t] = Append(sent[t], x)]
        /\ stream' = [stream EXCEPT ![t] = stream[t] \o b]
        /\ conn' = conn /\ conn[t] = "open"
    BY <1>1, <1>2 DEF Send
  <2> HIDE DEF x
  <2>3. Laid(sent[t], stream[t]) /\ Len(stream[t]) = LastEnd(sent[t])
    BY <2>2 DEF StreamInv
  <2>4. Laid(Append(sent[t], x), stream[t] \o b) /\ Len(stream[t] \o b) = LastEnd(Append(sent[t], x))
    <3>1. sent[t] \in Seq(Sent) /\ stream[t] \in Seq(Byte)
      BY <1>1
    <3>2. QED
      BY <2>1, <2>3, <3>1, LaidAppend
  <2> HIDE DEF b
  <2>5. sent'[t] = Append(sent[t], x) /\ stream'[t] = stream[t] \o b
    BY <1>1, <2>2
  <2>6. \A s \in Sources \ {t} : sent'[s] = sent[s] /\ stream'[s] = stream[s]
    BY <1>1, <2>2
  <2>7. ASSUME NEW s \in Sources
        PROVE  /\ Laid(sent'[s], stream'[s])
               /\ conn'[s] \in {"new", "open"} => Len(stream'[s]) = LastEnd(sent'[s])
    <3>1. CASE s = t
      BY <2>4, <2>5, <3>1
    <3>2. CASE s # t
      BY <2>2, <2>6, <3>2 DEF StreamInv
    <3>3. QED
      BY <3>1, <3>2
  <2>8. QED
    BY <2>7 DEF StreamInv
<1>3. ASSUME NEW t \in Sources, NEW how \in {"closed", "reset"}, NEW n \in 0 .. MaxLost, Leave(t, how, n)
      PROVE  StreamInv'
  <2> DEFINE l == Len(stream[t]) - n
             c == SubSeq(stream[t], 1, l)
  <2>1. /\ sent' = sent /\ stream' = [stream EXCEPT ![t] = c]
        /\ conn' = [conn EXCEPT ![t] = how]
    BY <1>1, <1>3 DEF Leave
  <2>2. l \in Nat /\ l <= Len(stream[t])
    <3>1. n \in Nat /\ n <= Len(stream[t]) - rpos[t] /\ rpos[t] \in Nat /\ rpos[t] <= Len(stream[t])
      BY <1>1, <1>3, SrcAssumption DEF Leave
    <3>2. Len(stream[t]) \in Nat
      BY <1>1
    <3>3. QED
      BY <3>1, <3>2
  <2> HIDE DEF l
  <2>3. c \in Seq(Byte) /\ Len(c) = l /\ \A i \in 1 .. l : c[i] = stream[t][i]
    <3>1. stream[t] \in Seq(Byte) /\ 0 \in Nat /\ 0 <= l /\ 0 + 1 = 1 /\ l - 0 = l
      BY <1>1, <2>2
    <3>2. SubSeq(stream[t], 0 + 1, l) \in Seq(Byte) /\ Len(SubSeq(stream[t], 0 + 1, l)) = l - 0
      BY <2>2, <3>1, PieceType
    <3>3. \A i \in 1 .. l - 0 : SubSeq(stream[t], 0 + 1, l)[i] = stream[t][0 + i]
      BY <2>2, <3>1, PieceAt
    <3>4. \A i \in 1 .. l : 0 + i = i
      BY <2>2
    <3>5. QED
      BY <3>1, <3>2, <3>3, <3>4
  <2> HIDE DEF c
  <2>4. Laid(sent[t], c)
    <3>1. sent[t] \in Seq(Sent) /\ stream[t] \in Seq(Byte) /\ Laid(sent[t], stream[t])
      BY <1>1 DEF StreamInv
    <3>2. QED
      BY <2>2, <2>3, <3>1, LaidCut
  <2>5. stream'[t] = c /\ conn'[t] = how /\ sent'[t] = sent[t]
    BY <1>1, <2>1
  <2>6. \A s \in Sources \ {t} : sent'[s] = sent[s] /\ stream'[s] = stream[s] /\ conn'[s] = conn[s]
    BY <1>1, <2>1
  <2>7. ASSUME NEW s \in Sources
        PROVE  /\ Laid(sent'[s], stream'[s])
               /\ conn'[s] \in {"new", "open"} => Len(stream'[s]) = LastEnd(sent'[s])
    <3>1. CASE s = t
      BY <2>4, <2>5, <3>1
    <3>2. CASE s # t
      BY <2>6, <3>2 DEF StreamInv
    <3>3. QED
      BY <3>1, <3>2
  <2>8. QED
    BY <2>7 DEF StreamInv
<1>4. ASSUME sent' = sent, stream' = stream,
             \A s \in Sources : conn'[s] \in {"new", "open"} => conn[s] \in {"new", "open"}
      PROVE  StreamInv'
  BY <1>4 DEF StreamInv
<1>5. ASSUME NEW t \in Sources, Connect(t) PROVE StreamInv'
  <2>1. sent' = sent /\ stream' = stream /\ conn' = [conn EXCEPT ![t] = "open"] /\ conn[t] = "new"
    BY <1>5 DEF Connect
  <2>2. \A s \in Sources : conn'[s] \in {"new", "open"} => conn[s] \in {"new", "open"}
    BY <1>1, <2>1
  <2>3. QED
    BY <1>4, <2>1, <2>2
<1>6. CASE S_Alive \/ S_ReadFails
  <2>1. /\ sent' = sent /\ stream' = stream
        /\ conn' = conn \/ conn' = [conn EXCEPT ![src_socket] = "closed"]
    BY <1>6 DEF S_Alive, S_ReadFails, Reported
  <2>2. \A s \in Sources : conn'[s] \in {"new", "open"} => conn[s] \in {"new", "open"}
    BY <1>1, <2>1
  <2>3. QED
    BY <1>4, <2>1, <2>2
<1>7. CASE UNCHANGED <<sent, stream, conn>>
  BY <1>4, <1>7
<1>8. QED
  BY <1>2, <1>3, <1>5, <1>6, <1>7 DEF Next, SourceThread, S_Accept, S_NotAlive, S_Read,
     S_ReadNone, S_Insert, netVars, vars

\* Every source waits once and is served once; nothing is read of it before.
TurnsInv ==
    /\ \A i, j \in DOMAIN pending : pending[i] = pending[j] => i = j
    /\ \A i, j \in DOMAIN served : served[i] = served[j] => i = j
    /\ \A i \in DOMAIN pending, j \in DOMAIN served : pending[i] # served[j]
    /\ \A i \in DOMAIN pending : conn[pending[i]] # "new" /\ rpos[pending[i]] = 0
    /\ \A j \in DOMAIN served : conn[served[j]] # "new"
    /\ \A s \in Sources : conn[s] = "new" => rpos[s] = 0

\* The source being read is the last one accepted, and the queue holds entries
\* of accepted sources only.
ServingInv ==
    /\ src_pc # "accept" => Len(served) >= 1 /\ src_socket = served[Len(served)]
    /\ \A i \in DOMAIN entries : \E p \in DOMAIN served : served[p] = entries[i].src

\* connect() puts a source behind those that wait, accept() takes the first.
LEMMA TurnsStep ==
    ASSUME TypeOK, TypeOK', PlaceInv, TurnsInv, ServingInv, [Next]_vars
    PROVE  TurnsInv'
<1>1. /\ pending \in Seq(Sources) /\ served \in Seq(Sources)
      /\ rpos \in [Sources -> Nat] /\ conn \in [Sources -> {"new", "open", "closed", "reset"}]
  BY DEF TypeOK
<1>2. /\ DOMAIN pending = 1 .. Len(pending) /\ Len(pending) \in Nat
      /\ DOMAIN served = 1 .. Len(served) /\ Len(served) \in Nat
      /\ \A i \in DOMAIN pending : pending[i] \in Sources
      /\ \A i \in DOMAIN served : served[i] \in Sources
  BY <1>1
<1>3. ASSUME NEW t \in Sources, Connect(t) PROVE TurnsInv'
  <2>1. /\ conn[t] = "new" /\ conn' = [conn EXCEPT ![t] = "open"] /\ pending' = Append(pending, t)
        /\ served' = served /\ rpos' = rpos
    BY <1>3 DEF Connect, readVars
  <2>2. rpos[t] = 0 /\ conn'[t] = "open" /\ \A s \in Sources \ {t} : conn'[s] = conn[s]
    BY <1>1, <2>1 DEF TurnsInv
  <2>3. /\ \A i \in DOMAIN pending : pending[i] # t
        /\ \A i \in DOMAIN served : served[i] # t
    BY <2>1 DEF TurnsInv
  <2>4. /\ DOMAIN pending' = 1 .. Len(pending) + 1 /\ pending'[Len(pending) + 1] = t
        /\ \A i \in 1 .. Len(pending) : pending'[i] = pending[i]
    <3>1. Append(pending, t) \in Seq(Sources) /\ Len(Append(pending, t)) = Len(pending) + 1
      BY <1>1, AppendProperties
    <3>2. DOMAIN Append(pending, t) = 1 .. Len(pending) + 1
      BY <3>1
    <3>3. QED
      BY <1>1, <2>1, <3>2, AppendProperties
  <2>5. \A i \in DOMAIN pending' : i \in DOMAIN pending \/ i = Len(pending) + 1
    BY <1>2, <2>4
  <2>6. \A i \in DOMAIN pending' :
           /\ i \in DOMAIN pending => pending'[i] = pending[i] /\ pending'[i] # t
           /\ i \notin DOMAIN pending => i = Len(pending) + 1 /\ pending'[i] = t
    BY <1>2, <2>3, <2>4, <2>5
  <2>7. \A i, j \in DOMAIN pending' : pending'[i] = pending'[j] => i = j
    BY <2>6 DEF TurnsInv
  <2>8. \A i \in DOMAIN pending', j \in DOMAIN served' : pending'[i] # served'[j]
    BY <2>1, <2>3, <2>6 DEF TurnsInv
  <2>9. \A i \in DOMAIN pending' : conn'[pending'[i]] # "new" /\ rpos'[pending'[i]] = 0
    BY <1>2, <2>1, <2>2, <2>6 DEF TurnsInv
  <2>10. \A j \in DOMAIN served' : conn'[served'[j]] # "new"
    BY <1>2, <2>1, <2>2 DEF TurnsInv
  <2>11. \A s \in Sources : conn'[s] = "new" => rpos'[s] = 0
    BY <2>1, <2>2 DEF TurnsInv
  <2>12. \A i, j \in DOMAIN served' : served'[i] = served'[j] => i = j
    BY <2>1 DEF TurnsInv
  <2>13. QED
    BY <2>7, <2>8, <2>9, <2>10, <2>11, <2>12 DEF TurnsInv
<1>4. CASE S_Accept
  <2>1. /\ pending # <<>> /\ pending' = Tail(pending) /\ served' = Append(served, Head(pending))
        /\ conn' = conn /\ rpos' = rpos
    BY <1>4 DEF S_Accept, readVars
  <2>2. 1 \in DOMAIN pending /\ Head(pending) = pending[1]
    BY <1>1, <2>1
  <2>3. /\ \A i \in DOMAIN pending' : i + 1 \in DOMAIN pending /\ i + 1 # 1 /\ pending'[i] = pending[i + 1]
    <3>1. Len(Tail(pending)) = Len(pending) - 1 /\ Tail(pending) \in Seq(Sources)
      BY <1>1, <2>1, HeadTailProperties
    <3>2. DOMAIN pending' = 1 .. Len(pending) - 1
      BY <2>1, <3>1
    <3>3. \A i \in 1 .. Len(Tail(pending)) : Tail(pending)[i] = pending[i + 1]
      BY <1>1, <2>1, HeadTailProperties
    <3>4. QED
      BY <1>2, <2>1, <3>1, <3>2, <3>3
  <2>4. /\ \A j \in DOMAIN served' : j \in DOMAIN served \/ j = Len(served) + 1
        /\ served'[Len(served) + 1] = pending[1] /\ Len(served) + 1 \notin DOMAIN served
        /\ \A j \in DOMAIN served : served'[j] = served[j]
    <3>1. Append(served, Head(pending)) \in Seq(Sources) /\ Len(served') = Len(served) + 1
      BY <1>1, <2>1, <2>2, AppendProperties
    <3>2. DOMAIN served' = 1 .. Len(served) + 1
      BY <2>1, <3>1
    <3>3. /\ served'[Len(served) + 1] = pending[1]
          /\ \A j \in 1 .. Len(served) : served'[j] = served[j]
      BY <1>1, <2>1, <2>2, AppendProperties
    <3>4. QED
      BY <1>2, <3>2, <3>3
  <2>5. \A i, j \in DOMAIN pending' : pending'[i] = pending'[j] => i = j
    <3>1. \A i, j \in DOMAIN pending' : pending'[i] = pending'[j] => i + 1 = j + 1
      BY <2>3 DEF TurnsInv
    <3>2. \A i \in DOMAIN pending' : i \in Int
      <4>1. pending' \in Seq(Sources)
        BY DEF TypeOK
      <4>2. QED
        BY <4>1
    <3>3. QED
      BY <3>1, <3>2
  <2>6. \A i, j \in DOMAIN served' : served'[i] = served'[j] => i = j
    BY <2>2, <2>4 DEF TurnsInv
  <2>7. \A i \in DOMAIN pending', j \in DOMAIN served' : pending'[i] # served'[j]
    BY <2>2, <2>3, <2>4 DEF TurnsInv
  <2>8. \A i \in DOMAIN pending' : conn'[pending'[i]] # "new" /\ rpos'[pending'[i]] = 0
    BY <2>1, <2>3 DEF TurnsInv
  <2>9. \A j \in DOMAIN served' : conn'[served'[j]] # "new"
    BY <2>1, <2>2, <2>4 DEF TurnsInv
  <2>10. \A s \in Sources : conn'[s] = "new" => rpos'[s] = 0
    BY <2>1 DEF TurnsInv
  <2>11. QED
    BY <2>5, <2>6, <2>7, <2>8, <2>9, <2>10 DEF TurnsInv
<1>5. ASSUME pending' = pending, served' = served, rpos' = rpos,
             \A s \in Sources : conn'[s] = "new" <=> conn[s] = "new"
      PROVE  TurnsInv'
  BY <1>2, <1>5 DEF TurnsInv
<1>6. ASSUME NEW t \in Sources,
             \/ \E m \in Messages : Send(t, m)
             \/ \E how \in {"closed", "reset"}, n \in 0 .. MaxLost : Leave(t, how, n)
      PROVE  TurnsInv'
  <2>1. pending' = pending /\ served' = served /\ rpos' = rpos
    BY <1>6 DEF Send, Leave, readVars
  <2>2. \A s \in Sources : conn'[s] = "new" <=> conn[s] = "new"
    BY <1>1, <1>6 DEF Send, Leave
  <2>3. QED
    BY <1>5, <2>1, <2>2
<1>7. CASE S_Read
  <2>1. PICK k \in Nat \ {0} : src_socket \in Sources /\ rpos' = [rpos EXCEPT ![src_socket] = rpos[src_socket] + k]
    BY <1>7, ReadFacts
  <2>2. pending' = pending /\ served' = served /\ conn' = conn /\ src_pc # "accept"
    BY <1>7 DEF S_Read, netVars
  <2>3. Len(served) \in DOMAIN served /\ src_socket = served[Len(served)]
    BY <1>2, <2>2 DEF ServingInv
  <2>4. conn[src_socket] # "new" /\ \A i \in DOMAIN pending : pending[i] # src_socket
    BY <2>3 DEF TurnsInv
  <2>5. \A s \in Sources \ {src_socket} : rpos'[s] = rpos[s]
    BY <1>1, <2>1
  <2>6. QED
    BY <1>2, <2>2, <2>4, <2>5 DEF TurnsInv
<1>8. CASE S_Alive \/ S_ReadFails
  <2>1. pending' = pending /\ served' = served /\ rpos' = rpos /\ src_pc # "accept"
    BY <1>8 DEF S_Alive, S_ReadFails, readVars
  <2>2. Len(served) \in DOMAIN served /\ src_socket = served[Len(served)]
    BY <1>2, <2>1 DEF ServingInv
  <2>3. conn[src_socket] # "new" /\ (conn' = conn \/ conn' = [conn EXCEPT ![src_socket] = "closed"])
    BY <1>8, <2>2 DEF S_Alive, S_ReadFails, Reported, TurnsInv
  <2>4. \A s \in Sources : conn'[s] = "new" <=> conn[s] = "new"
    BY <1>1, <2>3
  <2>5. QED
    BY <1>5, <2>1, <2>4
<1>9. CASE UNCHANGED <<pending, served, rpos, conn>>
  BY <1>5, <1>9
<1>10. QED
  BY <1>3, <1>4, <1>6, <1>7, <1>8, <1>9 DEF Next, SourceThread, S_NotAlive, S_ReadNone, S_Insert,
     netVars, readVars, vars

\* run_src_server() reads from the source it accepted last, and adds its messages.
LEMMA ServingStep ==
    ASSUME TypeOK, TypeOK', PlaceInv, ServingInv, [Next]_vars
    PROVE  ServingInv'
<1>1. /\ pending \in Seq(Sources) /\ served \in Seq(Sources) /\ entries \in Seq(Entry)
      /\ Len(served) \in Nat /\ DOMAIN served = 1 .. Len(served)
  <2>1. pending \in Seq(Sources) /\ served \in Seq(Sources) /\ entries \in Seq(Entry)
    BY DEF TypeOK
  <2>2. Len(served) \in Nat /\ DOMAIN served = 1 .. Len(served)
    BY <2>1
  <2>3. QED
    BY <2>1, <2>2
<1>2. CASE S_Accept
  <2>1. /\ served' = Append(served, Head(pending)) /\ src_socket' = Head(pending)
        /\ entries' = entries /\ Head(pending) \in Sources
    BY <1>1, <1>2, HeadTailProperties DEF S_Accept
  <2>2. /\ Len(served') = Len(served) + 1 /\ served'[Len(served) + 1] = Head(pending)
        /\ \A j \in 1 .. Len(served) : served'[j] = served[j]
    BY <1>1, <2>1, AppendProperties
  <2>3. \A j \in DOMAIN served : j \in DOMAIN served' /\ served'[j] = served[j]
    <3>1. served' \in Seq(Sources)
      BY DEF TypeOK
    <3>2. DOMAIN served' = 1 .. Len(served) + 1
      BY <2>2, <3>1
    <3>3. QED
      BY <1>1, <2>2, <3>2
  <2>4. Len(served') >= 1 /\ src_socket' = served'[Len(served')]
    BY <1>1, <2>1, <2>2
  <2>5. QED
    BY <2>1, <2>3, <2>4 DEF ServingInv
<1>3. CASE S_Insert
  <2>1. /\ served' = served /\ src_socket' = src_socket /\ src_pc # "accept"
        /\ \E e : e.src = src_socket /\ entries' = Append(entries, e)
    BY <1>3 DEF S_Insert
  <2>2. PICK e : e.src = src_socket /\ entries' = Append(entries, e)
    BY <2>1
  <2>3. \A i \in DOMAIN entries' : (i \in DOMAIN entries /\ entries'[i] = entries[i]) \/ entries'[i] = e
    BY <1>1, <2>2
  <2>4. Len(served) \in DOMAIN served /\ src_socket = served[Len(served)] /\ Len(served) >= 1
    BY <1>1, <2>1 DEF ServingInv
  <2>5. \A i \in DOMAIN entries' : \E p \in DOMAIN served : served[p] = entries'[i].src
    BY <2>2, <2>3, <2>4 DEF ServingInv
  <2>6. QED
    BY <2>1, <2>4, <2>5 DEF ServingInv
<1>4. ASSUME served' = served, entries' = entries,
             src_pc' # "accept" => src_pc # "accept" /\ src_socket' = src_socket
      PROVE  ServingInv'
  BY <1>4 DEF ServingInv
<1>5. ASSUME S_Alive \/ S_NotAlive \/ S_Read \/ S_ReadNone \/ S_ReadFails
      PROVE  ServingInv'
  <2>1. served' = served /\ entries' = entries
    BY <1>5 DEF S_Alive, S_NotAlive, S_Read, S_ReadNone, S_ReadFails
  <2>2. src_pc' # "accept" => src_pc # "accept" /\ src_socket' = src_socket
    BY <1>5 DEF S_Alive, S_NotAlive, S_Read, S_ReadNone, S_ReadFails
  <2>3. QED
    BY <1>4, <2>1, <2>2
<1>6. CASE UNCHANGED <<served, entries, src_pc, src_socket>>
  BY <1>4, <1>6
<1>7. QED
  BY <1>2, <1>3, <1>5, <1>6 DEF Next, SourceThread, Connect, Send, Leave, vars

-----------------------------------------------------------------------------
(* In step.                                                                *)

\* ToForward() of the server in mode `ext`.
ShouldForward(ext, m) ==
    m.data # <<>> /\ IF ext THEN ProtocolValid(m) ELSE m.header[1] = MAGIC

\* Every message that was sent has its magic byte.
AllMagic == \A s \in Sources : \A i \in DOMAIN sent[s] : valid_magic(sent[s][i].msg.header)

\* The message being read is x: its header was read.
ReadingOf(x) == Begun = StartOf(x) /\ header = x.msg.header

\* The message to insert is x.
InsertingOf(x) ==
    /\ rpos[src_socket] = x.end /\ header = x.msg.header /\ data = x.msg.data
    /\ ShouldForward(extended, x.msg)

\* The parser is between two messages, at the end of the stream, or in a message.
InStep ==
    /\ src_pc = "alive" => Boundary(sent[src_socket], rpos[src_socket]) \/ AtEnd
    /\ src_pc = "header" => Len(header) < HEADER_LENGTH /\ Boundary(sent[src_socket], Begun)
    /\ src_pc = "data" => \E k \in DOMAIN sent[src_socket] : ReadingOf(sent[src_socket][k])
    /\ src_pc = "insert" => \E k \in DOMAIN sent[src_socket] : InsertingOf(sent[src_socket][k])

\* What was read and is to be forwarded is in the queue, or is being inserted.
Complete ==
    \A s \in Sources : \A k \in DOMAIN sent[s] :
        ShouldForward(extended, sent[s][k].msg) /\ sent[s][k].end <= rpos[s] =>
            \/ \E i \in DOMAIN entries : entries[i].src = s /\ IsMessage(entries[i], sent[s][k])
            \/ src_pc = "insert" /\ s = src_socket /\ rpos[s] = sent[s][k].end

\* What is in the queue was sent and is to be forwarded.
Sound ==
    \A i \in DOMAIN entries : \E k \in DOMAIN sent[entries[i].src] :
        LET x == sent[entries[i].src][k]
        IN  IsMessage(entries[i], x) /\ ShouldForward(extended, x.msg)

\* valid_options() agrees with the protocol on every message with its magic byte.
LEMMA VerdictIsTheProtocols ==
    ASSUME NEW m \in Messages, valid_magic(m.header)
    PROVE  valid_options(m) <=> ProtocolValid(m)
<1>1. m \in ctmp_msg /\ Len(m.data) = set_msg_length(m.header)
  BY SrcAssumption
<1>2. header_checksum(m.header) = calc_checksum(m)
        <=> 256 * m.header[5] + m.header[6] = NetChecksum(m)
  BY <1>1, ChecksumIsTheProtocols
<1>3. 256 * m.header[3] + m.header[4] = Len(m.data) /\ m.header[1] = MAGIC
  BY <1>1 DEF set_msg_length, valid_magic
<1>4. QED
  BY <1>2, <1>3 DEF valid_options, ProtocolValid, OPT_NORM, OPT_SEN

\* A read() of read_msg() makes the piece that was read of the message longer.
LEMMA ReadPiece ==
    ASSUME TypeOK, PlaceInv, ReadingPiece, S_Read
    PROVE  /\ src_socket \in Sources /\ Begun \in Nat /\ Begun' = Begun
           /\ header' \in Seq(Byte) /\ data' \in Seq(Byte)
           /\ header' \o data' = SubSeq(stream[src_socket], Begun + 1, rpos'[src_socket])
           /\ rpos'[src_socket] = Begun + Len(header') + Len(data')
           /\ rpos[src_socket] \in Nat /\ rpos'[src_socket] \in Nat
           /\ Begun <= rpos[src_socket] /\ rpos[src_socket] < rpos'[src_socket]
           /\ rpos'[src_socket] <= Len(stream[src_socket])
           /\ \A s \in Sources \ {src_socket} : rpos'[s] = rpos[s]
           /\ UNCHANGED <<extended, sent, stream, conn, src_socket, entries>>
<1> DEFINE s == src_socket
<1>1. /\ header \in Seq(Byte) /\ data \in Seq(Byte) /\ stream \in [Sources -> Seq(Byte)]
      /\ rpos \in [Sources -> Nat]
  BY DEF TypeOK
<1>2. Len(header) \in Nat /\ Len(data) \in Nat
  BY <1>1
<1>3. /\ UNCHANGED <<extended, sent, stream, conn, src_socket, entries>>
      /\ src_pc \in {"header", "data"}
  BY DEF S_Read, netVars
<1>4. PICK k \in Nat \ {0} :
         /\ s \in Sources /\ rpos[s] \in Nat
         /\ rpos[s] + k <= Len(stream[s])
         /\ rpos' = [rpos EXCEPT ![s] = rpos[s] + k]
         /\ Got(k) \in Seq(Byte) /\ Len(Got(k)) = k
         /\ \/ data = <<>> /\ data' = data /\ header' = header \o Got(k)
            \/ header' = header /\ data' = data \o Got(k)
  BY ReadFacts
<1>5. Begun \in Nat /\ header \o data = SubSeq(stream[s], Begun + 1, rpos[s])
  BY <1>3 DEF ReadingPiece
<1>6. rpos'[s] = rpos[s] + k /\ \A t \in Sources \ {s} : rpos'[t] = rpos[t]
  BY <1>1, <1>4
<1>7. Begun <= rpos[s] /\ rpos[s] + k \in Nat /\ rpos[s] <= rpos[s] + k /\ rpos[s] < rpos[s] + k
  BY <1>2, <1>4 DEF Begun
<1>8. /\ header' \in Seq(Byte) /\ data' \in Seq(Byte)
      /\ header' \o data' = (header \o data) \o Got(k)
      /\ \/ Len(header') = Len(header) + k /\ Len(data') = Len(data)
         \/ Len(header') = Len(header) /\ Len(data') = Len(data) + k
  <2>1. Got(k) \in Seq(Byte) /\ Len(Got(k)) = k
    BY <1>4
  <2>2. CASE data = <<>> /\ data' = data /\ header' = header \o Got(k)
    <3>1. header \o Got(k) \in Seq(Byte) /\ Len(header \o Got(k)) = Len(header) + k
      BY <1>1, <2>1, ConcatProperties
    <3>2. (header \o Got(k)) \o <<>> = header \o Got(k) /\ header \o <<>> = header
      BY <1>1, <3>1, ConcatEmptySeq
    <3>3. QED
      BY <1>1, <2>2, <3>1, <3>2
  <2>3. CASE header' = header /\ data' = data \o Got(k)
    <3>1. (header \o data) \o Got(k) = header \o (data \o Got(k))
      BY <1>1, <2>1, ConcatAssociative
    <3>2. data \o Got(k) \in Seq(Byte) /\ Len(data \o Got(k)) = Len(data) + k
      BY <1>1, <2>1, ConcatProperties
    <3>3. QED
      BY <1>1, <2>3, <3>1, <3>2
  <2>4. QED
    BY <1>4, <2>2, <2>3
<1>9. header' \o data' = SubSeq(stream[s], Begun + 1, rpos[s] + k)
  <2>1. Got(k) = SubSeq(stream[s], rpos[s] + 1, rpos[s] + k)
    BY DEF Got
  <2>2. /\ stream[s] \in Seq(Byte) /\ Begun \in Nat /\ rpos[s] \in Nat /\ rpos[s] + k \in Nat
        /\ Begun <= rpos[s] /\ rpos[s] <= rpos[s] + k /\ rpos[s] + k <= Len(stream[s])
    BY <1>1, <1>4, <1>5, <1>7
  <2>3. SubSeq(stream[s], Begun + 1, rpos[s]) \o SubSeq(stream[s], rpos[s] + 1, rpos[s] + k)
          = SubSeq(stream[s], Begun + 1, rpos[s] + k)
    BY <2>2, PieceGrows, ZenonT(30)
  <2>4. QED
    BY <1>5, <1>8, <2>1, <2>3
<1>10. /\ rpos'[s] - Len(header') - Len(data') = Begun
       /\ rpos'[s] = Begun + Len(header') + Len(data')
  <2> DEFINE r == rpos[s]
             h == Len(header)
             d == Len(data)
             h2 == Len(header')
             d2 == Len(data')
  <2>1. r \in Nat /\ h \in Nat /\ d \in Nat /\ k \in Nat /\ h2 \in Nat /\ d2 \in Nat
    BY <1>2, <1>4, <1>8
  <2>2. (h2 = h + k /\ d2 = d) \/ (h2 = h /\ d2 = d + k)
    BY <1>8
  <2>3. Begun = r - h - d /\ rpos'[s] = r + k
    BY <1>6 DEF Begun
  <2> HIDE DEF r, h, d, h2, d2
  <2>4. rpos'[s] - h2 - d2 = Begun /\ rpos'[s] = Begun + h2 + d2
    BY <2>1, <2>2, <2>3
  <2>5. QED
    BY <2>4 DEF h2, d2
<1>11. Begun' = Begun
  BY <1>3, <1>10 DEF Begun
<1>12. QED
  BY <1>3, <1>4, <1>5, <1>6, <1>7, <1>8, <1>9, <1>10, <1>11

\* After a read() a part is missing still, or is complete and is judged.
LEMMA ReadOutcome ==
    ASSUME TypeOK, PlaceInv, S_Read
    PROVE  \/ /\ src_pc = "header" /\ data' = <<>>
              /\ Len(header') < HEADER_LENGTH /\ src_pc' = "header"
           \/ /\ src_pc = "header" /\ data' = <<>>
              /\ Len(header') = HEADER_LENGTH /\ AfterHeader
           \/ /\ src_pc = "data" /\ header' = header /\ Len(header) = HEADER_LENGTH
              /\ Len(data') < set_msg_length(header) /\ src_pc' = "data"
           \/ /\ src_pc = "data" /\ header' = header /\ Len(header) = HEADER_LENGTH
              /\ data' # <<>> /\ Len(data') = set_msg_length(header) /\ AfterData
<1> DEFINE s == src_socket
<1>1. /\ header \in Seq(Byte) /\ data \in Seq(Byte) /\ Len(header) <= HEADER_LENGTH
      /\ stream \in [Sources -> Seq(Byte)] /\ rpos \in [Sources -> Nat]
      /\ \A t \in Sources : rpos[t] <= Len(stream[t])
      /\ s \in Sources /\ src_pc \in {"header", "data"}
  BY DEF TypeOK, S_Read, PlaceInv
<1>2. Len(header) \in Nat /\ Len(data) \in Nat
  BY <1>1
<1>3. src_pc = "data" =>
        /\ Len(header) = HEADER_LENGTH /\ Len(data) <= set_msg_length(header)
        /\ set_msg_length(header) \in Nat
  BY <1>1, LengthType DEF TypeOK
<1>4. PICK k \in 1 .. Left :
        /\ k <= Wanted
        /\ \/ /\ src_pc = "header"
              /\ header' = header \o Got(k) /\ UNCHANGED data
              /\ IF k = Wanted THEN AfterHeader ELSE UNCHANGED src_pc
           \/ /\ src_pc = "data"
              /\ data' = data \o Got(k) /\ UNCHANGED header
              /\ IF k = Wanted THEN AfterData ELSE UNCHANGED src_pc
  BY DEF S_Read, Got
<1>5. k \in Nat \ {0} /\ Got(k) \in Seq(Byte) /\ Len(Got(k)) = k
  <2> DEFINE a == rpos[s]
             l == Len(stream[s])
  <2>1. a \in Nat /\ l \in Nat /\ a <= l /\ k \in 1 .. l - a
    BY <1>1 DEF Left
  <2> HIDE DEF a, l
  <2>2. k \in Nat \ {0} /\ a + k \in Nat /\ a <= a + k /\ a + k <= l /\ a + k - a = k
    BY <2>1
  <2>3. SubSeq(stream[s], a + 1, a + k) \in Seq(Byte) /\ Len(SubSeq(stream[s], a + 1, a + k)) = a + k - a
    <3>1. stream[s] \in Seq(Byte)
      BY <1>1
    <3>2. QED
      BY <2>1, <2>2, <3>1, PieceType DEF l
  <2>4. QED
    BY <2>2, <2>3 DEF Got, a
<1>6. CASE src_pc = "header"
  <2>1. data' = <<>> /\ header' = header \o Got(k) /\ (IF k = Wanted THEN AfterHeader ELSE src_pc' = src_pc)
    BY <1>4, <1>6 DEF PlaceInv
  <2>2. Len(header') = Len(header) + k
    BY <1>1, <1>5, <2>1, ConcatProperties
  <2>3. k <= HEADER_LENGTH - Len(header) /\ (k = Wanted <=> k = HEADER_LENGTH - Len(header))
    BY <1>4, <1>6 DEF Wanted
  <2>4. /\ k = Wanted => Len(header') = HEADER_LENGTH
        /\ k # Wanted => Len(header') < HEADER_LENGTH
    BY <1>2, <1>5, <2>2, <2>3 DEF HEADER_LENGTH
  <2>5. QED
    BY <1>6, <2>1, <2>4
<1>7. CASE src_pc = "data"
  <2> DEFINE n == set_msg_length(header)
  <2>1. data' = data \o Got(k) /\ header' = header /\ (IF k = Wanted THEN AfterData ELSE src_pc' = src_pc)
    BY <1>4, <1>7
  <2>2. Len(data') = Len(data) + k
    <3>1. data \in Seq(Byte) /\ Got(k) \in Seq(Byte) /\ Len(Got(k)) = k
      BY <1>1, <1>5
    <3>2. Len(data \o Got(k)) = Len(data) + Len(Got(k))
      BY <3>1, ConcatProperties
    <3>3. QED
      BY <2>1, <3>1, <3>2
  <2>3. k <= n - Len(data) /\ (k = Wanted <=> k = n - Len(data)) /\ n \in Nat
    BY <1>3, <1>4, <1>7 DEF Wanted
  <2> HIDE DEF n
  <2>4. /\ k = Wanted => Len(data') = n
        /\ k # Wanted => Len(data') < n
        /\ Len(data') # 0
    BY <1>2, <1>5, <2>2, <2>3
  <2>5. data' # <<>>
    BY <2>4
  <2>6. QED
    BY <1>3, <1>7, <2>1, <2>4, <2>5 DEF n
<1>8. QED
  BY <1>1, <1>6, <1>7

\* A read() that goes no further than the end of message k reads no other message
\* to its end; so all is well if it inserts message k when that is to be forwarded.
LEMMA ReadCompletes ==
    ASSUME TypeOK, StreamInv, Complete, src_pc # "insert", src_socket \in Sources,
           UNCHANGED <<extended, sent, src_socket, entries>>,
           \A s \in Sources \ {src_socket} : rpos'[s] = rpos[s],
           rpos'[src_socket] \in Nat,
           NEW k \in DOMAIN sent[src_socket],
           StartOf(sent[src_socket][k]) <= rpos[src_socket],
           rpos'[src_socket] <= sent[src_socket][k].end,
           /\ rpos'[src_socket] = sent[src_socket][k].end
           /\ ShouldForward(extended, sent[src_socket][k].msg)
           => src_pc' = "insert"
    PROVE  Complete'
<1> DEFINE q == sent[src_socket]
           a == rpos[src_socket]
           b == rpos'[src_socket]
<1>1. /\ q \in Seq(Sent) /\ stream[src_socket] \in Seq(Byte) /\ a \in Nat
      /\ Laid(q, stream[src_socket])
  BY DEF TypeOK, StreamInv
<1>2. ASSUME NEW j \in DOMAIN q, ShouldForward(extended, q[j].msg), q[j].end <= b
      PROVE  \/ \E i \in DOMAIN entries : entries[i].src = src_socket /\ IsMessage(entries[i], q[j])
             \/ src_pc' = "insert" /\ b = q[j].end
  <2>1. CASE q[j].end <= a
    BY <1>2, <2>1 DEF Complete
  <2>2. CASE ~(q[j].end <= a)
    <3>1. /\ \A u, v \in DOMAIN q : u < v => q[u].end <= StartOf(q[v]) /\ q[u].end < q[v].end
          /\ StartOf(q[k]) \in Nat /\ q[j].end \in Nat /\ q[k].end \in Nat
          /\ j \in 1 .. Len(q) /\ k \in 1 .. Len(q)
      BY <1>1, LaidEnds, SentFacts
    <3>2. j \in Int /\ k \in Int
      <4>1. Len(q) \in Nat
        BY <1>1
      <4>2. QED
        BY <3>1, <4>1
    <3>3. b \in Nat
      OBVIOUS
    <3> HIDE DEF q, a, b
    <3>4. ~(j < k)
      <4>1. j < k => q[j].end <= StartOf(q[k])
        BY <3>1 DEF q
      <4>2. StartOf(q[k]) <= a
        BY DEF q, a
      <4>3. QED
        BY <1>1, <2>2, <3>1, <4>1, <4>2
    <3>5. ~(k < j)
      <4>1. k < j => q[k].end < q[j].end
        BY <3>1 DEF q
      <4>2. b <= q[k].end
        BY DEF q, b
      <4>3. QED
        BY <1>2, <3>1, <3>3, <4>1, <4>2
    <3>6. j = k
      BY <3>2, <3>4, <3>5
    <3>7. b = q[j].end
      <4>1. b <= q[j].end
        BY <3>6 DEF q, b
      <4>2. QED
        BY <1>2, <3>1, <3>3, <4>1
    <3>8. src_pc' = "insert"
      BY <1>2, <3>6, <3>7 DEF q, b
    <3>9. QED
      BY <3>7, <3>8
  <2>3. QED
    BY <2>1, <2>2
<1>3. ASSUME NEW s \in Sources \ {src_socket}, NEW j \in DOMAIN sent[s],
             ShouldForward(extended, sent[s][j].msg), sent[s][j].end <= rpos'[s]
      PROVE  \E i \in DOMAIN entries : entries[i].src = s /\ IsMessage(entries[i], sent[s][j])
  BY <1>3 DEF Complete
<1>4. ASSUME NEW s \in Sources, NEW j \in DOMAIN sent[s],
             ShouldForward(extended, sent[s][j].msg), sent[s][j].end <= rpos'[s]
      PROVE  \/ \E i \in DOMAIN entries : entries[i].src = s /\ IsMessage(entries[i], sent[s][j])
             \/ src_pc' = "insert" /\ s = src_socket /\ rpos'[s] = sent[s][j].end
  <2>1. CASE s = src_socket
    BY <1>2, <1>4, <2>1
  <2>2. CASE s # src_socket
    BY <1>3, <1>4, <2>2
  <2>3. QED
    BY <2>1, <2>2
<1>5. QED
  BY <1>4 DEF Complete, IsMessage

\* A read() keeps the parser in step: a complete header is the one that was sent
\* where the message began, complete data are its data, and what is then inserted
\* is what the protocol has the server forward.
LEMMA ReadStep ==
    ASSUME TypeOK, TypeOK', PlaceInv, PieceInv, StreamInv, AllMagic, InStep, Complete, S_Read
    PROVE  InStep' /\ Complete'
<1> DEFINE s == src_socket
           q == sent[s]
           b == stream[s]
<1>1. /\ s \in Sources /\ Begun \in Nat /\ Begun' = Begun
      /\ header' \in Seq(Byte) /\ data' \in Seq(Byte)
      /\ header' \o data' = SubSeq(b, Begun + 1, rpos'[s])
      /\ rpos'[s] = Begun + Len(header') + Len(data')
      /\ rpos[s] \in Nat /\ rpos'[s] \in Nat
      /\ Begun <= rpos[s] /\ rpos[s] < rpos'[s] /\ rpos'[s] <= Len(b)
      /\ \A t \in Sources \ {s} : rpos'[t] = rpos[t]
      /\ UNCHANGED <<extended, sent, stream, conn, src_socket, entries>>
  BY ReadPiece DEF PieceInv
<1>2. q \in Seq(Sent) /\ b \in Seq(Byte) /\ Laid(q, b) /\ Len(b) \in Nat
  <2>1. q \in Seq(Sent) /\ b \in Seq(Byte) /\ Laid(q, b)
    BY <1>1 DEF TypeOK, StreamInv
  <2>2. QED
    BY <2>1
<1>3. src_pc \in {"header", "data"}
  BY DEF S_Read
<1>4. Len(header') \in Nat /\ Len(data') \in Nat
  BY <1>1
\* The message being read.
<1>5. src_pc = "header" => \E k \in DOMAIN q : StartOf(q[k]) = Begun
  <2> SUFFICES ASSUME src_pc = "header" PROVE \E k \in DOMAIN q : StartOf(q[k]) = Begun
    OBVIOUS
  <2>1. Boundary(q, Begun)
    BY DEF InStep
  <2>2. Begun < Len(b)
    <3>1. /\ Begun \in Nat /\ rpos[s] \in Nat /\ rpos'[s] \in Nat /\ Len(b) \in Nat
          /\ Begun <= rpos[s] /\ rpos[s] < rpos'[s] /\ rpos'[s] <= Len(b)
      BY <1>1, <1>2
    <3> HIDE DEF b, s
    <3>2. QED
      BY <3>1
  <2> HIDE DEF q, b
  <2>3. QED
    BY <1>1, <1>2, <2>1, <2>2, LaidStart
<1>6. PICK k \in DOMAIN q : StartOf(q[k]) = Begun /\ (src_pc = "data" => header = q[k].msg.header)
  BY <1>3, <1>5 DEF InStep, ReadingOf
<1> DEFINE m == q[k].msg
           n == Len(m.data)
<1>7. /\ m \in Messages /\ n \in Nat /\ q[k].end \in Nat /\ q[k].end = Begun + HEADER_LENGTH + n
      /\ n = set_msg_length(m.header) /\ valid_magic(m.header) /\ (n = 0 <=> m.data = <<>>)
  <2>1. /\ m \in Messages /\ n \in Nat /\ q[k].end \in Nat
        /\ q[k].end = Begun + HEADER_LENGTH + n
    BY <1>2, <1>6, SentFacts
  <2>2. n = set_msg_length(m.header) /\ valid_magic(m.header)
    BY <1>1, <2>1, SrcAssumption DEF AllMagic
  <2>3. m.data \in Seq(Byte)
    BY <2>1, MessageType
  <2>4. n = 0 <=> m.data = <<>>
    BY <2>3
  <2>5. QED
    BY <2>1, <2>2, <2>4
<1>8. ASSUME rpos'[s] <= q[k].end,
             rpos'[s] = q[k].end /\ ShouldForward(extended, m) => src_pc' = "insert"
      PROVE  Complete'
  <2>1. StartOf(q[k]) <= rpos[s] /\ src_pc # "insert"
    BY <1>1, <1>3, <1>6
  <2>2. QED
    BY <1>1, <1>8, <2>1, ReadCompletes
<1>9. CASE src_pc = "header" /\ data' = <<>> /\ Len(header') < HEADER_LENGTH /\ src_pc' = "header"
  <2>1. rpos'[s] < q[k].end
    <3>1. Len(data') = 0
      BY <1>9
    <3>2. QED
      BY <1>1, <1>4, <1>7, <1>9, <3>1 DEF HEADER_LENGTH
  <2>2. Complete'
    BY <1>1, <1>7, <1>8, <2>1
  <2>3. Boundary(q, Begun)
    BY <1>9 DEF InStep
  <2>4. QED
    BY <1>1, <1>9, <2>2, <2>3 DEF InStep
<1>10. CASE src_pc = "header" /\ data' = <<>> /\ Len(header') = HEADER_LENGTH /\ AfterHeader
  <2>1. Len(data') = 0 /\ rpos'[s] = Begun + HEADER_LENGTH
    <3>1. Len(data') = 0
      BY <1>10
    <3>2. QED
      BY <1>1, <1>10, <3>1 DEF HEADER_LENGTH
  <2>2. header' = m.header
    <3> DEFINE h == header'
               d == data'
    <3>1. h \in Seq(Byte) /\ Len(h) = HEADER_LENGTH /\ d \in Seq(Byte) /\ Len(d) = 0
      BY <1>1, <1>10, <2>1
    <3>2. rpos'[s] = StartOf(q[k]) + HEADER_LENGTH + Len(d)
      BY <1>1, <1>6, <1>10
    <3>3. SubSeq(b, StartOf(q[k]) + 1, StartOf(q[k]) + HEADER_LENGTH + Len(d)) = h \o d
      BY <1>1, <1>6, <3>2
    <3>4. StartOf(q[k]) + HEADER_LENGTH + Len(d) <= Len(b)
      BY <1>1, <3>2
    <3> HIDE DEF h, d, q, b, m
    <3>5. h = q[k].msg.header
      BY <1>2, <3>1, <3>3, <3>4, LaidHeader
    <3>6. QED
      BY <3>5 DEF h, m
  <2>3. src_pc' = "data"
    BY <1>7, <1>10, <2>2 DEF AfterHeader
  <2>4. rpos'[s] <= q[k].end /\ (rpos'[s] = q[k].end => n = 0)
    BY <1>1, <1>7, <2>1 DEF HEADER_LENGTH
  <2>5. Complete'
    BY <1>7, <1>8, <2>4 DEF ShouldForward
  <2>6. QED
    BY <1>1, <1>6, <2>2, <2>3, <2>5 DEF InStep, ReadingOf
<1>11. ASSUME src_pc = "data", header' = header, Len(header) = HEADER_LENGTH
       PROVE  /\ header' = m.header /\ set_msg_length(header) = n
              /\ rpos'[s] = Begun + HEADER_LENGTH + Len(data')
  BY <1>1, <1>6, <1>7, <1>11
<1>12. CASE /\ src_pc = "data" /\ header' = header /\ Len(header) = HEADER_LENGTH
            /\ Len(data') < set_msg_length(header) /\ src_pc' = "data"
  <2>1. rpos'[s] < q[k].end
    BY <1>1, <1>4, <1>7, <1>11, <1>12 DEF HEADER_LENGTH
  <2>2. Complete'
    BY <1>1, <1>7, <1>8, <2>1
  <2>3. header' = m.header
    BY <1>11, <1>12
  <2>4. QED
    BY <1>1, <1>6, <1>12, <2>2, <2>3 DEF InStep, ReadingOf
<1>13. CASE /\ src_pc = "data" /\ header' = header /\ Len(header) = HEADER_LENGTH
            /\ data' # <<>> /\ Len(data') = set_msg_length(header) /\ AfterData
  <2>1. header' = m.header /\ Len(data') = n /\ rpos'[s] = q[k].end
    BY <1>7, <1>11, <1>13
  <2>2. data' = m.data
    <3> DEFINE h == header'
               d == data'
    <3>1. h \in Seq(Byte) /\ Len(h) = HEADER_LENGTH /\ d \in Seq(Byte) /\ Len(d) = n /\ Len(q[k].msg.data) = n
      BY <1>1, <1>13, <2>1
    <3>2. rpos'[s] = StartOf(q[k]) + HEADER_LENGTH + n
      BY <1>6, <1>7, <2>1
    <3>3. SubSeq(b, StartOf(q[k]) + 1, StartOf(q[k]) + HEADER_LENGTH + n) = h \o d
      BY <1>1, <1>6, <3>2
    <3>4. StartOf(q[k]) + HEADER_LENGTH + n <= Len(b)
      BY <1>1, <3>2
    <3>5. n \in Nat
      BY <1>7
    <3> HIDE DEF h, d, q, b, m, n
    <3>6. d = q[k].msg.data
      BY <1>2, <3>1, <3>3, <3>4, <3>5, LaidData
    <3>7. QED
      BY <3>6 DEF d, m
  <2>3. [header |-> header, data |-> data'] = m
    <3>1. m \in ctmp_msg
      BY <1>7, SrcAssumption
    <3>2. m = [header |-> m.header, data |-> m.data]
      BY <3>1 DEF ctmp_msg
    <3>3. QED
      BY <1>13, <2>1, <2>2, <3>2
  <2>4. src_pc' = IF extended => ProtocolValid(m) THEN "insert" ELSE "alive"
    <3>1. valid_options(m) <=> ProtocolValid(m)
      BY <1>7, VerdictIsTheProtocols
    <3>2. QED
      BY <1>13, <2>3, <3>1 DEF AfterData
  <2>5. ShouldForward(extended, m) <=> (extended => ProtocolValid(m))
    BY <1>7, <1>13, <2>2 DEF ShouldForward, valid_magic
  <2>6. Complete'
    <3>1. rpos'[s] <= q[k].end
      BY <1>7, <2>1
    <3>2. QED
      BY <1>8, <2>4, <2>5, <3>1
  <2>7. src_pc' = "insert" => InsertingOf(q[k])'
    BY <1>1, <2>1, <2>2, <2>4, <2>5 DEF InsertingOf
  <2>8. Boundary(q, rpos'[s])
    BY <2>1 DEF Boundary
  <2>9. QED
    BY <1>1, <2>4, <2>6, <2>7, <2>8 DEF InStep
<1>14. QED
  BY <1>9, <1>10, <1>12, <1>13, ReadOutcome

\* While nothing is read or inserted, what was sent in addition is still to be read.
LEMMA CompleteKept ==
    ASSUME TypeOK, TypeOK', Complete, [Next]_vars, UNCHANGED <<rpos, entries>>,
           src_pc = "insert" => src_pc' = "insert" /\ src_socket' = src_socket
    PROVE  Complete'
<1>1. /\ sent \in [Sources -> Seq(Sent)] /\ stream \in [Sources -> Seq(Byte)]
      /\ rpos \in [Sources -> Nat] /\ \A s \in Sources : rpos[s] <= Len(stream[s])
  BY DEF TypeOK
<1>2. /\ extended' = extended
      /\ \A s \in Sources : \A k \in DOMAIN sent[s] : k \in DOMAIN sent'[s] /\ sent'[s][k] = sent[s][k]
  BY SentKept
<1>3. \A s \in Sources : \A k \in DOMAIN sent'[s] \ DOMAIN sent[s] : rpos[s] < sent'[s][k].end
  <2>1. ASSUME NEW t \in Sources, NEW m \in Messages, Send(t, m), NEW s \in Sources,
               NEW k \in DOMAIN sent'[s] \ DOMAIN sent[s]
        PROVE  rpos[s] < sent'[s][k].end
    <3> DEFINE x == [msg |-> m, end |-> Len(stream[t]) + HEADER_LENGTH + Len(m.data)]
    <3>1. sent' = [sent EXCEPT ![t] = Append(sent[t], x)]
      BY <1>1, <2>1 DEF Send
    <3>2. x.end = Len(stream[t]) + HEADER_LENGTH + Len(m.data)
      OBVIOUS
    <3> HIDE DEF x
    <3>3. s = t /\ sent'[s] = Append(sent[s], x)
      BY <1>1, <2>1, <3>1
    <3>4. sent'[s][k] = x
      <4>1. sent[s] \in Seq(Sent) /\ k \in DOMAIN Append(sent[s], x) /\ k \notin DOMAIN sent[s]
        BY <1>1, <2>1, <3>3
      <4>2. Append(sent[s], x)[k] = x
        BY <4>1
      <4>3. QED
        BY <3>3, <4>2
    <3>5. Len(stream[t]) \in Nat /\ Len(m.data) \in Nat /\ rpos[t] \in Nat /\ rpos[t] <= Len(stream[t])
      BY <1>1, MessageType
    <3>6. \A u, v, w \in Nat : u <= v => u < v + HEADER_LENGTH + w
      BY DEF HEADER_LENGTH
    <3>7. rpos[t] < Len(stream[t]) + HEADER_LENGTH + Len(m.data)
      BY <3>5, <3>6
    <3>8. QED
      BY <3>2, <3>3, <3>4, <3>7
  <2>2. CASE sent' = sent
    BY <2>2
  <2>3. QED
    BY <2>1, <2>2 DEF Next, SourceThread, Connect, Leave, S_Accept, S_Alive, S_NotAlive, S_Read,
       S_ReadNone, S_ReadFails, S_Insert, netVars, vars
<1>4. ASSUME NEW s \in Sources, NEW k \in DOMAIN sent'[s],
             ShouldForward(extended', sent'[s][k].msg), sent'[s][k].end <= rpos'[s]
      PROVE  \/ \E i \in DOMAIN entries' : entries'[i].src = s /\ IsMessage(entries'[i], sent'[s][k])
             \/ src_pc' = "insert" /\ s = src_socket' /\ rpos'[s] = sent'[s][k].end
  <2>1. k \in DOMAIN sent[s]
    <3> SUFFICES ASSUME k \notin DOMAIN sent[s] PROVE FALSE
      OBVIOUS
    <3>1. rpos[s] < sent'[s][k].end /\ sent'[s][k].end <= rpos[s]
      BY <1>3, <1>4
    <3>2. rpos[s] \in Nat /\ sent'[s][k].end \in Nat
      <4>1. rpos[s] \in Nat /\ sent'[s] \in Seq(Sent)
        BY DEF TypeOK
      <4>2. QED
        BY <4>1, <1>4, SentFacts
    <3>3. QED
      BY <3>1, <3>2
  <2>2. sent'[s][k] = sent[s][k]
    BY <1>2, <2>1
  <2>3. QED
    BY <1>2, <1>4, <2>1, <2>2 DEF Complete
<1>5. QED
  BY <1>4 DEF Complete, IsMessage

\* What is in the queue stays there, and was sent.
LEMMA SoundKept ==
    ASSUME TypeOK, Sound, [Next]_vars, entries' = entries
    PROVE  Sound'
<1>1. \A i \in DOMAIN entries : entries[i].src \in Sources
  BY EntryFacts
<1>2. /\ extended' = extended
      /\ \A s \in Sources : \A k \in DOMAIN sent[s] : k \in DOMAIN sent'[s] /\ sent'[s][k] = sent[s][k]
  BY SentKept
<1>3. ASSUME NEW i \in DOMAIN entries
      PROVE  \E k \in DOMAIN sent'[entries[i].src] :
               /\ IsMessage(entries[i], sent'[entries[i].src][k])
               /\ ShouldForward(extended, sent'[entries[i].src][k].msg)
  <2>1. PICK k \in DOMAIN sent[entries[i].src] :
               /\ IsMessage(entries[i], sent[entries[i].src][k])
               /\ ShouldForward(extended, sent[entries[i].src][k].msg)
    BY DEF Sound
  <2>2. k \in DOMAIN sent'[entries[i].src] /\ sent'[entries[i].src][k] = sent[entries[i].src][k]
    BY <1>1, <1>2
  <2>3. QED
    BY <2>1, <2>2
<1>4. QED
  BY <1>2, <1>3 DEF Sound, IsMessage

\* Insertion, at the end of the message, adds that message and no other.
LEMMA InsertInStep ==
    ASSUME TypeOK, TypeOK', PlaceInv, StreamInv, InStep, Complete, Sound, S_Insert
    PROVE  InStep' /\ Complete' /\ Sound'
<1> DEFINE s == src_socket
           q == sent[s]
           new == [header |-> header, data |-> data, src |-> s, end |-> rpos[s]]
<1>1. /\ src_pc = "insert" /\ src_pc' = "alive" /\ s \in Sources
      /\ entries' = Append(entries, new)
      /\ UNCHANGED <<extended, sent, stream, conn, rpos, src_socket>>
  BY DEF S_Insert, PlaceInv, netVars, readVars
<1>2. PICK k \in DOMAIN q : InsertingOf(q[k])
  BY <1>1 DEF InStep
<1>3. /\ rpos[s] = q[k].end /\ header = q[k].msg.header /\ data = q[k].msg.data
      /\ ShouldForward(extended, q[k].msg)
  BY <1>2 DEF InsertingOf
<1>4. new.src = s /\ IsMessage(new, q[k])
  BY <1>3 DEF IsMessage
<1> HIDE DEF new
<1>5. /\ \A i \in DOMAIN entries : i \in DOMAIN entries' /\ entries'[i] = entries[i]
      /\ \E i \in DOMAIN entries' : entries'[i] = new
      /\ \A i \in DOMAIN entries' : (i \in DOMAIN entries /\ entries'[i] = entries[i]) \/ entries'[i] = new
  <2>1. entries \in Seq(Entry) /\ Len(entries) \in Nat
    BY DEF TypeOK
  <2>2. Len(entries) + 1 \in DOMAIN Append(entries, new) /\ Append(entries, new)[Len(entries) + 1] = new
    BY <2>1
  <2>3. QED
    BY <1>1, <2>1, <2>2
<1>6. InStep'
  <2>1. Boundary(q, rpos[s])
    BY <1>3 DEF Boundary
  <2>2. QED
    BY <1>1, <2>1 DEF InStep
<1>7. Sound'
  <2>1. ASSUME NEW i \in DOMAIN entries'
        PROVE  \E j \in DOMAIN sent[entries'[i].src] :
                 /\ IsMessage(entries'[i], sent[entries'[i].src][j])
                 /\ ShouldForward(extended, sent[entries'[i].src][j].msg)
    <3>1. CASE i \in DOMAIN entries /\ entries'[i] = entries[i]
      BY <3>1 DEF Sound
    <3>2. CASE entries'[i] = new
      BY <1>3, <1>4, <3>2
    <3>3. QED
      BY <1>5, <3>1, <3>2
  <2>2. QED
    BY <1>1, <2>1 DEF Sound, IsMessage
<1>8. Complete'
  <2>1. ASSUME NEW t \in Sources, NEW j \in DOMAIN sent[t],
               ShouldForward(extended, sent[t][j].msg), sent[t][j].end <= rpos[t]
        PROVE  \E i \in DOMAIN entries' : entries'[i].src = t /\ IsMessage(entries'[i], sent[t][j])
    <3>1. CASE \E i \in DOMAIN entries : entries[i].src = t /\ IsMessage(entries[i], sent[t][j])
      BY <1>5, <3>1
    <3>2. CASE t = s /\ rpos[t] = sent[t][j].end
      <4>1. q \in Seq(Sent) /\ Laid(q, stream[s]) /\ stream[s] \in Seq(Byte)
        BY <1>1 DEF TypeOK, StreamInv
      <4>2. j \in DOMAIN q /\ q[j].end = q[k].end
        BY <1>3, <3>2
      <4> HIDE DEF q
      <4>3. /\ \A u, v \in DOMAIN q : u < v => q[u].end < q[v].end
            /\ j \in 1 .. Len(q) /\ k \in 1 .. Len(q) /\ q[k].end \in Nat
        BY <4>1, <4>2, LaidEnds, SentFacts
      <4>4. j \in Int /\ k \in Int
        <5>1. Len(q) \in Nat
          BY <4>1
        <5>2. QED
          BY <4>3, <5>1
      <4>5. j = k
        BY <4>2, <4>3, <4>4
      <4>6. QED
        BY <1>4, <1>5, <3>2, <4>5 DEF q
    <3>3. QED
      BY <1>1, <2>1, <3>1, <3>2 DEF Complete
  <2>2. QED
    BY <1>1, <2>1 DEF Complete, IsMessage
<1>9. QED
  BY <1>6, <1>7, <1>8

\* accept() starts at the first byte; is_alive() goes on where the last message
\* ended; a read() that returns nothing or fails leaves the parser at the end of
\* the stream or, with a message that has no data, at the end of that message.
LEMMA ControlInStep ==
    ASSUME TypeOK, PlaceInv, StreamInv, TurnsInv, InStep,
           S_Accept \/ S_Alive \/ S_NotAlive \/ S_ReadNone \/ S_ReadFails
    PROVE  InStep'
<1> DEFINE s == src_socket
           q == sent[s]
<1>1. /\ rpos \in [Sources -> Nat] /\ pending \in Seq(Sources)
      /\ conn \in [Sources -> {"new", "open", "closed", "reset"}]
      /\ header \in Seq(Byte) /\ data \in Seq(Byte) /\ Len(header) \in Nat /\ Len(data) \in Nat
  <2>1. header \in Seq(Byte) /\ data \in Seq(Byte)
    BY DEF TypeOK
  <2>2. QED
    BY <2>1 DEF TypeOK
<1>2. UNCHANGED <<sent, rpos, stream>>
  BY DEF S_Accept, S_Alive, S_NotAlive, S_ReadNone, S_ReadFails, netVars, readVars
<1>3. CASE S_Accept
  <2>1. src_socket' = Head(pending) /\ pending # <<>> /\ src_pc' = "alive"
    BY <1>3 DEF S_Accept
  <2>2. 1 \in DOMAIN pending /\ Head(pending) = pending[1]
    BY <1>1, <2>1
  <2>3. rpos[src_socket'] = 0
    BY <2>1, <2>2 DEF TurnsInv
  <2>4. QED
    BY <1>2, <2>1, <2>3 DEF InStep, Boundary
<1>4. CASE S_Alive
  <2>1. s \in Sources /\ src_socket' = s /\ header' = <<>> /\ data' = <<>> /\ src_pc' = "header"
        /\ src_pc = "alive" /\ ~ AtEnd
    BY <1>4 DEF S_Alive, PlaceInv
  <2>2. Boundary(q, rpos[s])
    BY <2>1 DEF InStep
  <2>3. Begun' = rpos[s] /\ Len(header') < HEADER_LENGTH
    BY <1>1, <1>2, <2>1 DEF Begun, HEADER_LENGTH
  <2>4. QED
    BY <1>2, <2>1, <2>2, <2>3 DEF InStep
<1>5. CASE S_NotAlive
  BY <1>5 DEF S_NotAlive, InStep
<1>6. ASSUME src_pc' = "alive", src_socket' = s, Boundary(q, rpos[s]) \/ AtEnd'
      PROVE  InStep'
  BY <1>2, <1>6 DEF InStep
<1>7. CASE S_ReadNone
  <2>1. /\ src_pc' = "alive" /\ src_socket' = s /\ conn' = conn /\ src_pc \in {"header", "data"}
        /\ AtEnd \/ Wanted = 0
    BY <1>7 DEF S_ReadNone, Refuse, netVars
  <2>2. CASE AtEnd
    BY <1>2, <1>6, <2>1, <2>2 DEF AtEnd, Left
  <2>3. CASE Wanted = 0
    <3>1. src_pc # "header"
      <4>1. src_pc = "header" => Len(header) < 8 /\ Wanted = 8 - Len(header)
        BY DEF InStep, Wanted, HEADER_LENGTH
      <4>2. Len(header) \in Nat /\ \A x \in Nat : x < 8 => 8 - x # 0
        BY <1>1
      <4>3. QED
        BY <2>3, <4>1, <4>2
    <3>2. src_pc = "data" /\ s \in Sources
      BY <2>1, <3>1 DEF PlaceInv
    <3>3. PICK k \in DOMAIN q : Begun = StartOf(q[k]) /\ header = q[k].msg.header
      BY <3>2 DEF InStep, ReadingOf
    <3>4. /\ q[k].end = StartOf(q[k]) + HEADER_LENGTH + Len(q[k].msg.data)
          /\ q[k].msg \in Messages /\ q[k].end \in Nat
      <4>1. q \in Seq(Sent)
        BY <3>2 DEF TypeOK
      <4>2. QED
        BY <4>1, SentFacts
    <3>5. set_msg_length(header) = Len(q[k].msg.data) /\ Len(q[k].msg.data) \in Nat
      BY <3>3, <3>4, SrcAssumption, MessageBytes
    <3>6. Len(header) = HEADER_LENGTH /\ set_msg_length(header) - Len(data) = 0
      BY <2>3, <3>2 DEF TypeOK, Wanted
    <3>7. rpos[s] = q[k].end
      <4> DEFINE n == Len(q[k].msg.data)
      <4>1. /\ rpos[s] \in Nat /\ n \in Nat /\ n - Len(data) = 0
            /\ rpos[s] - 8 - Len(data) = StartOf(q[k]) /\ q[k].end = StartOf(q[k]) + 8 + n
        BY <1>1, <3>2, <3>3, <3>4, <3>5, <3>6 DEF Begun, HEADER_LENGTH
      <4> HIDE DEF n
      <4>2. QED
        BY <1>1, <4>1
    <3>8. QED
      BY <1>6, <2>1, <3>7 DEF Boundary
  <2>4. QED
    BY <2>1, <2>2, <2>3
<1>8. CASE S_ReadFails
  <2>1. /\ src_pc' = "alive" /\ src_socket' = s /\ Left = 0 /\ s \in Sources
        /\ conn' = [conn EXCEPT ![s] = "closed"]
    BY <1>8 DEF S_ReadFails, Refuse, Broken, Reported, PlaceInv
  <2>2. conn'[s] = "closed"
    BY <1>1, <2>1
  <2>3. AtEnd'
    BY <1>2, <2>1, <2>2 DEF AtEnd, Left
  <2>4. QED
    BY <1>6, <2>1, <2>3
<1>9. QED
  BY <1>3, <1>4, <1>5, <1>7, <1>8

\* Whatever a source does, the parser is where it was, and the end of a stream
\* stays its end.
LEMMA SourcesInStep ==
    ASSUME TypeOK, PlaceInv, InStep, [Next]_vars, ~ SourceThread
    PROVE  InStep'
<1> DEFINE s == src_socket
<1>1. /\ conn \in [Sources -> {"new", "open", "closed", "reset"}]
      /\ stream \in [Sources -> Seq(Byte)]
  BY DEF TypeOK
<1>2. UNCHANGED <<extended, rpos, header, data, src_pc, src_socket>>
  BY DEF Next, Connect, Send, Leave, readVars, vars
<1>3. src_pc # "accept" => s \in Sources
  BY DEF PlaceInv
<1>4. \A k \in DOMAIN sent[s] : s \in Sources => k \in DOMAIN sent'[s] /\ sent'[s][k] = sent[s][k]
  BY SentKept
<1>5. \A p : s \in Sources /\ Boundary(sent[s], p) => Boundary(sent'[s], p)
  BY <1>4 DEF Boundary
<1>6. s \in Sources /\ AtEnd => AtEnd'
  <2> SUFFICES ASSUME s \in Sources, AtEnd PROVE AtEnd'
    OBVIOUS
  <2>1. conn[s] = "closed" /\ Left = 0
    BY DEF AtEnd
  <2>2. ASSUME NEW t \in Sources, Connect(t) PROVE conn'[s] = "closed" /\ stream' = stream
    BY <1>1, <2>1, <2>2 DEF Connect
  <2>3. ASSUME NEW t \in Sources, NEW m \in Messages, Send(t, m)
        PROVE  conn'[s] = "closed" /\ stream'[s] = stream[s]
    BY <1>1, <2>1, <2>3 DEF Send
  <2>4. ASSUME NEW t \in Sources, NEW how \in {"closed", "reset"}, NEW n \in 0 .. MaxLost, Leave(t, how, n)
        PROVE  conn'[s] = "closed" /\ stream'[s] = stream[s]
    BY <1>1, <2>1, <2>4 DEF Leave
  <2>5. conn'[s] = "closed" /\ stream'[s] = stream[s]
    BY <2>1, <2>2, <2>3, <2>4 DEF Next, netVars, vars
  <2>6. QED
    BY <1>2, <2>1, <2>5 DEF AtEnd, Left
<1>7. src_pc' = "alive" => Boundary(sent'[s], rpos[s]) \/ AtEnd'
  BY <1>2, <1>3, <1>5, <1>6 DEF InStep
<1>8. src_pc' = "header" => Len(header) < HEADER_LENGTH /\ Boundary(sent'[s], Begun)
  BY <1>2, <1>3, <1>5 DEF InStep
<1>9. src_pc' = "data" => \E k \in DOMAIN sent'[s] : Begun = StartOf(sent'[s][k]) /\ header = sent'[s][k].msg.header
  BY <1>2, <1>3, <1>4 DEF InStep, ReadingOf
<1>10. src_pc' = "insert" => \E k \in DOMAIN sent'[s] :
          /\ rpos[s] = sent'[s][k].end /\ header = sent'[s][k].msg.header /\ data = sent'[s][k].msg.data
          /\ ShouldForward(extended, sent'[s][k].msg)
  BY <1>2, <1>3, <1>4 DEF InStep, InsertingOf
<1>11. Begun' = Begun
  BY <1>2 DEF Begun
<1>12. QED
  BY <1>2, <1>7, <1>8, <1>9, <1>10, <1>11 DEF InStep, ReadingOf, InsertingOf

-----------------------------------------------------------------------------
(* The queue is what was sent.                                             *)

\* The entries of a source are in the order of its stream, and those of one source
\* before those of the sources accepted after it.
Order ==
    \A i, j \in DOMAIN entries : i < j =>
        \/ entries[i].src = entries[j].src /\ entries[i].end < entries[j].end
        \/ \E p, q \in DOMAIN served :
            p < q /\ served[p] = entries[i].src /\ served[q] = entries[j].src

\* TAILQ_INSERT_TAIL puts a message behind those read before it from its source,
\* and behind those of all sources served before.
LEMMA OrderStep ==
    ASSUME TypeOK, TypeOK', PlaceInv, PieceInv, ServingInv, Order, [Next]_vars
    PROVE  Order'
<1>1. /\ entries \in Seq(Entry) /\ served \in Seq(Sources) /\ rpos \in [Sources -> Nat]
      /\ Len(entries) \in Nat /\ Len(served) \in Nat
      /\ DOMAIN entries = 1 .. Len(entries) /\ DOMAIN served = 1 .. Len(served)
  <2>1. entries \in Seq(Entry) /\ served \in Seq(Sources) /\ rpos \in [Sources -> Nat]
    BY DEF TypeOK
  <2>2. QED
    BY <2>1
<1>2. CASE S_Insert
  <2> DEFINE s == src_socket
             l == Len(entries)
             new == [header |-> header, data |-> data, src |-> s, end |-> rpos[s]]
  <2>1. /\ src_pc = "insert" /\ s \in Sources /\ served' = served /\ entries' = Append(entries, new)
        /\ Len(header) = HEADER_LENGTH
    BY <1>2 DEF S_Insert, PlaceInv, TypeOK
  <2>2. new.src = s /\ new.end = rpos[s]
    OBVIOUS
  <2> HIDE DEF new
  <2>3. /\ entries'[l + 1] = new /\ \A i \in 1 .. l : entries'[i] = entries[i]
        /\ DOMAIN entries' = 1 .. l + 1
    <3>1. DOMAIN Append(entries, new) = 1 .. l + 1
      BY <1>1
    <3>2. QED
      BY <1>1, <2>1, <3>1
  <2>4. \A i \in 1 .. l : entries[i].src = s => entries[i].end < rpos[s]
    <3> SUFFICES ASSUME NEW i \in 1 .. l, entries[i].src = s PROVE entries[i].end < rpos[s]
      OBVIOUS
    <3>1. entries[i].end <= Begun /\ Begun \in Nat
      BY <1>1, <2>1 DEF PieceInv, ReadingPiece
    <3>2. Begun < rpos[s]
      <4>1. data \in Seq(Byte) /\ rpos[s] \in Nat
        BY <2>1 DEF TypeOK
      <4>2. Len(data) \in Nat
        BY <4>1
      <4> DEFINE r == rpos[s]
                 n == Len(data)
      <4>3. Begun = r - 8 - n /\ r \in Nat /\ n \in Nat
        BY <2>1, <4>1, <4>2 DEF Begun, HEADER_LENGTH
      <4> HIDE DEF r, n
      <4>4. Begun < r
        BY <4>3
      <4>5. QED
        BY <4>4 DEF r
    <3>3. entries[i].end \in Nat /\ rpos[s] \in Nat
      BY <1>1, <2>1, EntryFacts
    <3>4. QED
      BY <3>1, <3>2, <3>3
  <2>5. Len(served) >= 1 /\ s = served[Len(served)]
    BY <2>1 DEF ServingInv
  <2>6. ASSUME NEW i \in 1 .. l
        PROVE  \/ entries[i].src = s /\ entries[i].end < rpos[s]
               \/ \E p, q \in DOMAIN served : p < q /\ served[p] = entries[i].src /\ served[q] = s
    <3>1. PICK p \in DOMAIN served : served[p] = entries[i].src
      BY <1>1 DEF ServingInv
    <3>2. p = Len(served) \/ (p < Len(served) /\ Len(served) \in DOMAIN served)
      BY <1>1, <2>5
    <3>3. QED
      BY <2>4, <2>5, <3>1, <3>2
  <2>7. ASSUME NEW i \in 1 .. l + 1, NEW j \in 1 .. l + 1, i < j
        PROVE  \/ entries'[i].src = entries'[j].src /\ entries'[i].end < entries'[j].end
               \/ \E p, q \in DOMAIN served :
                    p < q /\ served[p] = entries'[i].src /\ served[q] = entries'[j].src
    <3>1. i \in 1 .. l /\ (j \in 1 .. l \/ j = l + 1)
      BY <1>1, <2>7
    <3>2. CASE j \in 1 .. l
      <4>1. entries'[i] = entries[i] /\ entries'[j] = entries[j]
        BY <2>3, <3>1, <3>2
      <4>2. i \in DOMAIN entries /\ j \in DOMAIN entries
        BY <1>1, <3>1, <3>2
      <4>3. QED
        BY <2>7, <4>1, <4>2 DEF Order
    <3>3. CASE j = l + 1
      BY <2>2, <2>3, <2>6, <3>1, <3>3
    <3>4. QED
      BY <3>1, <3>2, <3>3
  <2>8. QED
    BY <2>1, <2>3, <2>7 DEF Order
<1>3. ASSUME entries' = entries, \A p \in DOMAIN served : p \in DOMAIN served' /\ served'[p] = served[p]
      PROVE  Order'
  BY <1>3 DEF Order
<1>4. CASE S_Accept
  <2>1. entries' = entries /\ \E x : served' = Append(served, x)
    BY <1>4 DEF S_Accept
  <2>2. \A p \in DOMAIN served : p \in DOMAIN served' /\ served'[p] = served[p]
    BY <1>1, <2>1
  <2>3. QED
    BY <1>3, <2>1, <2>2
<1>5. CASE UNCHANGED <<entries, served>>
  BY <1>3, <1>5
<1>6. QED
  BY <1>2, <1>4, <1>5 DEF Next, SourceThread, Connect, Send, Leave, S_Alive, S_NotAlive, S_Read,
     S_ReadNone, S_ReadFails, vars

\* The inductive invariant of the framing.
FramingInv ==
    /\ StreamInv /\ TurnsInv /\ ServingInv /\ Order
    /\ AllMagic => InStep /\ Complete /\ Sound

\* A message with a wrong magic byte stays sent.
LEMMA MagicBefore ==
    ASSUME TypeOK, [Next]_vars, AllMagic'
    PROVE  AllMagic
<1>1. \A s \in Sources : \A k \in DOMAIN sent[s] : k \in DOMAIN sent'[s] /\ sent'[s][k] = sent[s][k]
  BY SentKept
<1>2. QED
  BY <1>1 DEF AllMagic, valid_magic

\* Every step of the sources and of the source thread keeps the framing.
LEMMA FramingStep ==
    ASSUME TypeOK, TypeOK', PlaceInv, PieceInv, FramingInv, [Next]_vars
    PROVE  FramingInv'
<1>1. StreamInv' /\ TurnsInv' /\ ServingInv' /\ Order'
  BY StreamStep, TurnsStep, ServingStep, OrderStep DEF FramingInv
<1>2. ASSUME AllMagic' PROVE InStep' /\ Complete' /\ Sound'
  <2>1. StreamInv /\ TurnsInv /\ AllMagic /\ InStep /\ Complete /\ Sound
    BY <1>2, MagicBefore DEF FramingInv
  <2>2. CASE S_Insert
    BY <2>1, <2>2, InsertInStep
  <2>3. CASE S_Read
    <3>1. entries' = entries
      BY <2>3 DEF S_Read
    <3>2. QED
      BY <2>1, <2>3, <3>1, ReadStep, SoundKept
  <2>4. CASE S_Accept \/ S_Alive \/ S_NotAlive \/ S_ReadNone \/ S_ReadFails
    <3>1. UNCHANGED <<rpos, entries>> /\ src_pc # "insert"
      BY <2>4 DEF S_Accept, S_Alive, S_NotAlive, S_ReadNone, S_ReadFails, readVars
    <3>2. QED
      BY <2>1, <2>4, <3>1, ControlInStep, CompleteKept, SoundKept
  <2>5. CASE ~ SourceThread
    <3>1. UNCHANGED <<rpos, entries, src_pc, src_socket>>
      BY <2>5 DEF Next, Connect, Send, Leave, readVars, vars
    <3>2. QED
      BY <2>1, <2>5, <3>1, SourcesInStep, CompleteKept, SoundKept
  <2>6. QED
    BY <2>2, <2>3, <2>4, <2>5 DEF SourceThread
<1>3. QED
  BY <1>1, <1>2 DEF FramingInv

\* The parsers are in step with the streams in every reachable state.
THEOREM FramingHolds == Spec => []FramingInv
<1>1. Init => FramingInv
  <2> SUFFICES ASSUME Init PROVE FramingInv
    OBVIOUS
  <2>1. /\ entries = <<>> /\ pending = <<>> /\ served = <<>> /\ src_pc = "accept"
        /\ \A s \in Sources : sent[s] = <<>> /\ stream[s] = <<>> /\ rpos[s] = 0
        /\ DOMAIN <<>> = {} /\ Len(<<>>) = 0
    BY DEF Init
  <2>2. StreamInv /\ TurnsInv /\ ServingInv /\ Order
    BY <2>1 DEF StreamInv, TurnsInv, ServingInv, Order, Laid, LastEnd
  <2>3. InStep /\ Complete /\ Sound
    BY <2>1 DEF InStep, Complete, Sound
  <2>4. QED
    BY <2>2, <2>3 DEF FramingInv
<1>2. QED
  BY <1>1, FramingStep, SrcPlaces, PiecesHold, PTL DEF Spec

\* As long as every message has its magic byte, nothing puts the parsers out of step
\* with a stream, in either mode: neither short reads, refused options or checksums,
\* messages without data, nor sources that break off or the change to the next one.
\* Once a read() brought the last byte of a message that the protocol has the server
\* forward, and it was inserted, it is in the queue, as it was sent, once, in its
\* place; and nothing else is in the queue.
THEOREM QueueIsFramed == Spec => []FramesWhatWasSent
<1>1. FramingInv => FramesWhatWasSent
  <2> SUFFICES ASSUME FramingInv, src_pc # "insert",
                      \A s \in Sources : \A i \in DOMAIN sent[s] : valid_magic(sent[s][i].msg.header)
               PROVE  QueueIsWhatWasSent
    BY DEF FramesWhatWasSent
  <2>1. Order /\ Complete /\ Sound
    BY DEF FramingInv, AllMagic
  <2>2. \A m : ToForward(m) <=> ShouldForward(extended, m)
    BY DEF ToForward, ShouldForward
  <2>3. \A i \in DOMAIN entries : \E k \in DOMAIN sent[entries[i].src] :
          LET x == sent[entries[i].src][k]
          IN  IsMessage(entries[i], x) /\ ToForward(x.msg)
    BY <2>1, <2>2 DEF Sound
  <2>4. \A s \in Sources : \A k \in DOMAIN sent[s] :
          ToForward(sent[s][k].msg) /\ sent[s][k].end <= rpos[s] =>
            \E i \in DOMAIN entries : entries[i].src = s /\ IsMessage(entries[i], sent[s][k])
    BY <2>1, <2>2 DEF Complete
  <2>5. QED
    BY <2>1, <2>3, <2>4 DEF QueueIsWhatWasSent, Order
<1>2. QED
  BY <1>1, FramingHolds, PTL
=============================================================================
