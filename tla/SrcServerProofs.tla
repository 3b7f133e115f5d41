-------------------------- MODULE SrcServerProofs --------------------------
(***************************************************************************)
(* run_src_server() and read_msg() cut the queue's entries out of the      *)
(* sources' streams, for all messages, sources and ways of reading.        *)
(***************************************************************************)
EXTENDS SrcServer, SequenceTheorems, TLAPS

-----------------------------------------------------------------------------
(* Pieces of a stream.                                                     *)

\* What a piece of a stream is.
LEMMA PieceType ==
    ASSUME NEW S, NEW q \in Seq(S), NEW a \in Nat, NEW b \in Nat, a <= b, b <= Len(q)
    PROVE  SubSeq(q, a + 1, b) \in Seq(S) /\ Len(SubSeq(q, a + 1, b)) = b - a
<1>1. \A i \in a + 1 .. b : q[i] \in S
  OBVIOUS
<1>2. QED
  BY <1>1, SubSeqProperties

\* A piece depends on nothing behind it: the stream may grow there (a source
\* sends) or lose its end (a source breaks off).
LEMMA PieceKept ==
    ASSUME NEW S, NEW q \in Seq(S), NEW r \in Seq(S), NEW a \in Nat, NEW b \in Nat, a <= b,
           b <= Len(q), b <= Len(r), \A i \in 1 .. b : q[i] = r[i]
    PROVE  SubSeq(q, a + 1, b) = SubSeq(r, a + 1, b)
<1>1. /\ \A i \in 1 .. b - (a + 1) + 1 : SubSeq(q, a + 1, b)[i] = q[a + 1 + i - 1]
      /\ \A i \in 1 .. b - (a + 1) + 1 : SubSeq(r, a + 1, b)[i] = r[a + 1 + i - 1]
  <2>1. (\A i \in a + 1 .. b : q[i] \in S) /\ (\A i \in a + 1 .. b : r[i] \in S)
    OBVIOUS
  <2>2. QED
    BY <2>1, SubSeqProperties
<1> DEFINE x == SubSeq(q, a + 1, b)
           y == SubSeq(r, a + 1, b)
<1>2. x \in Seq(S) /\ y \in Seq(S) /\ Len(x) = b - a /\ Len(y) = b - a
  BY PieceType
<1>3. \A i \in 1 .. b - a : x[i] = y[i]
  BY <1>1
<1> HIDE DEF x, y
<1>4. x = y
  BY <1>2, <1>3
<1>5. QED
  BY <1>4 DEF x, y

\* Two pieces, one behind the other, are one (what read_msg() relies on when it
\* stores the bytes of a read behind those of the last).
LEMMA PieceGrows ==
    ASSUME NEW S, NEW q \in Seq(S), NEW a \in Nat, NEW b \in Nat, NEW c \in Nat,
           a <= b, b <= c, c <= Len(q)
    PROVE  SubSeq(q, a + 1, b) \o SubSeq(q, b + 1, c) = SubSeq(q, a + 1, c)
<1>1. a + 1 \in 1 .. Len(q) + 1 /\ b \in (a + 1) - 1 .. Len(q) /\ c \in b .. Len(q)
  OBVIOUS
<1>2. QED
  BY <1>1, ConcatAdjacentSubSeq

-----------------------------------------------------------------------------
(* Types.                                                                  *)

\* The length field is a number.
LEMMA LengthType ==
    ASSUME NEW h \in Seq(Byte), Len(h) = HEADER_LENGTH
    PROVE  set_msg_length(h) \in Nat
<1>1. h[3] \in Byte /\ h[4] \in Byte
  BY DEF HEADER_LENGTH
<1>2. \A x, y \in 0 .. 255 : 256 * x + y \in Nat
  OBVIOUS
<1>3. 256 * h[3] + h[4] \in Nat
  BY <1>1, <1>2 DEF Byte
<1>4. QED
  BY <1>3 DEF set_msg_length

\* Messages are bytes.
LEMMA MessageType ==
    ASSUME NEW m \in Messages
    PROVE  m.header \in Seq(Byte) /\ m.data \in Seq(Byte) /\ m.header \o m.data \in Seq(Byte)
<1>1. m.header \in [1 .. 8 -> Byte] /\ m.data \in Seq(Byte)
  BY SrcAssumption DEF ctmp_msg, HEADER_LENGTH
<1>2. m.header \in Seq(Byte)
  BY <1>1, SeqDef
<1>3. QED
  BY <1>1, <1>2, ConcatProperties

\* Where the source thread is, and what it has: a connection once it has
\* accepted one; no data before the header is complete; all of it to insert.
PlaceInv ==
    /\ src_pc # "accept" => src_socket \in Sources
    /\ src_pc = "header" => data = <<>>
    /\ src_pc = "insert" => Len(data) = set_msg_length(header)

\* The k bytes that read() returns in read_msg().
Got(k) == SubSeq(stream[src_socket], rpos[src_socket] + 1, rpos[src_socket] + k)

\* A read() takes at least a byte, at most what is wanted and left.  It goes behind
\* the header or behind the data, while the other is empty or complete.
LEMMA ReadFacts ==
    ASSUME TypeOK, PlaceInv, S_Read
    PROVE  /\ src_socket \in Sources /\ rpos[src_socket] \in Nat
           /\ \E k \in Nat \ {0} :
                /\ rpos[src_socket] + k <= Len(stream[src_socket])
                /\ rpos' = [rpos EXCEPT ![src_socket] = rpos[src_socket] + k]
                /\ Got(k) \in Seq(Byte) /\ Len(Got(k)) = k
                /\ \/ /\ src_pc = "header" /\ data = <<>> /\ data' = data
                      /\ header' = header \o Got(k)
                      /\ Len(header') = Len(header) + k /\ Len(header') <= HEADER_LENGTH
                      /\ \/ src_pc' \in {"header", "alive"}
                         \/ src_pc' = "data" /\ Len(header') = HEADER_LENGTH
                   \/ /\ src_pc = "data" /\ header' = header /\ Len(header) = HEADER_LENGTH
                      /\ data' = data \o Got(k)
                      /\ Len(data') = Len(data) + k /\ Len(data') <= set_msg_length(header)
                      /\ \/ src_pc' \in {"data", "alive"}
                         \/ src_pc' = "insert" /\ Len(data') = set_msg_length(header)
<1> DEFINE s == src_socket
<1>1. s \in Sources /\ src_pc \in {"header", "data"}
  BY DEF S_Read, PlaceInv
<1>2. stream \in [Sources -> Seq(Byte)] /\ rpos \in [Sources -> Nat] /\ rpos[s] <= Len(stream[s])
  BY <1>1 DEF TypeOK
<1>3. stream[s] \in Seq(Byte) /\ Len(stream[s]) \in Nat /\ rpos[s] \in Nat
  BY <1>1, <1>2
<1>4. header \in Seq(Byte) /\ data \in Seq(Byte) /\ Len(header) <= HEADER_LENGTH
  BY DEF TypeOK
<1>5. Len(header) \in Nat /\ Len(data) \in Nat
  BY <1>4
<1>6. src_pc = "data" =>
        /\ Len(header) = HEADER_LENGTH /\ Len(data) <= set_msg_length(header)
        /\ set_msg_length(header) \in Nat
  BY <1>4, LengthType DEF TypeOK
<1>7. PICK k \in 1 .. Left :
        /\ k <= Wanted
        /\ rpos' = [rpos EXCEPT ![s] = rpos[s] + k]
        /\ \/ /\ src_pc = "header"
              /\ header' = header \o Got(k) /\ UNCHANGED data
              /\ IF k = Wanted THEN AfterHeader ELSE UNCHANGED src_pc
           \/ /\ src_pc = "data"
              /\ data' = data \o Got(k) /\ UNCHANGED header
              /\ IF k = Wanted THEN AfterData ELSE UNCHANGED src_pc
  BY DEF S_Read, Got
<1>8. k \in Nat \ {0} /\ rpos[s] + k <= Len(stream[s])
  BY <1>3, <1>7 DEF Left
<1>9. Got(k) \in Seq(Byte) /\ Len(Got(k)) = k
  <2>1. /\ SubSeq(stream[s], rpos[s] + 1, rpos[s] + k) \in Seq(Byte)
        /\ Len(SubSeq(stream[s], rpos[s] + 1, rpos[s] + k)) = rpos[s] + k - rpos[s]
    BY <1>3, <1>8, PieceType
  <2>2. QED
    BY <1>3, <1>8, <2>1 DEF Got
<1>10. CASE src_pc = "header"
  <2>1. Len(header') = Len(header) + k
    BY <1>4, <1>7, <1>9, <1>10, ConcatProperties
  <2>2. k <= HEADER_LENGTH - Len(header) /\ (k = Wanted => Len(header') = HEADER_LENGTH)
    BY <1>5, <1>7, <1>8, <1>10, <2>1 DEF Wanted, HEADER_LENGTH
  <2>3. src_pc' \in {"header", "alive"} \/ (src_pc' = "data" /\ Len(header') = HEADER_LENGTH)
    BY <1>7, <1>10, <2>2 DEF AfterHeader
  <2>4. Len(header') <= HEADER_LENGTH
    BY <1>5, <1>8, <2>1, <2>2 DEF HEADER_LENGTH
  <2>5. data = <<>>
    BY <1>10 DEF PlaceInv
  <2>6. QED
    BY <1>1, <1>3, <1>7, <1>8, <1>9, <1>10, <2>1, <2>3, <2>4, <2>5
<1>11. CASE src_pc = "data"
  <2>1. Len(data') = Len(data) + k
    BY <1>4, <1>7, <1>9, <1>11, ConcatProperties
  <2>2. /\ k <= set_msg_length(header) - Len(data)
        /\ k = Wanted => Len(data') = set_msg_length(header)
    BY <1>5, <1>6, <1>7, <1>8, <1>11, <2>1 DEF Wanted
  <2>3. \/ src_pc' \in {"data", "alive"}
        \/ src_pc' = "insert" /\ Len(data') = set_msg_length(header)
    BY <1>7, <1>11, <2>2 DEF AfterData
  <2>4. Len(data') <= set_msg_length(header)
    BY <1>5, <1>6, <1>8, <1>11, <2>1, <2>2
  <2>5. QED
    BY <1>1, <1>3, <1>6, <1>7, <1>8, <1>9, <1>11, <2>1, <2>3, <2>4
<1>12. QED
  BY <1>1, <1>10, <1>11

\* What the sources do to a stream leaves what was read of it alone.
LEMMA SourceFacts ==
    ASSUME TypeOK, NEW s \in Sources,
           \/ \E m \in Messages : Send(s, m)
           \/ \E how \in {"closed", "reset"}, n \in 0 .. MaxLost : Leave(s, how, n)
    PROVE  \E q \in Seq(Byte) :
             /\ stream' = [stream EXCEPT ![s] = q]
             /\ rpos[s] \in Nat /\ rpos[s] <= Len(q) /\ rpos[s] <= Len(stream[s])
             /\ \A i \in 1 .. rpos[s] : q[i] = stream[s][i]
<1>1. stream \in [Sources -> Seq(Byte)] /\ rpos \in [Sources -> Nat] /\ rpos[s] <= Len(stream[s])
  BY DEF TypeOK
<1>2. stream[s] \in Seq(Byte) /\ Len(stream[s]) \in Nat /\ rpos[s] \in Nat
  BY <1>1
<1>3. ASSUME NEW m \in Messages, Send(s, m)
      PROVE  \E q \in Seq(Byte) :
               /\ stream' = [stream EXCEPT ![s] = q]
               /\ rpos[s] <= Len(q)
               /\ \A i \in 1 .. rpos[s] : q[i] = stream[s][i]
  <2> DEFINE b == m.header \o m.data
             q == stream[s] \o b
  <2>1. b \in Seq(Byte)
    BY MessageType
  <2>2. stream' = [stream EXCEPT ![s] = q]
    BY <1>1, <1>3 DEF Send
  <2> HIDE DEF b
  <2>3. Len(b) \in Nat
    BY <2>1
  <2>4. /\ q \in Seq(Byte) /\ Len(q) = Len(stream[s]) + Len(b)
        /\ \A i \in 1 .. Len(stream[s]) + Len(b) :
             q[i] = IF i <= Len(stream[s]) THEN stream[s][i] ELSE b[i - Len(stream[s])]
    BY <1>2, <2>1, ConcatProperties
  <2> HIDE DEF q
  <2>5. rpos[s] <= Len(q) /\ \A i \in 1 .. rpos[s] : q[i] = stream[s][i]
    BY <1>1, <1>2, <2>3, <2>4
  <2>6. QED
    BY <2>2, <2>4, <2>5
<1>4. ASSUME NEW how \in {"closed", "reset"}, NEW n \in 0 .. MaxLost, Leave(s, how, n)
      PROVE  \E q \in Seq(Byte) :
               /\ stream' = [stream EXCEPT ![s] = q]
               /\ rpos[s] <= Len(q)
               /\ \A i \in 1 .. rpos[s] : q[i] = stream[s][i]
  <2> DEFINE l == Len(stream[s]) - n
             q == SubSeq(stream[s], 1, l)
  <2>1. l \in Nat /\ l <= Len(stream[s]) /\ rpos[s] <= l
    BY <1>1, <1>2, <1>4, SrcAssumption DEF Leave
  <2>2. stream' = [stream EXCEPT ![s] = q]
    BY <1>1, <1>4 DEF Leave
  <2> HIDE DEF l
  <2>3. /\ q \in Seq(Byte) /\ Len(q) = l
        /\ \A i \in 1 .. l - 1 + 1 : q[i] = stream[s][1 + i - 1]
    <3>1. \A i \in 1 .. l : stream[s][i] \in Byte
      BY <1>2, <2>1
    <3>2. QED
      BY <2>1, <3>1, SubSeqProperties
  <2> HIDE DEF q
  <2>4. \A i \in 1 .. rpos[s] : q[i] = stream[s][i]
    BY <1>2, <2>1, <2>3
  <2>5. QED
    BY <2>1, <2>2, <2>3, <2>4
<1>5. QED
  BY <1>1, <1>2, <1>3, <1>4

\* Every step of the sources and of the source thread keeps types and places.
LEMMA TypeStep ==
    ASSUME TypeOK, PlaceInv, [Next]_vars
    PROVE  TypeOK' /\ PlaceInv'
<1>1. /\ stream \in [Sources -> Seq(Byte)] /\ rpos \in [Sources -> Nat]
      /\ \A s \in Sources : rpos[s] <= Len(stream[s])
      /\ pending \in Seq(Sources) /\ served \in Seq(Sources) /\ entries \in Seq(Entry)
      /\ conn \in [Sources -> {"new", "open", "closed", "reset"}]
      /\ sent \in [Sources -> Seq(Sent)]
      /\ header \in Seq(Byte) /\ data \in Seq(Byte)
  BY DEF TypeOK
<1>2. ASSUME NEW s \in Sources, Connect(s) PROVE TypeOK' /\ PlaceInv'
  <2>1. pending' \in Seq(Sources) /\ Len(pending') = Len(pending) + 1
    BY <1>1, <1>2, AppendProperties DEF Connect
  <2>2. Len(pending') <= Backlog
    <3>1. Len(pending) \in Nat /\ Backlog \in Nat
      BY <1>1, SrcAssumption
    <3>2. QED
      BY <1>2, <2>1, <3>1 DEF Connect
  <2>3. QED
    BY <1>2, <2>1, <2>2 DEF Connect, TypeOK, PlaceInv, readVars
<1>3. ASSUME NEW s \in Sources,
             \/ \E m \in Messages : Send(s, m)
             \/ \E how \in {"closed", "reset"}, n \in 0 .. MaxLost : Leave(s, how, n)
      PROVE  TypeOK' /\ PlaceInv'
  <2>1. PICK q \in Seq(Byte) : stream' = [stream EXCEPT ![s] = q] /\ rpos[s] <= Len(q)
    BY <1>3, SourceFacts
  <2>2. UNCHANGED <<extended, pending, readVars, served, src_pc, src_socket, entries>>
    BY <1>3 DEF Send, Leave
  <2>3. sent' \in [Sources -> Seq(Sent)] /\ conn' \in [Sources -> {"new", "open", "closed", "reset"}]
    <3>1. ASSUME NEW m \in Messages, Send(s, m) PROVE sent' \in [Sources -> Seq(Sent)] /\ conn' = conn
      <4> DEFINE x == [msg |-> m, end |-> Len(stream[s]) + HEADER_LENGTH + Len(m.data)]
      <4>1. x \in Sent
        <5>1. Len(stream[s]) \in Nat /\ Len(m.data) \in Nat
          BY <1>1, MessageType
        <5>2. \A a, b \in Nat : a + HEADER_LENGTH + b \in Nat
          BY DEF HEADER_LENGTH
        <5>3. Len(stream[s]) + HEADER_LENGTH + Len(m.data) \in Nat
          BY <5>1, <5>2
        <5>4. QED
          BY <5>3 DEF Sent
      <4>2. sent' = [sent EXCEPT ![s] = Append(sent[s], x)] /\ conn' = conn
        BY <1>1, <3>1 DEF Send
      <4> HIDE DEF x
      <4>3. Append(sent[s], x) \in Seq(Sent)
        BY <1>1, <4>1, AppendProperties
      <4>4. QED
        BY <1>1, <4>2, <4>3
    <3>2. QED
      BY <1>1, <1>3, <3>1 DEF Leave
  <2>4. /\ stream' \in [Sources -> Seq(Byte)] /\ rpos' \in [Sources -> Nat]
        /\ \A t \in Sources : rpos'[t] <= Len(stream'[t])
    BY <1>1, <2>1, <2>2 DEF readVars
  <2>5. QED
    BY <2>2, <2>3, <2>4 DEF TypeOK, PlaceInv, readVars
<1>4. CASE S_Accept
  <2>1. /\ Head(pending) \in Sources /\ Tail(pending) \in Seq(Sources)
        /\ Len(Tail(pending)) = Len(pending) - 1
    BY <1>1, <1>4, HeadTailProperties DEF S_Accept
  <2>2. Len(pending') <= Backlog
    <3>1. Len(pending) \in Nat /\ Backlog \in Nat /\ Len(pending) <= Backlog
      BY <1>1, SrcAssumption DEF TypeOK
    <3>2. QED
      BY <1>4, <2>1, <3>1 DEF S_Accept
  <2>3. served' \in Seq(Sources)
    BY <1>1, <1>4, <2>1, AppendProperties DEF S_Accept
  <2>4. QED
    BY <1>4, <2>1, <2>2, <2>3 DEF S_Accept, TypeOK, PlaceInv, readVars
<1>5. CASE S_Alive
  <2>1. conn' \in [Sources -> {"new", "open", "closed", "reset"}]
    BY <1>1, <1>5 DEF S_Alive, Reported
  <2>2. <<>> \in Seq(Byte) /\ Len(<<>>) <= HEADER_LENGTH
    BY DEF HEADER_LENGTH
  <2>3. header' \in Seq(Byte) /\ data' \in Seq(Byte) /\ Len(header') <= HEADER_LENGTH /\ data' = <<>>
    BY <1>5, <2>2 DEF S_Alive
  <2>4. QED
    BY <1>5, <2>1, <2>3 DEF S_Alive, TypeOK, PlaceInv
<1>6. CASE S_NotAlive
  BY <1>6 DEF S_NotAlive, TypeOK, PlaceInv, readVars, netVars
<1>7. CASE S_Read
  <2> DEFINE s == src_socket
  <2>1. PICK k \in Nat \ {0} :
           /\ s \in Sources /\ rpos[s] \in Nat
           /\ rpos[s] + k <= Len(stream[s])
           /\ rpos' = [rpos EXCEPT ![s] = rpos[s] + k]
           /\ Got(k) \in Seq(Byte) /\ Len(Got(k)) = k
           /\ \/ /\ src_pc = "header" /\ data = <<>> /\ data' = data
                 /\ header' = header \o Got(k)
                 /\ Len(header') = Len(header) + k /\ Len(header') <= HEADER_LENGTH
                 /\ \/ src_pc' \in {"header", "alive"}
                    \/ src_pc' = "data" /\ Len(header') = HEADER_LENGTH
              \/ /\ src_pc = "data" /\ header' = header /\ Len(header) = HEADER_LENGTH
                 /\ data' = data \o Got(k)
                 /\ Len(data') = Len(data) + k /\ Len(data') <= set_msg_length(header)
                 /\ \/ src_pc' \in {"data", "alive"}
                    \/ src_pc' = "insert" /\ Len(data') = set_msg_length(header)
    BY <1>7, ReadFacts
  <2>2. UNCHANGED <<extended, pending, conn, sent, stream, served, src_socket, entries>>
    BY <1>7 DEF S_Read, netVars
  <2>3. header' \in Seq(Byte) /\ data' \in Seq(Byte)
    <3>1. Got(k) \in Seq(Byte) /\ header' \in {header, header \o Got(k)} /\ data' \in {data, data \o Got(k)}
      BY <2>1
    <3>2. header \o Got(k) \in Seq(Byte) /\ data \o Got(k) \in Seq(Byte)
      BY <1>1, <3>1, ConcatProperties
    <3>3. QED
      BY <1>1, <3>1, <3>2
  <2>4. rpos' \in [Sources -> Nat] /\ \A t \in Sources : rpos'[t] <= Len(stream'[t])
    <3>1. rpos[s] + k \in Nat /\ rpos[s] + k <= Len(stream[s]) /\ rpos' = [rpos EXCEPT ![s] = rpos[s] + k]
      BY <2>1
    <3>2. QED
      BY <1>1, <2>2, <3>1
  <2>5. CASE src_pc = "header"
    <3>1. src_pc' = "data" => Len(data') <= set_msg_length(header')
      <4>1. ASSUME src_pc' = "data" PROVE set_msg_length(header') \in Nat /\ Len(data') = 0
        BY <2>1, <2>3, <2>5, <4>1, LengthType
      <4>2. QED
        BY <4>1
    <3>2. QED
      BY <2>1, <2>2, <2>3, <2>4, <2>5, <3>1 DEF TypeOK, PlaceInv
  <2>6. CASE src_pc = "data"
    BY <2>1, <2>2, <2>3, <2>4, <2>6 DEF TypeOK, PlaceInv
  <2>7. QED
    BY <2>1, <2>5, <2>6
<1>8. CASE S_ReadNone
  BY <1>8 DEF S_ReadNone, Refuse, TypeOK, PlaceInv, readVars, netVars
<1>9. CASE S_ReadFails
  <2>1. conn' \in [Sources -> {"new", "open", "closed", "reset"}]
    BY <1>1, <1>9 DEF S_ReadFails, Reported
  <2>2. QED
    BY <1>9, <2>1 DEF S_ReadFails, Refuse, TypeOK, PlaceInv, readVars
<1>10. CASE S_Insert
  <2>1. src_socket \in Sources /\ rpos[src_socket] \in Nat
    BY <1>1, <1>10 DEF S_Insert, PlaceInv
  <2>2. [header |-> header, data |-> data, src |-> src_socket, end |-> rpos[src_socket]] \in Entry
    BY <1>1, <2>1 DEF Entry
  <2>3. entries' \in Seq(Entry)
    BY <1>1, <1>10, <2>2, AppendProperties DEF S_Insert
  <2>4. QED
    BY <1>10, <2>3 DEF S_Insert, TypeOK, PlaceInv, readVars, netVars
<1>11. CASE UNCHANGED vars
  BY <1>11 DEF vars, TypeOK, PlaceInv, readVars, netVars
<1>12. QED
  BY <1>2, <1>3, <1>4, <1>5, <1>6, <1>7, <1>8, <1>9, <1>10, <1>11 DEF Next, SourceThread

\* The source thread reads no byte that did not come, never more of a header than
\* there is room for (read_msg()) nor more data than the header announced, and
\* never inserts before all of it is there.
THEOREM SrcPlaces == Spec => [](TypeOK /\ PlaceInv)
<1>1. Init => TypeOK /\ PlaceInv
  <2>1. /\ <<>> \in Seq(Byte) /\ <<>> \in Seq(Sources) /\ <<>> \in Seq(Sent) /\ <<>> \in Seq(Entry)
        /\ Len(<<>>) = 0 /\ Backlog \in Nat
    BY SrcAssumption
  <2>2. QED
    BY <2>1 DEF Init, TypeOK, PlaceInv, HEADER_LENGTH
<1>2. QED
  BY <1>1, TypeStep, PTL DEF Spec

\* The type invariant of the source server, for all messages and sources: the
\* lengths that read_msg() passes to read() keep within the buffers and streams.
THEOREM SrcTypes == Spec => []TypeOK
BY SrcPlaces, PTL

-----------------------------------------------------------------------------
(* Entries are pieces of streams.                                          *)

\* Where in its stream the message being read began.
Begun == rpos[src_socket] - Len(header) - Len(data)

\* What was read of a message is a piece of the stream that ends where reading
\* goes on, behind everything that is in the queue from there.
ReadingPiece ==
    src_pc \in {"header", "data", "insert"} =>
        /\ Begun \in Nat
        /\ header \o data = SubSeq(stream[src_socket], Begun + 1, rpos[src_socket])
        /\ \A j \in DOMAIN entries : entries[j].src = src_socket => entries[j].end <= Begun

\* The entries have been read.
EntriesRead ==
    \A i \in DOMAIN entries :
        /\ Len(entries[i].header) = HEADER_LENGTH
        /\ HEADER_LENGTH + Len(entries[i].data) <= entries[i].end
        /\ entries[i].end <= rpos[entries[i].src]

\* The reader and the queue are in step with the streams.
PieceInv == ReadingPiece /\ EntriesRead /\ EntryIsPiece

\* read() only moves on, and what was read of a stream never changes.
LEMMA ReadIsKept ==
    ASSUME TypeOK, PlaceInv, [Next]_vars, NEW s \in Sources
    PROVE  /\ rpos[s] \in Nat /\ rpos[s] <= rpos'[s]
           /\ \A i \in 1 .. rpos[s] : stream'[s][i] = stream[s][i]
<1>1. stream \in [Sources -> Seq(Byte)] /\ rpos \in [Sources -> Nat] /\ rpos[s] \in Nat
  BY DEF TypeOK
<1>2. CASE S_Read
  <2>1. PICK k \in Nat \ {0} : rpos' = [rpos EXCEPT ![src_socket] = rpos[src_socket] + k]
    BY <1>2, ReadFacts
  <2>2. stream' = stream
    BY <1>2 DEF S_Read, netVars
  <2>3. QED
    BY <1>1, <2>1, <2>2
<1>3. ASSUME NEW t \in Sources,
             \/ \E m \in Messages : Send(t, m)
             \/ \E how \in {"closed", "reset"}, n \in 0 .. MaxLost : Leave(t, how, n)
      PROVE  /\ rpos[s] \in Nat /\ rpos[s] <= rpos'[s]
             /\ \A i \in 1 .. rpos[s] : stream'[s][i] = stream[s][i]
  <2>1. PICK q \in Seq(Byte) :
          stream' = [stream EXCEPT ![t] = q] /\ \A i \in 1 .. rpos[t] : q[i] = stream[t][i]
    BY <1>3, SourceFacts
  <2>2. rpos' = rpos
    BY <1>3 DEF Send, Leave, readVars
  <2>3. QED
    BY <1>1, <2>1, <2>2
<1>4. CASE UNCHANGED <<rpos, stream>>
  BY <1>1, <1>4
<1>5. QED
  BY <1>2, <1>3, <1>4 DEF Next, SourceThread, Connect, S_Accept, S_Alive, S_NotAlive, S_ReadNone,
     S_ReadFails, S_Insert, netVars, readVars, vars

\* So a piece that was read stays what it is.
LEMMA ReadPieceKept ==
    ASSUME TypeOK, TypeOK', PlaceInv, [Next]_vars, NEW s \in Sources,
           NEW a \in Nat, NEW b \in Nat, a <= b, b <= rpos[s]
    PROVE  SubSeq(stream'[s], a + 1, b) = SubSeq(stream[s], a + 1, b)
<1>1. stream[s] \in Seq(Byte) /\ stream'[s] \in Seq(Byte)
  BY DEF TypeOK
<1>2. /\ rpos[s] \in Nat /\ rpos'[s] \in Nat
      /\ rpos[s] <= Len(stream[s]) /\ rpos'[s] <= Len(stream'[s])
  BY DEF TypeOK
<1>3. rpos[s] <= rpos'[s] /\ \A i \in 1 .. rpos[s] : stream'[s][i] = stream[s][i]
  BY ReadIsKept
<1>4. Len(stream[s]) \in Nat /\ Len(stream'[s]) \in Nat
  BY <1>1
<1>5. b <= Len(stream[s]) /\ b <= Len(stream'[s]) /\ \A i \in 1 .. b : stream'[s][i] = stream[s][i]
  BY <1>2, <1>3, <1>4
<1>6. QED
  BY <1>1, <1>5, PieceKept

\* The parts of an entry.
LEMMA EntryFacts ==
    ASSUME TypeOK, NEW i \in DOMAIN entries
    PROVE  /\ i \in 1 .. Len(entries) /\ entries[i] \in Entry
           /\ entries[i].src \in Sources /\ entries[i].end \in Nat
           /\ Len(entries[i].data) \in Nat
<1>1. entries \in Seq(Entry)
  BY DEF TypeOK
<1>2. i \in 1 .. Len(entries) /\ entries[i] \in Entry
  BY <1>1
<1>3. entries[i].data \in Seq(Byte) /\ entries[i].src \in Sources /\ entries[i].end \in Nat
  BY <1>2 DEF Entry
<1>4. QED
  BY <1>2, <1>3

\* A step that leaves the queue alone leaves its entries pieces.
LEMMA EntriesKept ==
    ASSUME TypeOK, TypeOK', PlaceInv, EntriesRead, EntryIsPiece, [Next]_vars, entries' = entries
    PROVE  EntriesRead' /\ EntryIsPiece'
<1>1. EntriesRead'
  <2> SUFFICES ASSUME NEW i \in DOMAIN entries PROVE entries[i].end <= rpos'[entries[i].src]
    BY DEF EntriesRead
  <2>1. entries[i].src \in Sources /\ entries[i].end \in Nat
    BY EntryFacts
  <2>2. rpos[entries[i].src] \in Nat /\ rpos'[entries[i].src] \in Nat
    BY <2>1 DEF TypeOK
  <2>3. QED
    BY <2>1, <2>2, ReadIsKept DEF EntriesRead
<1>2. ASSUME NEW i \in DOMAIN entries
      PROVE  LET e == entries[i]
                 n == HEADER_LENGTH + Len(e.data)
             IN  SubSeq(stream'[e.src], e.end - n + 1, e.end) = SubSeq(stream[e.src], e.end - n + 1, e.end)
  <2> DEFINE e == entries[i]
             n == HEADER_LENGTH + Len(e.data)
  <2>1. e.src \in Sources /\ e.end \in Nat /\ Len(e.data) \in Nat
    BY EntryFacts
  <2>2. n <= e.end /\ e.end <= rpos[e.src]
    BY DEF EntriesRead
  <2>3. e.end - n \in Nat /\ e.end - n <= e.end
    BY <2>1, <2>2 DEF HEADER_LENGTH
  <2>4. QED
    BY <2>1, <2>2, <2>3, ReadPieceKept
<1>3. EntryIsPiece'
  BY <1>2 DEF EntryIsPiece
<1>4. QED
  BY <1>1, <1>3

\* The bytes of a read follow those of the last in the stream and in the buffer,
\* and a message begins where the last one ended (read_msg(), parse_ctmp_msg()).
LEMMA ReadingStep ==
    ASSUME TypeOK, TypeOK', PlaceInv, PieceInv, [Next]_vars
    PROVE  ReadingPiece'
<1> DEFINE s == src_socket
<1>1. /\ header \in Seq(Byte) /\ data \in Seq(Byte) /\ stream \in [Sources -> Seq(Byte)]
      /\ rpos \in [Sources -> Nat] /\ \A t \in Sources : rpos[t] <= Len(stream[t])
  BY DEF TypeOK
<1>2. Len(header) \in Nat /\ Len(data) \in Nat
  BY <1>1
<1>3. CASE S_Alive
  <2>1. s \in Sources /\ src_socket' = s /\ rpos' = rpos /\ stream' = stream /\ entries' = entries
    BY <1>3 DEF S_Alive, PlaceInv
  <2>2. header' = <<>> /\ data' = <<>>
    BY <1>3 DEF S_Alive
  <2>3. Begun' = rpos[s] /\ rpos[s] \in Nat
    BY <1>1, <2>1, <2>2 DEF Begun
  <2>4. header' \o data' = SubSeq(stream[s], rpos[s] + 1, rpos[s])
    <3>1. SubSeq(stream[s], rpos[s] + 1, rpos[s]) = <<>>
      BY <2>3, SubSeqEmpty
    <3>2. <<>> \in Seq(Byte)
      OBVIOUS
    <3>3. <<>> \o <<>> = <<>>
      BY <3>2, ConcatEmptySeq
    <3>4. QED
      BY <2>2, <3>1, <3>3
  <2>5. \A j \in DOMAIN entries : entries[j].src = s => entries[j].end <= rpos[s]
    BY DEF PieceInv, EntriesRead
  <2>6. QED
    BY <2>1, <2>3, <2>4, <2>5 DEF ReadingPiece
<1>4. CASE S_Read
  <2> SUFFICES ASSUME src_pc' # "alive" PROVE ReadingPiece'
    BY DEF ReadingPiece
  <2>1. /\ src_socket' = s /\ stream' = stream /\ entries' = entries /\ src_pc \in {"header", "data"}
    BY <1>4 DEF S_Read, netVars
  <2>2. PICK k \in Nat \ {0} :
           /\ s \in Sources /\ rpos[s] \in Nat
           /\ rpos[s] + k <= Len(stream[s])
           /\ rpos' = [rpos EXCEPT ![s] = rpos[s] + k]
           /\ Got(k) \in Seq(Byte) /\ Len(Got(k)) = k
           /\ \/ data = <<>> /\ data' = data /\ header' = header \o Got(k)
              \/ header' = header /\ data' = data \o Got(k)
    BY <1>4, ReadFacts
  <2>3. /\ Begun \in Nat /\ header \o data = SubSeq(stream[s], Begun + 1, rpos[s])
        /\ \A j \in DOMAIN entries : entries[j].src = s => entries[j].end <= Begun
    BY <2>1 DEF PieceInv, ReadingPiece
  <2>4. rpos'[s] = rpos[s] + k
    BY <1>1, <2>2
  <2>5. Begun <= rpos[s] /\ rpos[s] + k \in Nat /\ rpos[s] <= rpos[s] + k
    BY <1>2, <2>2 DEF Begun
  <2>6. header' \o data' = (header \o data) \o Got(k)
    <3>1. CASE data = <<>> /\ data' = data /\ header' = header \o Got(k)
      <4>1. header \o Got(k) \in Seq(Byte)
        BY <1>1, <2>2, ConcatProperties
      <4>2. (header \o Got(k)) \o <<>> = header \o Got(k) /\ header \o <<>> = header
        BY <1>1, <4>1, ConcatEmptySeq
      <4>3. QED
        BY <3>1, <4>2
    <3>2. CASE header' = header /\ data' = data \o Got(k)
      <4>1. Got(k) \in Seq(Byte)
        BY <2>2
      <4>2. (header \o data) \o Got(k) = header \o (data \o Got(k))
        BY <1>1, <4>1, ConcatAssociative, SMTT(30)
      <4>3. QED
        BY <3>2, <4>2
    <3>3. QED
      BY <2>2, <3>1, <3>2
  <2>7. header' \o data' = SubSeq(stream[s], Begun + 1, rpos[s] + k)
    <3>1. Got(k) = SubSeq(stream[s], rpos[s] + 1, rpos[s] + k)
      BY DEF Got
    <3>2. /\ stream[s] \in Seq(Byte) /\ Begun \in Nat /\ rpos[s] \in Nat /\ rpos[s] + k \in Nat
          /\ Begun <= rpos[s] /\ rpos[s] <= rpos[s] + k /\ rpos[s] + k <= Len(stream[s])
      BY <1>1, <2>2, <2>3, <2>5
    <3>3. SubSeq(stream[s], Begun + 1, rpos[s]) \o SubSeq(stream[s], rpos[s] + 1, rpos[s] + k)
            = SubSeq(stream[s], Begun + 1, rpos[s] + k)
      BY <3>2, PieceGrows, ZenonT(30)
    <3>4. QED
      BY <2>3, <2>6, <3>1, <3>3
  <2>8. Begun' = Begun
    <3>1. \/ Len(header') = Len(header) + k /\ Len(data') = Len(data)
          \/ Len(header') = Len(header) /\ Len(data') = Len(data) + k
      BY <1>1, <2>2, ConcatProperties
    <3>2. QED
      BY <1>2, <2>1, <2>2, <2>4, <3>1, SMTT(30) DEF Begun
  <2>9. QED
    BY <2>1, <2>3, <2>4, <2>7, <2>8 DEF ReadingPiece
<1>5. CASE src_pc' \in {"accept", "alive"}
  BY <1>5 DEF ReadingPiece
<1>6. CASE UNCHANGED <<header, data, rpos, src_pc, src_socket, entries>>
  <2> SUFFICES ASSUME src_pc \in {"header", "data", "insert"} PROVE ReadingPiece'
    BY <1>6 DEF ReadingPiece
  <2>1. s \in Sources /\ rpos[s] \in Nat
    BY <1>1 DEF PlaceInv
  <2>2. Begun \in Nat /\ Begun <= rpos[s]
    BY <1>2, <2>1 DEF PieceInv, ReadingPiece, Begun
  <2>3. SubSeq(stream'[s], Begun + 1, rpos[s]) = SubSeq(stream[s], Begun + 1, rpos[s])
    BY <2>1, <2>2, ReadPieceKept
  <2>4. Begun' = Begun
    BY <1>6 DEF Begun
  <2>5. QED
    BY <1>6, <2>3, <2>4 DEF PieceInv, ReadingPiece
<1>7. QED
  BY <1>3, <1>4, <1>5, <1>6 DEF Next, SourceThread, Connect, Send, Leave, S_Accept, S_NotAlive,
     S_ReadNone, S_ReadFails, S_Insert, Refuse, readVars, vars

\* init_msg_entry() takes over what was read of the message, and all of it.
LEMMA InsertStep ==
    ASSUME TypeOK, TypeOK', PlaceInv, PieceInv, S_Insert
    PROVE  EntriesRead' /\ EntryIsPiece'
<1> DEFINE s == src_socket
           l == Len(entries)
           new == [header |-> header, data |-> data, src |-> s, end |-> rpos[s]]
<1>1. /\ s \in Sources /\ Len(data) = set_msg_length(header) /\ stream' = stream /\ rpos' = rpos
      /\ entries' = Append(entries, new)
  BY DEF S_Insert, PlaceInv, netVars, readVars
<1>2. /\ header \in Seq(Byte) /\ data \in Seq(Byte) /\ rpos[s] \in Nat /\ Len(header) = HEADER_LENGTH
  BY <1>1 DEF TypeOK, S_Insert
<1>3. Len(header) \in Nat /\ Len(data) \in Nat
  BY <1>2
<1>4. /\ Begun \in Nat /\ header \o data = SubSeq(stream[s], Begun + 1, rpos[s])
      /\ \A j \in DOMAIN entries : entries[j].src = s => entries[j].end <= Begun
  BY DEF S_Insert, PieceInv, ReadingPiece
<1>5. /\ new \in Entry /\ new.header = header /\ new.data = data
      /\ new.src = s /\ new.end = rpos[s]
  BY <1>1, <1>2 DEF Entry
<1> HIDE DEF new
<1>6. /\ entries \in Seq(Entry) /\ l \in Nat
  <2>1. entries \in Seq(Entry)
    BY DEF TypeOK
  <2>2. QED
    BY <2>1
<1>7. /\ DOMAIN entries' = 1 .. l + 1 /\ DOMAIN entries = 1 .. l
      /\ entries'[l + 1] = new
      /\ \A i \in 1 .. l : entries'[i] = entries[i]
  <2>1. entries' \in Seq(Entry) /\ Len(entries') = l + 1
    BY <1>1, <1>5, <1>6, AppendProperties
  <2>2. QED
    BY <1>1, <1>5, <1>6, <2>1, AppendProperties
<1>8. rpos[s] - (HEADER_LENGTH + Len(data)) = Begun /\ HEADER_LENGTH + Len(data) <= rpos[s]
  BY <1>2, <1>3, <1>4 DEF Begun, HEADER_LENGTH
<1>9. EntriesRead'
  <2> SUFFICES ASSUME NEW i \in 1 .. l + 1
               PROVE  /\ Len(entries'[i].header) = HEADER_LENGTH
                      /\ HEADER_LENGTH + Len(entries'[i].data) <= entries'[i].end
                      /\ entries'[i].end <= rpos[entries'[i].src]
    BY <1>1, <1>7 DEF EntriesRead
  <2>1. CASE i \in 1 .. l
    BY <1>7, <2>1 DEF PieceInv, EntriesRead
  <2>2. CASE i = l + 1
    BY <1>2, <1>5, <1>7, <1>8, <2>2
  <2>3. QED
    BY <1>6, <2>1, <2>2
<1>10. EntryIsPiece'
  <2> SUFFICES ASSUME NEW i \in 1 .. l + 1
               PROVE  LET e == entries'[i]
                          n == HEADER_LENGTH + Len(e.data)
                      IN  /\ e.header \o e.data = SubSeq(stream[e.src], e.end - n + 1, e.end)
                          /\ Len(e.data) = set_msg_length(e.header)
                          /\ \A j \in 1 .. i - 1 :
                               entries'[j].src = e.src => entries'[j].end <= e.end - n
    BY <1>1, <1>7 DEF EntryIsPiece
  <2>1. CASE i \in 1 .. l
    <3>1. entries'[i] = entries[i] /\ \A j \in 1 .. i - 1 : entries'[j] = entries[j]
      BY <1>6, <1>7, <2>1
    <3>2. QED
      BY <1>7, <2>1, <3>1 DEF PieceInv, EntryIsPiece
  <2>2. CASE i = l + 1
    <3>1. entries'[i] = new /\ \A j \in 1 .. i - 1 : j \in DOMAIN entries /\ entries'[j] = entries[j]
      BY <1>6, <1>7, <2>2
    <3>2. QED
      BY <1>1, <1>4, <1>5, <1>8, <3>1
  <2>3. i \in 1 .. l \/ i = l + 1
    BY <1>6
  <2>4. QED
    BY <2>1, <2>2, <2>3
<1>11. QED
  BY <1>9, <1>10

\* The pieces are in step with the streams in every reachable state.
THEOREM PiecesHold == Spec => []PieceInv
<1>1. Init => PieceInv
  <2> SUFFICES ASSUME Init PROVE PieceInv
    OBVIOUS
  <2>1. entries = <<>> /\ src_pc = "accept" /\ DOMAIN entries = {}
    BY DEF Init
  <2>2. QED
    BY <2>1 DEF PieceInv, ReadingPiece, EntriesRead, EntryIsPiece
<1>2. TypeOK /\ TypeOK' /\ PlaceInv /\ PieceInv /\ [Next]_vars => PieceInv'
  <2> SUFFICES ASSUME TypeOK, TypeOK', PlaceInv, PieceInv, [Next]_vars
               PROVE  PieceInv'
    OBVIOUS
  <2>1. S_Insert \/ entries' = entries
    BY DEF Next, SourceThread, Connect, Send, Leave, S_Accept, S_Alive, S_NotAlive, S_Read,
       S_ReadNone, S_ReadFails, vars
  <2>2. EntriesRead' /\ EntryIsPiece'
    BY <2>1, InsertStep, EntriesKept DEF PieceInv
  <2>3. QED
    BY <2>2, ReadingStep DEF PieceInv
<1>3. QED
  BY <1>1, <1>2, SrcPlaces, PTL DEF Spec

\* Whatever the sources send, and however it is cut by read() and by sources that
\* break off, each entry is one unbroken piece of one source's stream, as long as
\* its header says, and no byte is in two entries (read_msg(), run_src_server()).
THEOREM EntriesArePieces == Spec => []EntryIsPiece
<1>1. PieceInv => EntryIsPiece
  BY DEF PieceInv
<1>2. QED
  BY <1>1, PiecesHold, PTL
=============================================================================
