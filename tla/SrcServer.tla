----------------------------- MODULE SrcServer -----------------------------
(***************************************************************************)
(* The source server (ws_server.c, run_src_server()) and the readers of    *)
(* lib/ctmp.c: sources connect, one is served at a time, and its byte      *)
(* stream is cut into messages.  In WireStorm.tla a valid message simply   *)
(* arrives; here is how it does.                                           *)
(*                                                                         *)
(* A connection's stream keeps all the bytes that were sent, with a read   *)
(* position.  read() returns any part of what is left of it, so bytes that *)
(* have not arrived yet need no state of their own.                        *)
(***************************************************************************)
EXTENDS Ctmp, SequencesExt

CONSTANTS
    Sources,     \* the connections to the source port
    NoSrc,       \* no connection
    Messages,    \* the messages a source may send
    MaxSent,     \* bound: messages sent by all sources together
    MaxLost,     \* bound: bytes of a message that a leaving source keeps back
    Backlog      \* bound: connections that wait for accept(), init_args.backlog

ASSUME SrcAssumption ==
    /\ NoSrc \notin Sources
    /\ Messages \subseteq ctmp_msg
    /\ \A m \in Messages : Len(m.data) = set_msg_length(m.header)
    /\ MaxSent \in Nat
    /\ MaxLost \in Nat
    /\ Backlog \in Nat \ {0}

VARIABLES
    extended,    \* init_args.extended
    pending,     \* established connections that are not yet accepted
    conn,        \* "new", "open", or how the source's end was lost
    sent,        \* the messages each source has sent, with where they end, ...
    stream,      \* ... and the bytes of them that came, or will
    rpos,        \* bytes of the stream that were read
    served,      \* the sources accepted so far, in that order
    src_pc, src_socket,
    header, data,      \* the buffers of the message being read, as filled
    entries      \* the queue: each message, and where its last byte was read

netVars == <<pending, conn, sent, stream>>
readVars == <<rpos, header, data>>
vars == <<extended, netVars, readVars, served, src_pc, src_socket, entries>>

\* struct msg_entry, without the fields of WireStorm.tla; `src` and `end` say
\* which connection its last byte was read from, and where.
Entry == [header : Seq(Byte), data : Seq(Byte), src : Sources, end : Nat]

\* A message that was sent, and where in its source's stream it ends.
Sent == [msg : Messages, end : Nat]

Total == FoldFunction(+, 0, [s \in Sources |-> Len(sent[s])])

TypeOK ==
    /\ extended \in BOOLEAN
    /\ pending \in Seq(Sources) /\ Len(pending) <= Backlog
    /\ conn \in [Sources -> {"new", "open", "closed", "reset"}]
    /\ sent \in [Sources -> Seq(Sent)]
    /\ stream \in [Sources -> Seq(Byte)]
    /\ rpos \in [Sources -> Nat] /\ \A s \in Sources : rpos[s] <= Len(stream[s])
    /\ served \in Seq(Sources)
    /\ src_pc \in {"accept", "alive", "header", "data", "insert"}
    /\ src_socket \in Sources \cup {NoSrc}
    /\ header \in Seq(Byte) /\ Len(header) <= HEADER_LENGTH
    /\ data \in Seq(Byte)
    /\ entries \in Seq(Entry)
    /\ src_pc \in {"data", "insert"} =>
        Len(header) = HEADER_LENGTH /\ Len(data) <= set_msg_length(header)

Init ==
    /\ extended \in BOOLEAN
    /\ pending = <<>>
    /\ conn = [s \in Sources |-> "new"]
    /\ sent = [s \in Sources |-> <<>>]
    /\ stream = [s \in Sources |-> <<>>]
    /\ rpos = [s \in Sources |-> 0]
    /\ served = <<>>
    /\ src_pc = "accept" /\ src_socket = NoSrc
    /\ header = <<>> /\ data = <<>>
    /\ entries = <<>>

-----------------------------------------------------------------------------
(* The sources.                                                            *)

Connect(s) ==
    /\ conn[s] = "new" /\ Len(pending) < Backlog
    /\ conn' = [conn EXCEPT ![s] = "open"]
    /\ pending' = Append(pending, s)
    /\ UNCHANGED <<extended, sent, stream, readVars, served, src_pc, src_socket, entries>>

Send(s, m) ==
    /\ conn[s] = "open" /\ Total < MaxSent
    /\ sent' = [sent EXCEPT ![s] = Append(@, [msg |-> m,
           end |-> Len(stream[s]) + HEADER_LENGTH + Len(m.data)])]
    /\ stream' = [stream EXCEPT ![s] = @ \o (m.header \o m.data)]
    /\ UNCHANGED <<extended, pending, conn, readVars, served, src_pc, src_socket, entries>>

\* The source closes its end or is cut off; the last n bytes never come.
Leave(s, how, n) ==
    /\ conn[s] = "open"
    /\ n <= Len(stream[s]) - rpos[s]
    /\ conn' = [conn EXCEPT ![s] = how]
    /\ stream' = [stream EXCEPT ![s] = SubSeq(@, 1, Len(@) - n)]
    /\ UNCHANGED <<extended, pending, sent, readVars, served, src_pc, src_socket, entries>>

-----------------------------------------------------------------------------
(* The kernel's end of the connection being read.                          *)

Left == Len(stream[src_socket]) - rpos[src_socket]

\* Everything was read and the peer closed: recv() and read() return 0.
AtEnd == Left = 0 /\ conn[src_socket] = "closed"

\* Everything was read and a reset is still to be reported: recv() or read(),
\* whichever comes first, returns -1, and 0 from then on.
Broken == Left = 0 /\ conn[src_socket] = "reset"
Reported == conn' = [conn EXCEPT ![src_socket] = "closed"]

-----------------------------------------------------------------------------
(* run_src_server()                                                        *)

S_Accept ==
    /\ src_pc = "accept" /\ pending # <<>>
    /\ src_socket' = Head(pending)
    /\ pending' = Tail(pending)
    /\ served' = Append(served, Head(pending))
    /\ src_pc' = "alive"
    /\ UNCHANGED <<extended, conn, sent, stream, readVars, entries>>

\* is_alive() says yes: there is input, there is none yet, or recv() failed.
\* The parser starts with an empty message.
S_Alive ==
    /\ src_pc = "alive" /\ ~ AtEnd
    /\ IF Broken THEN Reported ELSE UNCHANGED conn
    /\ header' = <<>> /\ data' = <<>>
    /\ src_pc' = "header"
    /\ UNCHANGED <<extended, pending, sent, stream, rpos, served, src_socket, entries>>

\* is_alive() says no: close(src_socket) and accept the next source.
S_NotAlive ==
    /\ src_pc = "alive" /\ AtEnd
    /\ src_pc' = "accept" /\ src_socket' = NoSrc
    /\ UNCHANGED <<extended, netVars, readVars, served, entries>>

\* read_msg() that asks for the full length at every read.
Wanted_Full == IF src_pc = "header" THEN HEADER_LENGTH ELSE set_msg_length(header)

\* What read_msg() still wants, be it the header or the data.
Wanted ==
    IF src_pc = "header" THEN HEADER_LENGTH - Len(header)
    ELSE set_msg_length(header) - Len(data)

\* Refuse the message (NULL): back to is_alive().
Refuse == src_pc' = "alive"

\* parse_ctmp_msg_extended() that tests the options before it reads the data.
AfterHeader_OptionsFirst ==
    src_pc' = IF valid_magic(header') /\ (extended => header'[2] \in {OPT_NORM, OPT_SEN})
              THEN "data" ELSE "alive"

\* The header is complete: test the magic byte.
AfterHeader == src_pc' = IF valid_magic(header') THEN "data" ELSE "alive"

\* The data is complete: in extended mode test the options and the checksum.
AfterData ==
    src_pc' = IF extended => valid_options([header |-> header, data |-> data'])
              THEN "insert" ELSE "alive"

\* read() returns k bytes, stored behind those of the last read; the loop of
\* read_msg() goes on until it has them all.  (EINTR repeats the read.)
S_Read ==
    /\ src_pc \in {"header", "data"}
    /\ \E k \in 1 .. Left :
        LET from == rpos[src_socket]
            got == SubSeq(stream[src_socket], from + 1, from + k)
        IN  /\ k <= Wanted
            /\ rpos' = [rpos EXCEPT ![src_socket] = from + k]
            /\ \/ /\ src_pc = "header"
                  /\ header' = header \o got /\ UNCHANGED data
                  /\ IF k = Wanted THEN AfterHeader ELSE UNCHANGED src_pc
               \/ /\ src_pc = "data"
                  /\ data' = data \o got /\ UNCHANGED header
                  /\ IF k = Wanted THEN AfterData ELSE UNCHANGED src_pc
    /\ UNCHANGED <<extended, netVars, served, src_socket, entries>>

\* A loop of read_msg() that goes on when read() returns 0.
S_ReadNone_Retry ==
    /\ src_pc \in {"header", "data"}
    /\ AtEnd \/ Wanted = 0
    /\ UNCHANGED vars

\* read_msg() that is content with part of the data.
S_ReadNone_TakesPart ==
    /\ src_pc \in {"header", "data"}
    /\ AtEnd \/ Wanted = 0
    /\ src_pc' = IF src_pc = "data" /\ data # <<>> THEN "insert" ELSE "alive"
    /\ UNCHANGED <<extended, netVars, readVars, served, src_socket, entries>>

\* read() returns 0, at the end of the stream or because 0 bytes were asked
\* for: the loop ends, and the message is refused in either case.
S_ReadNone ==
    /\ src_pc \in {"header", "data"}
    /\ AtEnd \/ Wanted = 0
    /\ Refuse
    /\ UNCHANGED <<extended, netVars, readVars, served, src_socket, entries>>

\* read() fails.
S_ReadFails ==
    /\ src_pc \in {"header", "data"} /\ Wanted > 0 /\ Broken
    /\ Reported
    /\ Refuse
    /\ UNCHANGED <<extended, pending, sent, stream, readVars, served, src_socket, entries>>

\* init_msg_entry(), TAILQ_INSERT_TAIL
S_Insert ==
    /\ src_pc = "insert"
    /\ entries' = Append(entries, [header |-> header, data |-> data,
                                   src |-> src_socket, end |-> rpos[src_socket]])
    /\ src_pc' = "alive"
    /\ UNCHANGED <<extended, netVars, readVars, served, src_socket>>

SourceThread ==
    \/ S_Accept \/ S_Alive \/ S_NotAlive
    \/ S_Read \/ S_ReadNone \/ S_ReadFails \/ S_Insert

Next ==
    \/ SourceThread
    \/ \E s \in Sources :
        \/ Connect(s)
        \/ \E m \in Messages : Send(s, m)
        \/ \E how \in {"closed", "reset"}, n \in 0 .. MaxLost : Leave(s, how, n)

Spec == Init /\ [][Next]_vars

\* The source thread is scheduled.  Nothing is assumed of the sources.
FairSpec == Spec /\ WF_vars(SourceThread)

-----------------------------------------------------------------------------
(* Properties                                                              *)

\* What the protocol has the server forward.  Messages without data are the
\* exception: read_msg() does not tell them from the end of the stream.
ToForward(m) ==
    m.data # <<>> /\ IF extended THEN ProtocolValid(m) ELSE m.header[1] = MAGIC

\* Entry e is message x of its source.
IsMessage(e, x) ==
    e.end = x.end /\ e.header = x.msg.header /\ e.data = x.msg.data

\* The queue holds the messages to forward among those read, each of them once,
\* in the order they were sent, source after source.
QueueIsWhatWasSent ==
    /\ \A i \in DOMAIN entries : \E k \in DOMAIN sent[entries[i].src] :
        LET x == sent[entries[i].src][k]
        IN  IsMessage(entries[i], x) /\ ToForward(x.msg)
    /\ \A s \in Sources : \A k \in DOMAIN sent[s] :
        ToForward(sent[s][k].msg) /\ sent[s][k].end <= rpos[s] =>
            \E i \in DOMAIN entries : entries[i].src = s /\ IsMessage(entries[i], sent[s][k])
    /\ \A i, j \in DOMAIN entries : i < j =>
        \/ entries[i].src = entries[j].src /\ entries[i].end < entries[j].end
        \/ \E p, q \in DOMAIN served :
            p < q /\ served[p] = entries[i].src /\ served[q] = entries[j].src

\* Short reads, refused options and checksums, messages without data, sources
\* that break off inside a message and the change to the next source never put
\* the parsers out of step with the stream, and their checksum, computed in the
\* byte order of the host, is the one the protocol defines.  (A refused magic
\* byte does put them out of step: ForwardsValidMessages.)
FramesWhatWasSent ==
    /\ src_pc # "insert"
    /\ \A s \in Sources : \A i \in DOMAIN sent[s] : valid_magic(sent[s][i].msg.header)
    => QueueIsWhatWasSent

\* Whatever the sources send, each entry of the queue is one unbroken piece of
\* one source's stream, as long as its header says, and pieces do not overlap.
EntryIsPiece ==
    \A i \in DOMAIN entries :
        LET e == entries[i]
            n == HEADER_LENGTH + Len(e.data)
        IN  /\ e.header \o e.data = SubSeq(stream[e.src], e.end - n + 1, e.end)
            /\ Len(e.data) = set_msg_length(e.header)
            /\ \A j \in 1 .. i - 1 :
                entries[j].src = e.src => entries[j].end <= e.end - n

\* If every source leaves at some time, in whatever way and be it in the middle
\* of a message, then every source that waits is accepted: neither the loop of
\* read_msg() nor is_alive(), which takes an error for life, gets stuck.
NextSourceServed ==
    (\A s \in Sources : []<>(conn[s] # "open")) =>
        \A s \in Sources : Contains(pending, s) ~> Contains(served, s)

\* The server "Forwards valid CTMP messages sent by the source client".
ForwardsValidMessages == src_pc # "insert" => QueueIsWhatWasSent
=============================================================================
