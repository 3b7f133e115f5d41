------------------------- MODULE WireStormDelivery -------------------------
(***************************************************************************)
(* Two things that timestamps keep apart.  The cleanup thread frees        *)
(* nothing that is not past its TTL, so whatever freed data a worker may   *)
(* touch is expired; and no client is sent a message older than its own    *)
(* connection.                                                             *)
(***************************************************************************)
EXTENDS WireStormProofs

-----------------------------------------------------------------------------
(* What is freed (run_cleanup_worker(), free_msg_data()).                  *)

\* Only these steps write to the queue.
LEMMA QueueWriters ==
    [Next]_vars => \/ UNCHANGED msg_queue
                   \/ S_Insert \/ C_FreeSent \/ C_FreeMsg
                   \/ \E w \in Worker : W_MarkSent(w) \/ W_ResetSent(w)
<1> SUFFICES ASSUME [Next]_vars, ~ UNCHANGED msg_queue
             PROVE  \/ S_Insert \/ C_FreeSent \/ C_FreeMsg
                    \/ \E w \in Worker : W_MarkSent(w) \/ W_ResetSent(w)
  OBVIOUS
<1>1. ~ Environment /\ ~ DstServerThread /\ Next
  BY DEF Environment, Tick, S_InitEntry, DstAccept, PeerGone, SpuriousMsgWakeup, SpuriousFdWakeup,
     otherVars, queueVars, DstServerThread, DstStep, vars
<1>2. CASE SourceThread
  BY <1>2 DEF SourceThread
<1>3. CASE CleanupThread
  BY <1>3 DEF CleanupThread, C_Get, C_AwaitMsg, C_Check, C_Next, queueVars
<1>4. ASSUME NEW w \in Worker, WorkerThread(w) PROVE W_MarkSent(w) \/ W_ResetSent(w)
  BY <1>4 DEF WorkerThread, W_Get, W_AwaitMsg, W_Alive, W_NotAlive, W_CanForward, W_SendHeader,
     W_SendData, W_SendFails, W_Next, W_SendFailedClose, W_BecomeReady, W_SeesSent, W_SeesNoSent,
     W_Dies, Crash, queueVars
<1>5. QED
  BY <1>1, <1>2, <1>3, <1>4 DEF Next

\* No step removes an entry, moves it or changes its timestamp.
EntriesStay ==
    /\ Len(msg_queue') >= Len(msg_queue)
    /\ \A m \in 1 .. Len(msg_queue) : msg_queue'[m].timestamp = msg_queue[m].timestamp

\* TAILQ_INSERT_TAIL is the only change to the list, set_sent() and free_msg_data()
\* write other fields.
LEMMA EntriesStayStep ==
    ASSUME TypeOK, CursorInv, [Next]_vars
    PROVE  EntriesStay
<1>1. msg_queue \in Seq(MsgEntry) /\ Len(msg_queue) \in Nat
  BY DEF TypeOK
<1>2. CASE UNCHANGED msg_queue
  BY <1>1, <1>2 DEF EntriesStay
<1>3. CASE S_Insert
  <2> DEFINE e == [timestamp |-> src_ts, sent |-> {}, has_sent |-> TRUE, has_msg |-> TRUE]
  <2>1. e \in MsgEntry /\ msg_queue' = Append(msg_queue, e)
    BY <1>3 DEF S_Insert, CursorInv, MsgEntry
  <2> HIDE DEF e
  <2>2. QED
    BY <1>1, <2>1, AppendProperties DEF EntriesStay
<1>4. CASE C_FreeSent \/ C_FreeMsg
  BY <1>1, <1>4, FreeFacts DEF EntriesStay
<1>5. ASSUME NEW w \in Worker, W_MarkSent(w) \/ W_ResetSent(w) PROVE EntriesStay
  <2>1. current[w] \in 1 .. Len(msg_queue)
    <3>1. step[w] # "get"
      BY <1>5 DEF W_MarkSent, W_ResetSent, At
    <3>2. QED
      BY <1>1, <3>1 DEF CursorInv, NULL
  <2>2. Kept(msg_queue, msg_queue')
    BY <1>5, <2>1, SetSentFacts DEF W_MarkSent, W_ResetSent
  <2>3. QED
    BY <1>1, <2>2 DEF EntriesStay, Kept
<1>6. QED
  BY <1>2, <1>3, <1>4, <1>5, QueueWriters

\* The clock never goes back.
LEMMA ClockForward == ClockOK /\ [Next]_vars => clock' >= clock
BY ClockMover, ServerAssumption DEF ClockOK, Clock, Tick, vars

-----------------------------------------------------------------------------
(* Expiry in terms of the clock.                                           *)

\* Timestamps are timespecs, so that compare_times() orders them.
LEMMA StampFacts ==
    /\ Stamp \subseteq timespec
    /\ \A ts \in Stamp : ts \in timespec /\ Units(ts) \in Nat
<1>1. \A t \in Clock : t \in Nat
  BY ServerAssumption DEF Clock
<1>2. QED
  BY <1>1, ClockReading, UnitsType DEF Stamp

\* The test of run_cleanup_worker(): the TTL of what was stamped ts has passed
\* when the clock reads t.
ExpiredAt(ts, t) == compare_times(plus_seconds(ts, TTL), get_clock_time(t))

\* It is the comparison of two clock readings.
LEMMA ExpiredMeans ==
    ASSUME NEW ts \in Stamp, NEW t \in Clock
    PROVE  ExpiredAt(ts, t) <=> Units(ts) + TTL * NsecPerSec < t
<1>1. t \in Nat /\ TTL \in Nat
  BY ServerAssumption DEF Clock
<1>2. /\ get_clock_time(t) \in timespec
      /\ Units(get_clock_time(t)) = t
  BY <1>1, ClockReading
<1>3. /\ plus_seconds(ts, TTL) \in timespec
      /\ Units(plus_seconds(ts, TTL)) = Units(ts) + TTL * NsecPerSec
  BY <1>1, StampFacts, PlusSeconds
<1>4. QED
  BY <1>2, <1>3, ComparisonIsClockOrder DEF ExpiredAt

\* What is expired stays expired.
LEMMA ExpiredLater ==
    ASSUME NEW ts \in Stamp, NEW t \in Clock, NEW u \in Clock, t <= u, ExpiredAt(ts, t)
    PROVE  ExpiredAt(ts, u)
<1>1. t \in Nat /\ u \in Nat /\ TTL \in Nat /\ Units(ts) \in Nat /\ NsecPerSec \in Nat
  BY ServerAssumption, NsecAssumption, StampFacts DEF Clock
<1>2. TTL * NsecPerSec \in Nat
  BY <1>1
<1>3. Units(ts) + TTL * NsecPerSec < t
  BY ExpiredMeans
<1>4. Units(ts) + TTL * NsecPerSec < u
  BY <1>1, <1>2, <1>3
<1>5. QED
  BY <1>4, ExpiredMeans

\* An entry that run_cleanup_worker() finds expired is so for good: time goes on.
LEMMA ExpiredStays ==
    ASSUME TypeOK, TypeOK', CursorInv, [Next]_vars, NEW m \in 1 .. Len(msg_queue), Expired(m)
    PROVE  m \in 1 .. Len(msg_queue') /\ Expired(m)'
<1>1. m \in 1 .. Len(msg_queue') /\ msg_queue'[m].timestamp = msg_queue[m].timestamp
  <2>1. EntriesStay
    BY EntriesStayStep
  <2>2. Len(msg_queue) \in Nat /\ Len(msg_queue') \in Nat
    BY DEF TypeOK
  <2>3. QED
    BY <2>1, <2>2 DEF EntriesStay
<1>2. clock \in Clock /\ clock' \in Clock /\ clock <= clock'
  BY ClockForward, ServerAssumption DEF ClockOK, TypeOK, Clock
<1>3. msg_queue[m].timestamp \in Stamp
  <2>1. msg_queue[m] \in MsgEntry
    BY DEF TypeOK
  <2>2. QED
    BY <2>1 DEF MsgEntry
<1>4. ExpiredAt(msg_queue[m].timestamp, clock)
  BY DEF Expired, ExpiredAt, Now
<1>5. ExpiredAt(msg_queue[m].timestamp, clock')
  BY <1>2, <1>3, <1>4, ExpiredLater
<1>6. QED
  BY <1>1, <1>5 DEF Expired, ExpiredAt, Now

-----------------------------------------------------------------------------
(* Nothing is freed before it expires.                                     *)

\* What is freed, what is about to be freed, and what a worker touched when it
\* was freed, is expired.
FreedInv ==
    /\ \A m \in 1 .. Len(msg_queue) :
         ~ (msg_queue[m].has_sent /\ msg_queue[m].has_msg) => Expired(m)
    /\ cl_pc \in {"free_sent", "free_msg"} => Expired(cl_current)
    /\ bad_access # NULL => bad_access \in 1 .. Len(msg_queue) /\ Expired(bad_access)

\* The pointers of the entries after a step.
LEMMA PointersStep ==
    ASSUME TypeOK, CursorInv, [Next]_vars, NEW m \in 1 .. Len(msg_queue'),
           ~ (msg_queue'[m].has_sent /\ msg_queue'[m].has_msg)
    PROVE  /\ m \in 1 .. Len(msg_queue)
           /\ \/ ~ (msg_queue[m].has_sent /\ msg_queue[m].has_msg)
              \/ m = cl_current /\ cl_pc \in {"free_sent", "free_msg"}
<1>1. msg_queue \in Seq(MsgEntry) /\ Len(msg_queue) \in Nat
  BY DEF TypeOK
<1>2. CASE UNCHANGED msg_queue
  BY <1>2
<1>3. CASE S_Insert
  <2> DEFINE e == [timestamp |-> src_ts, sent |-> {}, has_sent |-> TRUE, has_msg |-> TRUE]
  <2>1. e \in MsgEntry /\ msg_queue' = Append(msg_queue, e) /\ e.has_sent /\ e.has_msg
    BY <1>3 DEF S_Insert, CursorInv, MsgEntry
  <2> HIDE DEF e
  <2>2. QED
    BY <1>1, <2>1, AppendProperties
<1>4. CASE C_FreeSent \/ C_FreeMsg
  BY <1>1, <1>4, FreeFacts DEF C_FreeSent, C_FreeMsg
<1>5. ASSUME NEW w \in Worker, W_MarkSent(w) \/ W_ResetSent(w)
      PROVE  m \in 1 .. Len(msg_queue) /\ ~ (msg_queue[m].has_sent /\ msg_queue[m].has_msg)
  <2>1. current[w] \in 1 .. Len(msg_queue)
    <3>1. step[w] # "get"
      BY <1>5 DEF W_MarkSent, W_ResetSent, At
    <3>2. QED
      BY <1>1, <3>1 DEF CursorInv, NULL
  <2>2. Kept(msg_queue, msg_queue')
    BY <1>5, <2>1, SetSentFacts DEF W_MarkSent, W_ResetSent
  <2>3. QED
    BY <1>1, <2>2 DEF Kept
<1>6. QED
  BY <1>2, <1>3, <1>4, <1>5, QueueWriters

\* A worker touches freed data only in these ways.
LEMMA BadAccessStep ==
    ASSUME TypeOK, CursorInv, [Next]_vars, bad_access' # bad_access
    PROVE  \E w \in Worker :
             /\ step[w] # "get" /\ bad_access' = current[w]
             /\ ~ (msg_queue[current[w]].has_sent /\ msg_queue[current[w]].has_msg)
<1>1. ~ Environment /\ ~ SourceThread /\ ~ DstServerThread /\ ~ CleanupThread /\ Next
  BY DEF Environment, Tick, S_InitEntry, DstAccept, PeerGone, SpuriousMsgWakeup, SpuriousFdWakeup,
     otherVars, faultVars, DstServerThread, DstStep, vars, SourceThread, S_Insert,
     CleanupThread, C_Get, C_AwaitMsg, C_Check, C_FreeSent, C_FreeMsg, C_Next
<1>2. PICK w \in Worker : WorkerThread(w)
  BY <1>1 DEF Next
<1>3. CASE W_CanForward(w)
  BY <1>3 DEF W_CanForward, Touch, At
<1>4. CASE W_SendHeader(w) \/ W_SendData(w) \/ W_SendFails(w)
  BY <1>4 DEF W_SendHeader, W_SendData, W_SendFails, Transmit, Touch, At
<1>5. CASE W_MarkSent(w) \/ W_ResetSent(w)
  BY <1>5 DEF W_MarkSent, W_ResetSent, set_sent, Touch, At
<1>6. CASE W_Dies(w)
  BY <1>6 DEF W_Dies, Crash, At
<1>7. QED
  BY <1>2, <1>3, <1>4, <1>5, <1>6
     DEF WorkerThread, W_Get, W_AwaitMsg, W_Alive, W_NotAlive, W_Next, W_SendFailedClose,
         W_BecomeReady, W_SeesSent, W_SeesNoSent, faultVars

\* free_msg_data() is called only behind the test of the TTL, and nothing a worker
\* finds freed was freed otherwise.
LEMMA FreedStep ==
    ASSUME TypeOK, TypeOK', CursorInv, CursorInv', FreedInv, [Next]_vars
    PROVE  FreedInv'
<1>1. ASSUME NEW m \in 1 .. Len(msg_queue'),
             ~ (msg_queue'[m].has_sent /\ msg_queue'[m].has_msg)
      PROVE  Expired(m)'
  <2>1. m \in 1 .. Len(msg_queue) /\ Expired(m)
    BY <1>1, PointersStep DEF FreedInv
  <2>2. QED
    BY <2>1, ExpiredStays
<1>2. ASSUME cl_pc' \in {"free_sent", "free_msg"} PROVE Expired(cl_current)'
  <2>1. cl_current' = cl_current /\ cl_pc # "get" /\ Expired(cl_current)
    <3>1. CASE CleanupThread
      BY <1>2, <3>1 DEF CleanupThread, C_Get, C_AwaitMsg, C_Check, C_FreeSent, C_FreeMsg, C_Next,
         cleanVars, FreedInv
    <3>2. CASE UNCHANGED cleanVars
      BY <1>2, <3>2 DEF cleanVars, FreedInv
    <3>3. QED
      BY <3>1, <3>2 DEF Next, Environment, Tick, S_InitEntry, DstAccept, PeerGone,
         SpuriousMsgWakeup, SpuriousFdWakeup, otherVars, DstServerThread, DstStep, vars,
         SourceThread, S_Insert, WorkerThread, W_Get, W_AwaitMsg, W_Alive, W_NotAlive,
         W_CanForward, W_SendHeader, W_SendData, W_SendFails, W_MarkSent, W_Next,
         W_SendFailedClose, W_BecomeReady, W_SeesSent, W_SeesNoSent, W_ResetSent, Resume,
         W_Dies, Crash
  <2>2. cl_current \in 1 .. Len(msg_queue)
    BY <2>1 DEF CursorInv, NULL, TypeOK
  <2>3. Expired(cl_current)' <=> ExpiredAt(msg_queue'[cl_current'].timestamp, clock')
    BY DEF Expired, ExpiredAt, Now
  <2>4. \A m \in 1 .. Len(msg_queue) : Expired(m) => ExpiredAt(msg_queue'[m].timestamp, clock')
    BY ExpiredStays DEF Expired, ExpiredAt, Now
  <2>5. QED
    BY <2>1, <2>2, <2>3, <2>4
<1>3. ASSUME bad_access' # NULL
      PROVE  bad_access' \in 1 .. Len(msg_queue') /\ Expired(bad_access)'
  <2>1. bad_access' \in 1 .. Len(msg_queue) /\ ExpiredAt(msg_queue[bad_access'].timestamp, clock)
    <3>1. CASE bad_access' = bad_access
      BY <1>3, <3>1 DEF FreedInv, Expired, ExpiredAt, Now
    <3>2. CASE bad_access' # bad_access
      <4>1. PICK w \in Worker :
              /\ step[w] # "get" /\ bad_access' = current[w]
              /\ ~ (msg_queue[current[w]].has_sent /\ msg_queue[current[w]].has_msg)
        BY <3>2, BadAccessStep
      <4>2. current[w] \in 1 .. Len(msg_queue)
        BY <4>1 DEF CursorInv, NULL, TypeOK
      <4>3. QED
        BY <4>1, <4>2 DEF FreedInv, Expired, ExpiredAt, Now
    <3>3. QED
      BY <3>1, <3>2
  <2>2. \A m \in 1 .. Len(msg_queue) :
          ExpiredAt(msg_queue[m].timestamp, clock)
            => m \in 1 .. Len(msg_queue') /\ ExpiredAt(msg_queue'[m].timestamp, clock')
    BY ExpiredStays DEF Expired, ExpiredAt, Now
  <2>3. QED
    BY <2>1, <2>2 DEF Expired, ExpiredAt, Now
<1>4. QED
  BY <1>1, <1>2, <1>3 DEF FreedInv

\* If a worker touches freed data, then that message is past its TTL: for every
\* number of workers, clients and messages, nothing younger is ever freed.
THEOREM FreesOnlyExpired == Spec => []BadAccessOnlyPastTTL
<1>1. Init => FreedInv
  BY DEF Init, FreedInv, NULL
<1>2. /\ TypeOK /\ TypeOK' /\ CursorInv /\ CursorInv' /\ FreedInv /\ [Next]_vars
      => FreedInv'
  BY FreedStep
<1>3. FreedInv => BadAccessOnlyPastTTL
  BY DEF FreedInv, BadAccessOnlyPastTTL
<1>4. QED
  BY <1>1, <1>2, <1>3, CursorsHold, PTL DEF Spec

-----------------------------------------------------------------------------
(* What is sent.  The test is made once, in can_forward(), with the        *)
(* timestamp in the worker's arguments, which the dst server has written   *)
(* and will write again; the message is sent some steps later.             *)

\* A client is stamped before anything is sent to it.
StampedInv ==
    \A c \in Clients : IF Stamped(c) THEN accepted[c] \in Stamp ELSE wire[c] = <<>>

\* A worker that is about to send, sends something newer than its client.
SendsNewer ==
    \A w \in Worker :
        At(w, "header") \/ At(w, "data") => NewerThan(current[w], timestamp[w])

\* What was sent is in the queue, and newer than the client.
SentNewer ==
    \A c \in Clients : \A i \in DOMAIN wire[c] :
        /\ wire[c][i].m \in 1 .. Len(msg_queue)
        /\ NewerThan(wire[c][i].m, accepted[c])

\* What the bytes on their way to clients have to do with timestamps.
DeliveryInv == StampedInv /\ SendsNewer /\ SentNewer

\* Only the two sends write to a connection; each appends one part of the
\* worker's current message.
LEMMA WireWriters ==
    ASSUME [Next]_vars, wire' # wire
    PROVE  \E w \in Worker, p \in {"header", "data", "garbage"} :
             /\ At(w, "header") \/ At(w, "data")
             /\ wire' = [wire EXCEPT ![client_fd[w]] = Append(@, [m |-> current[w], part |-> p])]
             /\ UNCHANGED <<poolVars, msg_queue>>
<1>1. ~ Environment /\ ~ SourceThread /\ ~ DstServerThread /\ ~ CleanupThread /\ Next
  BY DEF Environment, Tick, S_InitEntry, DstAccept, PeerGone, SpuriousMsgWakeup, SpuriousFdWakeup,
     otherVars, netVars, DstServerThread, DstStep, vars, SourceThread, S_Insert,
     CleanupThread, C_Get, C_AwaitMsg, C_Check, C_FreeSent, C_FreeMsg, C_Next
<1>2. PICK w \in Worker : WorkerThread(w)
  BY <1>1 DEF Next
<1>3. W_SendHeader(w) \/ W_SendData(w)
  BY <1>2 DEF WorkerThread, W_Get, W_AwaitMsg, W_Alive, W_NotAlive, W_CanForward, W_SendFails,
     W_MarkSent, W_Next, W_SendFailedClose, W_BecomeReady, W_SeesSent, W_SeesNoSent, W_ResetSent,
     Resume, W_Dies, Crash, netVars
<1>4. PICK p \in {"header", "data", "garbage"} :
        wire' = [wire EXCEPT ![client_fd[w]] = Append(@, [m |-> current[w], part |-> p])]
  BY <1>3 DEF W_SendHeader, W_SendData, Transmit
<1>5. QED
  BY <1>3, <1>4 DEF W_SendHeader, W_SendData, queueVars

\* The wire after one more part.
LEMMA OneMorePart ==
    ASSUME NEW S, NEW q \in Seq(S), NEW x \in S
    PROVE  /\ Append(q, x) \in Seq(S) /\ Len(Append(q, x)) = Len(q) + 1
           /\ DOMAIN q = 1 .. Len(q) /\ DOMAIN Append(q, x) = 1 .. Len(q) + 1
           /\ Append(q, x)[Len(q) + 1] = x
           /\ \A i \in 1 .. Len(q) : Append(q, x)[i] = q[i]
BY AppendProperties

\* What a pool step does to the client in the dst server's hands.
LEMMA StampedStep ==
    ASSUME PoolFacts, [Next]_vars, NEW c \in Clients
    PROVE  /\ Stamped(c) => Stamped(c)' /\ accepted'[c] = accepted[c]
           /\ ~ Stamped(c) /\ Stamped(c)' => accepted'[c] = Now
<1>1. /\ conn \in [Clients -> {"new", "open", "closed"}]
      /\ accepted \in [Clients -> Stamp \cup {NoStamp}]
  BY DEF PoolFacts, Pool!TypeOK
<1>2. CASE UNCHANGED Pool!poolVars
  BY <1>2 DEF Pool!poolVars, Pool!dstVars, Pool!connVars, Stamped
<1>3. ASSUME NEW d \in Clients, Pool!D_Accept(d)
      PROVE  /\ Stamped(c) => Stamped(c)' /\ accepted'[c] = accepted[c]
             /\ ~ Stamped(c) /\ Stamped(c)' => accepted'[c] = Now
  BY <1>1, <1>3 DEF Pool!D_Accept, Stamped
<1>4. CASE Pool!D_Stamp(Now)
  BY <1>1, <1>4 DEF Pool!D_Stamp, Stamped, PoolFacts
<1>5. CASE Pool!DstStep
  BY <1>5 DEF Pool!DstStep, Pool!D_FindIdle, Pool!D_FindBusy, Pool!connVars,
     Pool!D_FindNone, Pool!D_Backoff, Pool!D_Dispatch, Pool!D_Init, Pool!D_InitBit, Pool!D_Create,
     Pool!D_Assert, Pool!D_WakeLock, Pool!D_WakeFd, Pool!D_WakeBit, Pool!D_WakeStamp, Stamped
<1>6. ASSUME NEW w \in Worker, Pool!W_Close(w)
      PROVE  /\ Stamped(c) => Stamped(c)' /\ accepted'[c] = accepted[c]
             /\ ~ Stamped(c) /\ Stamped(c)' => accepted'[c] = Now
  BY <1>1, <1>6 DEF Pool!W_Close, Pool!dstVars, Stamped, PoolFacts
<1>7. ASSUME NEW w \in Worker, Pool!W_Spurious(w) \/ Pool!WorkerStep(w)
      PROVE  Stamped(c)' = Stamped(c) /\ accepted' = accepted
  BY <1>7 DEF Pool!W_Spurious, Pool!WorkerStep, Pool!W_Lock, Pool!W_SetReady, Pool!W_ClearBit,
     Pool!W_Wait, Pool!W_LeaveWait, Pool!W_Reacquire, Pool!W_Resume, Pool!connVars, Pool!dstVars, Stamped
<1>8. QED
  BY <1>2, <1>3, <1>4, <1>5, <1>6, <1>7, PoolMoves DEF PoolMove

\* A worker that runs and goes on running keeps its client and its timestamp.
LEMMA ServingKeeps ==
    ASSUME PoolFacts, [Next]_vars,
           NEW w \in Worker, worker_pc[w] = "serving", worker_pc'[w] = "serving"
    PROVE  client_fd'[w] = client_fd[w] /\ timestamp'[w] = timestamp[w]
<1>1. /\ client_fd \in [Worker -> Clients \cup {NoFd}]
      /\ timestamp \in [Worker -> Stamp \cup {NoStamp}]
      /\ thread_index \in Worker
  BY DEF PoolFacts, Pool!TypeOK, Worker
<1>2. CASE Pool!DstStep
  BY <1>1, <1>2 DEF Pool!DstStep, Pool!D_FindIdle, Pool!D_FindBusy, Pool!D_FindNone,
     Pool!D_Backoff, Pool!D_Dispatch, Pool!D_Init, Pool!D_InitBit, Pool!D_Create, Pool!D_Assert,
     Pool!D_WakeLock, Pool!D_WakeFd, Pool!D_WakeBit, Pool!D_WakeStamp, Pool!listVars, PoolFacts
<1>3. CASE ~ Pool!DstStep
  BY <1>3, PoolMoves DEF PoolMove, Pool!D_Accept, Pool!D_Stamp, Pool!W_Close, Pool!W_Spurious,
     Pool!WorkerStep, Pool!W_Lock, Pool!W_SetReady, Pool!W_ClearBit, Pool!W_Wait,
     Pool!W_LeaveWait, Pool!W_Reacquire, Pool!W_Resume, Pool!listVars, Pool!poolVars
<1>4. QED
  BY <1>2, <1>3

\* The steps of the other threads do not move worker w in its loop.
LEMMA OthersKeepLoop ==
    ASSUME TypeOK, [Next]_vars, NEW w \in Worker, ~ WorkerThread(w)
    PROVE  /\ step'[w] = step[w] /\ current'[w] = current[w]
           /\ prev'[w] = prev[w] /\ next'[w] = next[w] /\ send_failed'[w] = send_failed[w]
<1>1. CASE UNCHANGED loopVars
  BY <1>1 DEF loopVars
<1>2. ASSUME NEW u \in Worker, u # w, WorkerThread(u)
      PROVE  /\ step'[w] = step[w] /\ current'[w] = current[w]
             /\ prev'[w] = prev[w] /\ next'[w] = next[w] /\ send_failed'[w] = send_failed[w]
  BY <1>2 DEF WorkerThread, W_Get, W_AwaitMsg, W_Alive, W_NotAlive, W_CanForward, W_SendHeader,
     W_SendData, W_SendFails, W_MarkSent, W_Next, W_SendFailedClose, W_BecomeReady, W_SeesSent,
     W_SeesNoSent, W_ResetSent, Resume, W_Dies, Crash, loopVars, GoTo, TypeOK
<1>3. QED
  BY <1>1, <1>2 DEF Next, Environment, Tick, S_InitEntry, DstAccept, PeerGone, SpuriousMsgWakeup,
     SpuriousFdWakeup, otherVars, DstServerThread, DstStep, vars, SourceThread, S_Insert,
     CleanupThread, C_Get, C_AwaitMsg, C_Check, C_FreeSent, C_FreeMsg, C_Next

\* ... nor start it anywhere but at the beginning.
LEMMA OthersKeepPlace ==
    ASSUME PoolFacts, CursorInv, TypeOK, [Next]_vars, NEW w \in Worker, ~ WorkerThread(w)
    PROVE  worker_pc'[w] = "serving" => worker_pc[w] = "serving" \/ step[w] = "get"
<1>1. worker_pc \in [Worker -> Pool!WorkerPC]
  BY DEF PoolFacts, Pool!TypeOK, Worker
<1>2. CASE UNCHANGED poolVars
  BY <1>2 DEF poolVars
<1>3. CASE DstStep
  BY <1>3, DstPlaces DEF DstStep, CursorInv
<1>4. ASSUME NEW c \in Clients, DstAccept(c) PROVE UNCHANGED worker_pc
  BY <1>4 DEF DstAccept, Pool!D_Accept
<1>5. ASSUME NEW u \in Worker, SpuriousFdWakeup(u)
      PROVE  worker_pc'[w] = "serving" => worker_pc[w] = "serving"
  BY <1>1, <1>5 DEF SpuriousFdWakeup, Pool!W_Spurious, Pool!Goto
<1>6. ASSUME NEW u \in Worker, u # w, WorkerThread(u) PROVE worker_pc'[w] = worker_pc[w]
  BY <1>1, <1>6 DEF WorkerThread, W_Get, W_AwaitMsg, W_Alive, W_NotAlive, W_CanForward, W_SendHeader,
     W_SendData, W_SendFails, W_MarkSent, W_Next, W_SendFailedClose, W_BecomeReady, W_SeesSent,
     W_SeesNoSent, W_ResetSent, Resume, W_Dies, Crash, poolVars, Pool!W_Close, Pool!W_Lock,
     Pool!W_SetReady, Pool!W_ClearBit, Pool!W_Wait, Pool!W_LeaveWait, Pool!W_Reacquire,
     Pool!W_Resume, Pool!Goto
<1>7. QED
  BY <1>2, <1>3, <1>4, <1>5, <1>6 DEF Next, Environment, Tick, S_InitEntry, PeerGone,
     SpuriousMsgWakeup, DstServerThread, vars, SourceThread, S_Insert,
     CleanupThread, C_Get, C_AwaitMsg, C_Check, C_FreeSent, C_FreeMsg, C_Next

\* A worker gets to a send through can_forward() only, and with its current
\* message.
LEMMA SendingStep ==
    ASSUME PoolFacts, CursorInv, TypeOK, [Next]_vars, NEW w \in Worker,
           At(w, "header")' \/ At(w, "data")'
    PROVE  /\ worker_pc[w] = "serving" /\ worker_pc'[w] = "serving"
           /\ current'[w] = current[w] /\ step[w] # "get"
           /\ \/ At(w, "header") \/ At(w, "data")
              \/ NewerThan(current[w], timestamp[w])
<1>1. step \in [Worker -> StepPC] /\ worker_pc \in [Worker -> Pool!WorkerPC]
  BY DEF TypeOK, PoolFacts, Pool!TypeOK, Worker
<1>2. worker_pc'[w] = "serving" /\ step'[w] \in {"header", "data"}
  BY DEF At
<1>3. CASE WorkerThread(w)
  <2>1. W_CanForward(w) \/ W_SendHeader(w) \/ W_Dies(w)
    BY <1>1, <1>2, <1>3
       DEF WorkerThread, W_Get, W_AwaitMsg, W_Alive, W_NotAlive, W_SendData, W_SendFails,
           W_MarkSent, W_Next, W_SendFailedClose, W_BecomeReady, W_SeesSent, W_SeesNoSent,
           W_ResetSent, Resume, At, GoTo, loopVars, poolVars, Pool!W_Close,
           Pool!Goto, Pool!W_Lock, Pool!W_SetReady, Pool!W_ClearBit, Pool!W_Wait,
           Pool!W_LeaveWait, Pool!W_Reacquire, CursorInv
  <2>2. QED
    BY <1>1, <1>2, <2>1 DEF W_CanForward, W_SendHeader, W_Dies, Crash, At, GoTo, loopVars, poolVars
<1>4. CASE ~ WorkerThread(w)
  BY <1>2, <1>4, OthersKeepLoop, OthersKeepPlace DEF At
<1>5. QED
  BY <1>3, <1>4

-----------------------------------------------------------------------------

\* A message is newer than a timestamp for as long as both are what they are.
LEMMA NewerStays ==
    ASSUME TypeOK, TypeOK', CursorInv, [Next]_vars, NEW m \in 1 .. Len(msg_queue), NEW ts,
           NewerThan(m, ts)
    PROVE  m \in 1 .. Len(msg_queue') /\ compare_times(ts, msg_queue'[m].timestamp)
<1>1. EntriesStay
  BY EntriesStayStep
<1>2. Len(msg_queue) \in Nat /\ Len(msg_queue') \in Nat
  BY DEF TypeOK
<1>3. QED
  BY <1>1, <1>2 DEF EntriesStay, NewerThan

\* Each step keeps this: can_forward() lets a worker go on to send_ctmp_msg() only
\* for an entry newer than the timestamp it was given with its client.
LEMMA DeliveryStep ==
    ASSUME ClockOK, PoolFacts, PoolFacts', TypeOK, TypeOK', CursorInv, CursorInv', DeliveryInv,
           [Next]_vars
    PROVE  DeliveryInv'
<1>1. StampedInv'
  <2> SUFFICES ASSUME NEW c \in Clients
               PROVE IF Stamped(c)' THEN accepted'[c] \in Stamp ELSE wire'[c] = <<>>
    BY DEF StampedInv
  <2>1. Stamped(c)' => accepted'[c] \in Stamp
    <3>1. Now \in Stamp
      BY DEF ClockOK, Now, Stamp
    <3>2. QED
      BY <3>1, StampedStep DEF DeliveryInv, StampedInv
  <2>2. ASSUME ~ Stamped(c)' PROVE wire'[c] = <<>>
    <3>1. ~ Stamped(c) /\ wire[c] = <<>>
      BY <2>2, StampedStep DEF DeliveryInv, StampedInv
    <3>2. \A w \in Worker : worker_pc[w] = "serving" => client_fd[w] # c
      BY <3>1 DEF PoolFacts, Stamped, Pool!Held
    <3>3. QED
      BY <3>1, <3>2, WireWriters DEF At, TypeOK
  <2>3. QED
    BY <2>1, <2>2
<1>2. SendsNewer'
  <2> SUFFICES ASSUME NEW w \in Worker, At(w, "header")' \/ At(w, "data")'
               PROVE  NewerThan(current[w], timestamp[w])'
    BY DEF SendsNewer
  <2>1. /\ worker_pc[w] = "serving" /\ worker_pc'[w] = "serving"
        /\ current'[w] = current[w] /\ step[w] # "get"
        /\ NewerThan(current[w], timestamp[w])
    BY SendingStep DEF DeliveryInv, SendsNewer
  <2>2. timestamp'[w] = timestamp[w]
    BY <2>1, ServingKeeps
  <2>3. current[w] \in 1 .. Len(msg_queue)
    BY <2>1 DEF CursorInv, NULL, TypeOK
  <2>4. QED
    BY <2>1, <2>2, <2>3, NewerStays DEF NewerThan
<1>3. SentNewer'
  <2> DEFINE Frame == [m : Msg, part : {"header", "data", "garbage"}]
  <2>1. wire \in [Clients -> Seq(Frame)]
    BY DEF TypeOK
  <2>2. ASSUME NEW c \in Clients, NEW i \in DOMAIN wire[c]
        PROVE  /\ wire[c][i].m \in 1 .. Len(msg_queue')
               /\ compare_times(accepted'[c], msg_queue'[wire[c][i].m].timestamp)
    <3>1. wire[c] # <<>>
      BY <2>1, <2>2
    <3>2. accepted'[c] = accepted[c]
      BY <3>1, StampedStep DEF DeliveryInv, StampedInv
    <3>3. wire[c][i].m \in 1 .. Len(msg_queue) /\ NewerThan(wire[c][i].m, accepted[c])
      BY <2>2 DEF DeliveryInv, SentNewer
    <3>4. QED
      BY <3>2, <3>3, NewerStays
  <2>3. CASE wire' = wire
    BY <2>2, <2>3 DEF SentNewer, NewerThan
  <2>4. CASE wire' # wire
    <3>1. PICK w \in Worker, p \in {"header", "data", "garbage"} :
             /\ At(w, "header") \/ At(w, "data")
             /\ wire' = [wire EXCEPT ![client_fd[w]] = Append(@, [m |-> current[w], part |-> p])]
             /\ UNCHANGED <<poolVars, msg_queue>>
      BY <2>4, WireWriters
    <3> DEFINE d == client_fd[w]
               f == [m |-> current[w], part |-> p]
    <3>2. /\ d \in Clients /\ timestamp[w] = accepted[d]
          /\ current[w] \in 1 .. Len(msg_queue) /\ current[w] \in Msg
          /\ NewerThan(current[w], timestamp[w])
      BY <3>1 DEF At, PoolFacts, CursorInv, NULL, TypeOK, DeliveryInv, SendsNewer
    <3>3. f \in Frame /\ f.m = current[w]
      BY <3>2
    <3>4. wire'[d] = Append(wire[d], f) /\ \A c \in Clients : c # d => wire'[c] = wire[c]
      BY <2>1, <3>1, <3>2
    <3>5. accepted'[d] = accepted[d] /\ msg_queue' = msg_queue
      BY <3>1 DEF poolVars
    <3> HIDE DEF f, d, Frame
    <3>6. ASSUME NEW i \in DOMAIN wire'[d]
          PROVE  /\ wire'[d][i].m \in 1 .. Len(msg_queue')
                 /\ compare_times(accepted'[d], msg_queue'[wire'[d][i].m].timestamp)
      <4>1. /\ wire[d] \in Seq(Frame) /\ DOMAIN wire[d] = 1 .. Len(wire[d])
            /\ DOMAIN wire'[d] = 1 .. Len(wire[d]) + 1 /\ Len(wire[d]) \in Nat
            /\ wire'[d][Len(wire[d]) + 1] = f
            /\ \A j \in 1 .. Len(wire[d]) : wire'[d][j] = wire[d][j]
        BY <2>1, <3>2, <3>3, <3>4, OneMorePart
      <4>2. CASE i = Len(wire[d]) + 1
        BY <3>2, <3>3, <3>5, <4>1, <4>2 DEF NewerThan
      <4>3. CASE i \in 1 .. Len(wire[d])
        BY <2>2, <3>2, <4>1, <4>3
      <4>4. QED
        BY <3>6, <4>1, <4>2, <4>3
    <3>7. QED
      BY <2>2, <3>4, <3>6 DEF SentNewer, NewerThan
  <2>5. QED
    BY <2>3, <2>4
<1>4. QED
  BY <1>1, <1>2, <1>3 DEF DeliveryInv

\* The delivery invariant holds in every reachable state.
THEOREM DeliveryHolds == Spec => []DeliveryInv
<1>1. Init => DeliveryInv
  <2> SUFFICES ASSUME Init PROVE DeliveryInv
    OBVIOUS
  <2>1. wire = [c \in Clients |-> <<>>] /\ conn = [c \in Clients |-> "new"]
    BY DEF Init, Pool!Init
  <2>2. worker_pc = [w \in Worker |-> "none"]
    BY DEF Init, Pool!Init, Worker
  <2>3. QED
    BY <2>1, <2>2 DEF DeliveryInv, StampedInv, Stamped, SendsNewer, SentNewer, At
<1>2. /\ ClockOK /\ PoolFacts /\ PoolFacts' /\ TypeOK /\ TypeOK' /\ CursorInv /\ CursorInv'
      /\ DeliveryInv /\ [Next]_vars
      => DeliveryInv'
  BY DeliveryStep
<1>3. QED
  BY <1>1, <1>2, PoolFactsHold, CursorsHold, PTL DEF Spec

\* A client is never sent a message older than its own connection, whichever
\* clients its worker served before, and however far behind it was then.
THEOREM NothingStaleIsSent == Spec => []NoStaleDelivery
<1>1. TypeOK /\ DeliveryInv => NoStaleDelivery
  <2> SUFFICES ASSUME TypeOK, DeliveryInv, NEW c \in Clients, NEW i \in DOMAIN wire[c]
               PROVE  Units(accepted[c]) < Units(msg_queue[wire[c][i].m].timestamp)
    BY DEF NoStaleDelivery
  <2> DEFINE ts == msg_queue[wire[c][i].m].timestamp
  <2>1. wire[c] # <<>>
    OBVIOUS
  <2>2. accepted[c] \in Stamp
    BY <2>1 DEF DeliveryInv, StampedInv
  <2>3. wire[c][i].m \in 1 .. Len(msg_queue) /\ compare_times(accepted[c], ts)
    BY DEF DeliveryInv, SentNewer, NewerThan
  <2>4. ts \in Stamp
    <3>1. msg_queue[wire[c][i].m] \in MsgEntry
      BY <2>3 DEF TypeOK
    <3>2. QED
      BY <3>1 DEF MsgEntry
  <2> HIDE DEF ts
  <2>5. Units(accepted[c]) < Units(ts)
    BY <2>2, <2>3, <2>4, StampFacts, ComparisonIsClockOrder
  <2>6. QED
    BY <2>5 DEF ts
<1>2. QED
  BY <1>1, DeliveryHolds, CursorsHold, PTL
=============================================================================
