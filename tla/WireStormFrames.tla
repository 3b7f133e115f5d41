-------------------------- MODULE WireStormFrames --------------------------
(***************************************************************************)
(* What a client is sent is whole messages in queue order, none repeated   *)
(* and none left out in between (run_dst_worker(), send_ctmp_msg()).       *)
(***************************************************************************)
EXTENDS WireStormMarks

\* A worker that sends, or has sent, to its client finds no bit set from there.
NothingSentAhead ==
    bad_access = NULL => \A w \in Worker : \A j \in 1 .. Len(msg_queue) :
        /\ worker_pc[w] = "serving" /\ Due(w) <= j
        /\ step[w] \in {"header", "data", "mark"} \/ wire[client_fd[w]] # <<>>
        => ~ is_sent(j, w)

\* Who was sent something has the same worker ever since, until it is closed.
OneServer ==
    \A c \in Clients : wire[c] # <<>> =>
        conn[c] = "closed" \/ \E w \in Worker : worker_pc[w] = "serving" /\ client_fd[w] = c

\* The message a worker is due to deal with is the next one for its client: the
\* one behind the last that it was sent, or the one whose header it was sent.
DueIsNext ==
    bad_access = NULL => \A w \in Worker :
        worker_pc[w] = "serving" /\ client_fd[w] \notin gone =>
            LET q == wire[client_fd[w]]
            IN  IF step[w] = "data"
                THEN Len(q) % 2 = 1 /\ q[1].m + (Len(q) - 1) \div 2 = Due(w)
                ELSE q # <<>> =>
                       /\ Len(q) % 2 = 0
                       /\ q[1].m + Len(q) \div 2 = IF step[w] = "mark" THEN Due(w) + 1 ELSE Due(w)

\* A worker and what its client was sent, together.
FramesInv == NothingSentAhead /\ OneServer /\ DueIsNext /\ GaplessFrames

\* Once a worker has touched freed data, it has.
LEMMA BadStaysBad ==
    ASSUME Ground, [Next]_vars, bad_access' = NULL
    PROVE  bad_access = NULL
<1>1. ASSUME NEW w \in Worker, step[w] # "get" PROVE current[w] # NULL
  BY <1>1 DEF Ground, CursorInv
<1>2. QED
  BY <1>1, BadAccessStep DEF Ground

\* A worker that sends what was not freed sends a header, then the data.
LEMMA FrameWriters ==
    ASSUME Ground, [Next]_vars, wire' # wire, bad_access' = NULL
    PROVE  \E w \in Worker :
             /\ client_fd[w] \notin gone /\ worker_pc[w] = "serving"
             /\ current[w] \in Msg /\ UNCHANGED <<poolVars, msg_queue, gone>>
             /\ \/ /\ W_SendHeader(w)
                   /\ wire' = [wire EXCEPT ![client_fd[w]] =
                                 Append(@, [m |-> current[w], part |-> "header"])]
                \/ /\ W_SendData(w)
                   /\ wire' = [wire EXCEPT ![client_fd[w]] =
                                 Append(@, [m |-> current[w], part |-> "data"])]
<1>1. ~ Environment /\ ~ SourceThread /\ ~ DstServerThread /\ ~ CleanupThread /\ Next
  BY DEF Environment, Tick, S_InitEntry, DstAccept, PeerGone, SpuriousMsgWakeup, SpuriousFdWakeup,
     otherVars, netVars, DstServerThread, DstStep, vars, SourceThread, S_Insert,
     CleanupThread, C_Get, C_AwaitMsg, C_Check, C_FreeSent, C_FreeMsg, C_Next
<1>2. PICK w \in Worker : WorkerThread(w)
  BY <1>1 DEF Next
<1>3. W_SendHeader(w) \/ W_SendData(w)
  BY <1>2 DEF WorkerThread, W_Get, W_AwaitMsg, W_Alive, W_NotAlive, W_CanForward, W_SendFails,
     W_MarkSent, W_Next, W_SendFailedClose, W_BecomeReady, W_SeesSent, W_SeesNoSent, W_ResetSent,
     Resume, W_Dies, Crash, netVars
<1>4. /\ current[w] # NULL /\ current[w] \in Msg /\ worker_pc[w] = "serving"
      /\ UNCHANGED <<poolVars, msg_queue, gone>>
  BY <1>3 DEF W_SendHeader, W_SendData, At, Ground, CursorInv, TypeOK, queueVars
<1>5. CASE W_SendHeader(w)
  BY <1>4, <1>5 DEF W_SendHeader, Transmit, Touch
<1>6. CASE W_SendData(w)
  BY <1>4, <1>6 DEF W_SendData, Transmit, Touch
<1>7. QED
  BY <1>3, <1>5, <1>6

\* Only the worker of a client writes to its connection.
LEMMA OwnWire ==
    ASSUME Ground, [Next]_vars, bad_access' = NULL, NEW w \in Worker, Given(w)
    PROVE  wire'[client_fd[w]] # wire[client_fd[w]] =>
             worker_pc[w] = "serving" /\ (W_SendHeader(w) \/ W_SendData(w))
<1> SUFFICES ASSUME wire'[client_fd[w]] # wire[client_fd[w]]
             PROVE  worker_pc[w] = "serving" /\ (W_SendHeader(w) \/ W_SendData(w))
  OBVIOUS
<1>1. PICK v \in Worker :
         /\ worker_pc[v] = "serving" /\ (W_SendHeader(v) \/ W_SendData(v))
         /\ \E f : wire' = [wire EXCEPT ![client_fd[v]] = Append(@, f)]
  BY FrameWriters
<1>2. wire \in [Clients -> Seq([m : Msg, part : {"header", "data", "garbage"}])]
  BY DEF Ground, TypeOK
<1>3. client_fd[v] = client_fd[w]
  BY <1>1, <1>2 DEF Ground, GivenFacts
<1>4. v = w
  BY <1>1, <1>3 DEF Given, Ground, GivenFacts
<1>5. QED
  BY <1>1, <1>4

\* A worker that starts to run, starts with a client that was sent nothing.
LEMMA NewlyServing ==
    ASSUME Ground, OneServer, [Next]_vars, bad_access' = NULL,
           NEW w \in Worker, worker_pc[w] # "serving", worker_pc'[w] = "serving"
    PROVE  wire'[client_fd'[w]] = <<>> /\ step'[w] = "get"
<1>1. wire' = wire
  BY FrameWriters DEF poolVars
<1>2. wire[client_fd'[w]] = <<>>
  <2>1. CASE Given(w)
    <3>1. client_fd'[w] = client_fd[w] /\ client_fd[w] \in Clients /\ conn[client_fd[w]] = "open"
      <4>1. Given(w)'
        BY DEF Given
      <4>2. QED
        BY <2>1, <4>1, GivenStep DEF Ground, GivenFacts
    <3>2. ASSUME NEW u \in Worker, worker_pc[u] = "serving", client_fd[u] = client_fd[w] PROVE FALSE
      BY <2>1, <3>2 DEF Given, Ground, GivenFacts
    <3>3. QED
      BY <3>1, <3>2 DEF OneServer
  <2>2. CASE ~ Given(w)
    <3>1. Given(w)'
      BY DEF Given
    <3>2. client_fd'[w] = new_fd /\ Holding
      BY <2>2, <3>1, GivenStep DEF Ground
    <3>3. new_fd \in Clients /\ conn[new_fd] = "open" /\ Pool!Held(new_fd)
      BY <3>2 DEF Ground, PoolFacts, GivenFacts, Holding, Pool!Held
    <3>4. ASSUME NEW u \in Worker, worker_pc[u] = "serving", client_fd[u] = new_fd PROVE FALSE
      BY <3>3, <3>4 DEF Ground, PoolFacts
    <3>5. QED
      BY <3>2, <3>3, <3>4 DEF OneServer
  <2>3. QED
    BY <2>1, <2>2
<1>3. step'[w] = "get"
  <2>1. CASE ~ WorkerThread(w)
    BY <2>1, OthersKeepLoop, OthersKeepPlace DEF Ground
  <2>2. CASE WorkerThread(w)
    <3>1. worker_pc \in [Worker -> Pool!WorkerPC] /\ step \in [Worker -> StepPC]
      BY DEF Ground, PoolFacts, Pool!TypeOK, Worker, TypeOK
    <3>2. W_SeesNoSent(w) \/ W_ResetSent(w)
      BY <2>2, <3>1 DEF WorkerThread, W_Get, W_AwaitMsg, W_Alive, W_NotAlive, W_CanForward,
         W_SendHeader, W_SendData, W_SendFails, W_MarkSent, W_Next, W_SendFailedClose, W_BecomeReady,
         W_SeesSent, W_Dies, Crash, At, poolVars, Pool!W_Lock, Pool!W_SetReady, Pool!W_ClearBit,
         Pool!W_Wait, Pool!W_LeaveWait, Pool!W_Reacquire, Pool!Goto
    <3>3. QED
      BY <3>1, <3>2 DEF W_SeesNoSent, W_ResetSent, Resume, GoTo
  <2>3. QED
    BY <2>1, <2>2
<1>4. QED
  BY <1>1, <1>2, <1>3

\* A client that was sent something keeps its worker until it is closed.
LEMMA OneServerStep ==
    ASSUME Ground, Ground', OneServer, [Next]_vars
    PROVE  OneServer'
<1> SUFFICES ASSUME NEW c \in Clients, wire'[c] # <<>>
             PROVE  \/ conn'[c] = "closed"
                    \/ \E w \in Worker : worker_pc'[w] = "serving" /\ client_fd'[w] = c
  BY DEF OneServer
<1>1. conn \in [Clients -> {"new", "open", "closed"}]
  BY DEF Ground, PoolFacts, Pool!TypeOK
<1>2. CASE wire[c] = <<>>
  <2>1. PICK w \in Worker, p \in {"header", "data", "garbage"} :
             /\ At(w, "header") \/ At(w, "data")
             /\ wire' = [wire EXCEPT ![client_fd[w]] = Append(@, [m |-> current[w], part |-> p])]
             /\ UNCHANGED <<poolVars, msg_queue>>
    BY <1>2, WireWriters
  <2>2. wire \in [Clients -> Seq([m : Msg, part : {"header", "data", "garbage"}])]
    BY DEF Ground, TypeOK
  <2>3. client_fd[w] = c
    BY <1>2, <2>1, <2>2
  <2>4. QED
    BY <2>1, <2>3 DEF At, poolVars
<1>3. CASE conn[c] = "closed"
  BY <1>1, <1>3, PoolMoves DEF PoolMove, Pool!D_Accept, Pool!D_Stamp, Pool!W_Close, Pool!W_Spurious,
     Pool!WorkerStep, Pool!W_Lock, Pool!W_SetReady, Pool!W_ClearBit, Pool!W_Wait, Pool!W_LeaveWait,
     Pool!W_Reacquire, Pool!W_Resume, Pool!connVars, Pool!poolVars, Pool!DstStep, Pool!D_FindIdle,
     Pool!D_FindBusy, Pool!D_FindNone, Pool!D_Backoff, Pool!D_Dispatch, Pool!D_Init,
     Pool!D_InitBit, Pool!D_Create, Pool!D_Assert, Pool!D_WakeLock, Pool!D_WakeFd,
     Pool!D_WakeBit, Pool!D_WakeStamp
<1>4. ASSUME NEW w \in Worker, worker_pc[w] = "serving", client_fd[w] = c
      PROVE  \/ conn'[c] = "closed"
             \/ \E u \in Worker : worker_pc'[u] = "serving" /\ client_fd'[u] = c
  <2>1. CASE worker_pc'[w] = "serving"
    BY <1>4, <2>1, ServingKeeps DEF Ground
  <2>2. CASE worker_pc'[w] # "serving"
    <3>1. W_NotAlive(w) \/ W_SendFailedClose(w)
      BY <1>4, <2>2, ClosingStep DEF Ground
    <3>2. QED
      BY <1>1, <1>4, <3>1 DEF W_NotAlive, W_SendFailedClose, Pool!W_Close
  <2>3. QED
    BY <2>1, <2>2
<1>5. QED
  BY <1>2, <1>3, <1>4 DEF OneServer

\* can_forward() says yes, of an entry that is not freed: it is newer than the
\* client, and not marked; if it says no, it is one or the other.
LEMMA Forwarding ==
    ASSUME Ground, [Next]_vars, bad_access' = NULL, NEW w \in Worker, W_CanForward(w)
    PROVE  /\ worker_pc[w] = "serving" /\ step[w] = "check"
           /\ current[w] \in 1 .. Len(msg_queue) /\ Due(w) = current[w]
           /\ step'[w] \in {"header", "next"}
           /\ step'[w] = "header" => Newer(current[w], timestamp[w]) /\ Clear(current[w], w)
           /\ step'[w] = "next" => ~ Newer(current[w], timestamp[w]) \/ is_sent(current[w], w)
<1>1. /\ worker_pc[w] = "serving" /\ step[w] = "check" /\ step'[w] \in {"header", "next"}
  BY DEF W_CanForward, At, GoTo, Ground, TypeOK
<1>2. /\ current[w] \in 1 .. Len(msg_queue) /\ current[w] # NULL
  BY <1>1 DEF Ground, TypeOK, CursorInv, NULL
<1>3. Due(w) = current[w]
  BY <1>1, <1>2 DEF Due
<1>4. NewerThan(current[w], timestamp[w]) <=> Newer(current[w], timestamp[w])
  <2>1. timestamp[w] \in Stamp /\ msg_queue[current[w]].timestamp \in Stamp
    <3>1. msg_queue[current[w]] \in MsgEntry
      BY <1>2 DEF Ground, TypeOK
    <3>2. client_fd[w] \in Clients /\ Stamped(client_fd[w]) /\ timestamp[w] = accepted[client_fd[w]]
      BY <1>1 DEF Ground, PoolFacts, Stamped, Pool!Held
    <3>3. QED
      BY <3>1, <3>2 DEF MsgEntry, Ground, DeliveryInv, StampedInv
  <2>2. QED
    BY <2>1, StampFacts, ComparisonIsClockOrder DEF NewerThan, Newer, Time
<1>5. NewerThan(current[w], timestamp[w]) => msg_queue[current[w]].has_sent
  BY <1>2 DEF W_CanForward, Touch
<1>6. PICK sent \in BOOLEAN :
        /\ msg_queue[current[w]].has_sent => sent = is_sent(current[w], w)
        /\ step'[w] = IF NewerThan(current[w], timestamp[w]) /\ ~ sent THEN "header" ELSE "next"
  BY DEF W_CanForward, GoTo, Ground, TypeOK
<1>7. QED
  BY <1>1, <1>2, <1>3, <1>4, <1>5, <1>6 DEF Clear

\* A worker that starts to send finds no bit set behind.
LEMMA NothingSentAheadStep ==
    ASSUME Ground, Ground', MarksInv, FramesInv, [Next]_vars
    PROVE  NothingSentAhead'
<1> SUFFICES ASSUME bad_access' = NULL, NEW w \in Worker, NEW j \in 1 .. Len(msg_queue'),
                    worker_pc'[w] = "serving", Due(w)' <= j,
                    step'[w] \in {"header", "data", "mark"} \/ wire'[client_fd'[w]] # <<>>,
                    is_sent(j, w)'
             PROVE  FALSE
  BY DEF NothingSentAhead
<1>1. worker_pc[w] = "serving"
  BY NewlyServing DEF FramesInv
<1>2. /\ Given(w) /\ bad_access = NULL /\ client_fd'[w] = client_fd[w]
      /\ j \in 1 .. Len(msg_queue) /\ Len(msg_queue) \in Nat
  <2>1. Len(msg_queue) \in Nat
    BY DEF Ground, TypeOK
  <2>2. QED
    BY <1>1, <2>1, BadStaysBad, ServingKeeps, BitOrigin DEF Given, Ground
<1>3. Due(w) \in Nat /\ DueMove(w) /\ Due(w) <= j
  <2>1. Due(w) \in Nat /\ DueMove(w)
    BY DueRange, PlaceStep DEF Ground
  <2>2. QED
    BY <1>2, <2>1 DEF DueMove
<1>4. is_sent(j, w)
  <2>1. ASSUME NEW v \in Worker, W_MarkSent(v), j = current[v], SameBit(v, w) PROVE FALSE
    <3>1. v = w
      BY <1>2, <2>1, BitWriters DEF Ground, GivenFacts
    <3>2. current'[w] = current[w] /\ step'[w] = "next"
      BY <2>1, <3>1 DEF W_MarkSent, GoTo, Ground, TypeOK
    <3>3. Due(w)' = j + 1
      BY <2>1, <3>1, <3>2 DEF Due
    <3>4. QED
      BY <1>2, <3>3
  <2>2. QED
    BY <1>2, <2>1, BitOrigin DEF Ground
<1>5. step[w] \notin {"header", "data", "mark"} /\ wire[client_fd[w]] = <<>>
  BY <1>1, <1>2, <1>3, <1>4 DEF FramesInv, NothingSentAhead
<1>6. wire'[client_fd[w]] = <<>>
  BY <1>2, <1>5, OwnWire DEF W_SendHeader, W_SendData, At
<1>7. W_CanForward(w) /\ step'[w] = "header"
  <2>1. step'[w] \in {"header", "data", "mark"}
    BY <1>2, <1>6
  <2>2. WorkerThread(w)
    BY <1>5, <2>1, OthersKeepLoop DEF Ground
  <2>3. step \in [Worker -> StepPC]
    BY DEF Ground, TypeOK
  <2>4. QED
    BY <1>5, <2>1, <2>2, <2>3 DEF WorkerThread, W_Get, W_AwaitMsg, W_Alive, W_NotAlive, W_CanForward,
       W_SendHeader, W_SendData, W_SendFails, W_MarkSent, W_Next, W_SendFailedClose, W_BecomeReady,
       W_SeesSent, W_SeesNoSent, W_ResetSent, Resume, W_Dies, Crash, At, GoTo, loopVars
<1>8. /\ current[w] \in 1 .. Len(msg_queue) /\ Due(w) = current[w]
      /\ Newer(current[w], timestamp[w]) /\ Clear(current[w], w)
  BY <1>7, Forwarding
<1>9. current[w] # j
  BY <1>4, <1>8 DEF Clear
<1>10. QED
  BY <1>2, <1>3, <1>4, <1>8, <1>9 DEF MarksInv, SentFirst

\* Counting parts in pairs.
LEMMA Halves ==
    ASSUME NEW n \in Nat
    PROVE  /\ n % 2 = 0 => (n + 1) % 2 = 1 /\ (n + 1 - 1) \div 2 = n \div 2
           /\ n % 2 = 1 => (n + 1) % 2 = 0 /\ (n + 1) \div 2 = (n - 1) \div 2 + 1 /\ n \div 2 = (n - 1) \div 2
           /\ n \div 2 \in Nat
           /\ n % 2 \in {0, 1}
           /\ (0 \div 2) = 0 /\ 0 % 2 = 0
OBVIOUS

\* What send_ctmp_msg() has handed to a connection is a sequence of parts.
LEMMA WireSeq ==
    ASSUME Ground, NEW c \in Clients
    PROVE  wire[c] \in Seq([m : Msg, part : {"header", "data", "garbage"}]) /\ Len(wire[c]) \in Nat
<1>1. wire \in [Clients -> Seq([m : Msg, part : {"header", "data", "garbage"}])]
  BY DEF Ground, TypeOK
<1>2. wire[c] \in Seq([m : Msg, part : {"header", "data", "garbage"}])
  BY <1>1
<1>3. QED
  BY <1>2

\* A worker that has begun to send passes over nothing.
LEMMA NoneSkipped ==
    ASSUME Ground, Ground', FramesInv, [Next]_vars, bad_access' = NULL, NEW w \in Worker,
           client_fd[w] \notin gone, W_CanForward(w), wire[client_fd[w]] # <<>>
    PROVE  step'[w] = "header"
<1> DEFINE c == client_fd[w]
           q == wire[c]
           n == Len(q) \div 2
<1>1. /\ worker_pc[w] = "serving" /\ step[w] = "check"
      /\ current[w] \in 1 .. Len(msg_queue) /\ Due(w) = current[w]
      /\ step'[w] \in {"header", "next"}
      /\ step'[w] = "next" => ~ Newer(current[w], timestamp[w]) \/ is_sent(current[w], w)
  BY Forwarding
<1>2. bad_access = NULL /\ Len(msg_queue) \in Nat /\ Given(w)
  <2>1. Len(msg_queue) \in Nat
    BY DEF Ground, TypeOK
  <2>2. QED
    BY <1>1, <2>1, BadStaysBad DEF Given
<1>3. ~ is_sent(current[w], w)
  BY <1>1, <1>2 DEF FramesInv, NothingSentAhead
<1>4. c \in Clients /\ timestamp[w] = accepted[c]
  BY <1>1 DEF Ground, PoolFacts
<1>5. /\ q \in Seq([m : Msg, part : {"header", "data", "garbage"}])
      /\ 1 \in DOMAIN q /\ Len(q) \in Nat /\ n \in Nat
  <2>1. q \in Seq([m : Msg, part : {"header", "data", "garbage"}])
    BY <1>4, WireSeq
  <2>2. Len(q) \in Nat /\ 1 \in DOMAIN q
    BY <2>1, EmptySeq
  <2>3. QED
    BY <2>1, <2>2, Halves
<1>6. q[1].m + n = current[w]
  BY <1>1, <1>2 DEF FramesInv, DueIsNext
<1>7. q[1].m \in 1 .. Len(msg_queue) /\ NewerThan(q[1].m, accepted[c])
  BY <1>4, <1>5 DEF Ground, DeliveryInv, SentNewer
<1> HIDE DEF c, q, n
<1>8. q[1].m <= current[w]
  BY <1>1, <1>2, <1>5, <1>6, <1>7
<1>9. Units(timestamp[w]) < Time(q[1].m)
  <2>1. accepted[c] \in Stamp
    <3>1. Stamped(c)
      BY <1>2, <1>4 DEF Ground, GivenFacts, Stamped, Pool!Held, c
    <3>2. QED
      BY <1>4, <3>1 DEF Ground, DeliveryInv, StampedInv
  <2>2. msg_queue[q[1].m] \in MsgEntry
    BY <1>7 DEF Ground, TypeOK
  <2>3. msg_queue[q[1].m].timestamp \in Stamp
    BY <2>2 DEF MsgEntry
  <2>4. QED
    BY <1>4, <1>7, <2>1, <2>3, StampFacts, ComparisonIsClockOrder DEF NewerThan, Time
<1>10. Newer(current[w], timestamp[w])
  <2>1. Time(q[1].m) <= Time(current[w]) /\ Time(q[1].m) \in Nat /\ Time(current[w]) \in Nat
    BY <1>1, <1>7, <1>8, OldEntries
  <2>2. Units(timestamp[w]) \in Nat
    BY <1>2, StampsInUse
  <2>3. QED
    BY <1>9, <2>1, <2>2 DEF Newer
<1>11. QED
  BY <1>1, <1>3, <1>10

\* The parts of a message follow one another, and messages too.
LEMMA DueIsNextStep ==
    ASSUME Ground, Ground', MarksInv, FramesInv, [Next]_vars
    PROVE  DueIsNext'
<1> SUFFICES ASSUME bad_access' = NULL, NEW w \in Worker,
                    worker_pc'[w] = "serving", client_fd'[w] \notin gone'
             PROVE  LET q == wire'[client_fd'[w]]
                    IN  IF step'[w] = "data"
                        THEN Len(q) % 2 = 1 /\ q[1].m + (Len(q) - 1) \div 2 = Due(w)'
                        ELSE q # <<>> =>
                               /\ Len(q) % 2 = 0
                               /\ q[1].m + Len(q) \div 2 =
                                    IF step'[w] = "mark" THEN Due(w)' + 1 ELSE Due(w)'
  BY DEF DueIsNext
<1>1. CASE worker_pc[w] # "serving"
  BY <1>1, NewlyServing DEF FramesInv
<1>2. CASE worker_pc[w] = "serving"
  <2> DEFINE Frame == [m : Msg, part : {"header", "data", "garbage"}]
             c == client_fd[w]
             q == wire[c]
             r == wire'[c]
  <2>1. /\ Given(w) /\ bad_access = NULL /\ client_fd'[w] = c /\ c \in Clients
        /\ q \in Seq(Frame) /\ Len(q) \in Nat
    <3>1. c \in Clients /\ client_fd'[w] = c
      BY <1>2, ServingKeeps DEF Ground, PoolFacts
    <3>2. q \in Seq(Frame) /\ Len(q) \in Nat
      BY <3>1, WireSeq
    <3>3. QED
      BY <1>2, <3>1, <3>2, BadStaysBad DEF Given
  <2>2. c \notin gone
    <3>1. gone \subseteq gone'
      BY DEF Next, Environment, Tick, S_InitEntry, DstAccept, PeerGone,
         SpuriousMsgWakeup, SpuriousFdWakeup, otherVars, DstServerThread, DstStep, vars,
         SourceThread, S_Insert, WorkerThread, W_Get, W_AwaitMsg, W_Alive, W_NotAlive,
         W_CanForward, W_SendHeader, W_SendData, W_SendFails, W_MarkSent, W_Next,
         W_SendFailedClose, W_BecomeReady, W_SeesSent, W_SeesNoSent, W_ResetSent, Resume,
         W_Dies, Crash, CleanupThread, C_Get, C_AwaitMsg, C_Check, C_FreeSent, C_FreeMsg, C_Next,
         netVars
    <3>2. QED
      BY <2>1, <3>1
  <2>3. /\ step[w] = "data" => Len(q) % 2 = 1 /\ q[1].m + (Len(q) - 1) \div 2 = Due(w)
        /\ step[w] # "data" /\ q # <<>> =>
             /\ Len(q) % 2 = 0
             /\ q[1].m + Len(q) \div 2 = IF step[w] = "mark" THEN Due(w) + 1 ELSE Due(w)
    BY <1>2, <2>1, <2>2 DEF FramesInv, DueIsNext
  <2>4. /\ step \in [Worker -> StepPC] /\ DueMove(w) /\ Due(w) \in Nat
        /\ step[w] \notin {"reset", "reset_set"}
        /\ step[w] # "get" => current[w] # NULL
    <3>1. DueMove(w) /\ Due(w) \in Nat
      BY DueRange, PlaceStep DEF Ground
    <3>2. QED
      BY <1>2, <3>1 DEF Ground, TypeOK, CursorInv
  <2> SUFFICES /\ step'[w] = "data" => Len(r) % 2 = 1 /\ r[1].m + (Len(r) - 1) \div 2 = Due(w)'
               /\ step'[w] # "data" /\ r # <<>> =>
                    /\ Len(r) % 2 = 0
                    /\ r[1].m + Len(r) \div 2 = IF step'[w] = "mark" THEN Due(w)' + 1 ELSE Due(w)'
    BY <2>1
  <2>5. CASE r # q
    <3>1. W_SendHeader(w) \/ W_SendData(w)
      BY <2>1, <2>5, OwnWire
    <3>2. Due(w)' = Due(w) /\ Due(w) = current[w] /\ current[w] \in Msg
      BY <2>4, <3>1 DEF DueMove, W_SendHeader, W_SendData, W_MarkSent, W_NotAlive, W_CanForward, At, Due,
         GoTo, Ground, TypeOK
    <3>3. PICK f \in Frame : f.m = current[w] /\ r = Append(q, f)
      <4>1. wire \in [Clients -> Seq(Frame)]
        BY DEF Ground, TypeOK
      <4>2. PICK p \in {"header", "data", "garbage"} :
              wire' = [wire EXCEPT ![c] = Append(@, [m |-> current[w], part |-> p])]
        BY <2>2, <3>1 DEF W_SendHeader, W_SendData, Transmit
      <4>3. r = Append(q, [m |-> current[w], part |-> p])
        BY <2>1, <4>1, <4>2
      <4>4. QED
        BY <3>2, <4>3
    <3> HIDE DEF q, r, Frame
    <3>4. /\ Len(r) = Len(q) + 1 /\ r[Len(q) + 1] = f
          /\ \A i \in 1 .. Len(q) : r[i] = q[i]
      BY <2>1, <3>3, OneMorePart
    <3>5. CASE W_SendHeader(w)
      <4>1. step[w] = "header" /\ step'[w] = "data"
        BY <2>4, <3>5 DEF W_SendHeader, At, GoTo
      <4>2. CASE q = <<>>
        <5>1. Len(q) = 0 /\ Len(r) = 1 /\ r[1].m = Due(w)
          BY <3>2, <3>3, <3>4, <4>2
        <5>2. QED
          BY <2>4, <3>2, <4>1, <5>1, Halves
      <4>3. CASE q # <<>>
        <5>1. Len(q) % 2 = 0 /\ q[1].m + Len(q) \div 2 = Due(w)
          BY <2>3, <4>1, <4>3
        <5>2. r[1] = q[1]
          BY <2>1, <3>4, <4>3, EmptySeq
        <5>3. Len(r) % 2 = 1 /\ (Len(r) - 1) \div 2 = Len(q) \div 2
          BY <2>1, <3>4, <5>1, Halves
        <5>4. QED
          BY <3>2, <4>1, <5>1, <5>2, <5>3
      <4>4. QED
        BY <4>2, <4>3
    <3>6. CASE W_SendData(w)
      <4>1. step[w] = "data" /\ step'[w] = "mark"
        BY <2>4, <3>6 DEF W_SendData, At, GoTo
      <4>2. Len(q) % 2 = 1 /\ q[1].m + (Len(q) - 1) \div 2 = Due(w)
        BY <2>3, <4>1
      <4>3. q # <<>>
        BY <4>2, Halves
      <4>4. r[1] = q[1] /\ q[1].m \in Nat
        <5>1. 1 \in 1 .. Len(q)
          BY <2>1, <4>3, EmptySeq
        <5>2. q[1] \in Frame
          BY <2>1, <5>1
        <5>3. QED
          BY <3>4, <5>1, <5>2, ServerAssumption DEF Frame, Msg
      <4>5. Len(r) % 2 = 0 /\ Len(r) \div 2 = (Len(q) - 1) \div 2 + 1
        BY <2>1, <3>4, <4>2, Halves
      <4>6. (Len(q) - 1) \div 2 \in Nat
        BY <2>1, <4>2, Halves
      <4>7. QED
        BY <3>2, <4>1, <4>2, <4>4, <4>5, <4>6
    <3>7. QED
      BY <3>1, <3>5, <3>6
  <2>6. CASE r = q
    <3>1. CASE W_MarkSent(w)
      <4>1. step[w] = "mark" /\ step'[w] = "next" /\ current'[w] = current[w]
        BY <2>4, <3>1 DEF W_MarkSent, At, GoTo
      <4>2. Due(w)' = Due(w) + 1
        BY <2>4, <4>1 DEF Due
      <4>3. QED
        BY <2>3, <2>6, <4>1, <4>2
    <3>2. CASE W_CanForward(w)
      <4>1. /\ step[w] = "check" /\ step'[w] \in {"header", "next"} /\ current'[w] = current[w]
            /\ q # <<>> => step'[w] = "header"
        BY <2>2, <3>2, Forwarding, NoneSkipped DEF W_CanForward
      <4>2. step'[w] = "header" => Due(w)' = Due(w)
        BY <2>4, <4>1 DEF Due
      <4>3. QED
        BY <2>3, <2>6, <4>1, <4>2
    <3>3. CASE ~ W_MarkSent(w) /\ ~ W_CanForward(w)
      <4>1. ~ W_NotAlive(w) /\ ~ W_SendFailedClose(w)
        BY <1>2 DEF W_NotAlive, W_SendFailedClose, Pool!W_Close, Pool!Goto, Ground, PoolFacts, Pool!TypeOK,
           Worker
      <4>2. Due(w)' = Due(w)
        BY <2>4, <3>3, <4>1 DEF DueMove
      <4>3. ~ W_SendHeader(w) /\ ~ W_SendData(w)
        <5>1. ASSUME W_SendHeader(w) \/ W_SendData(w) PROVE \E f \in Frame : r = Append(q, f)
          <6>1. wire \in [Clients -> Seq(Frame)] /\ current[w] \in Msg
            BY <2>4, <5>1 DEF W_SendHeader, W_SendData, At, Ground, TypeOK
          <6>2. PICK p \in {"header", "data", "garbage"} :
                  wire' = [wire EXCEPT ![c] = Append(@, [m |-> current[w], part |-> p])]
            BY <2>2, <5>1 DEF W_SendHeader, W_SendData, Transmit
          <6>3. r = Append(q, [m |-> current[w], part |-> p])
            BY <2>1, <6>1, <6>2
          <6>4. QED
            BY <6>1, <6>3
        <5> HIDE DEF q, r, Frame
        <5>2. \A f \in Frame : Append(q, f) # q
          BY <2>1, OneMorePart
        <5>3. QED
          BY <2>6, <5>1, <5>2
      <4>4. ~ W_SendFails(w)
        <5>1. W_SendFails(w) => step[w] # "get" /\ bad_access' = current[w]
          BY <2>2 DEF W_SendFails, Touch, At
        <5>2. QED
          BY <2>4, <5>1
      <4>5. step'[w] = step[w] \/ (step[w] \notin {"data", "mark"} /\ step'[w] \notin {"data", "mark"})
        <5>1. CASE ~ WorkerThread(w)
          BY <5>1, OthersKeepLoop DEF Ground
        <5>2. CASE WorkerThread(w)
          BY <1>2, <2>4, <3>3, <4>1, <4>3, <4>4, <5>2
             DEF WorkerThread, W_Get, W_AwaitMsg, W_Alive, W_Next, W_BecomeReady, W_SeesSent,
                 W_SeesNoSent, W_ResetSent, Resume, W_Dies, Crash, At, GoTo, loopVars
        <5>3. QED
          BY <5>1, <5>2
      <4>6. QED
        BY <2>3, <2>6, <4>2, <4>5
    <3>4. QED
      BY <3>1, <3>2, <3>3
  <2>7. QED
    BY <2>5, <2>6
<1>3. QED
  BY <1>1, <1>2

\* The part send_ctmp_msg() hands over is the one that follows the last.
LEMMA GaplessStep ==
    ASSUME Ground, Ground', FramesInv, [Next]_vars
    PROVE  GaplessFrames'
<1> DEFINE Part(m, i) == [m |-> m + (i - 1) \div 2, part |-> IF i % 2 = 1 THEN "header" ELSE "data"]
<1> SUFFICES ASSUME bad_access' = NULL, NEW d \in Clients, NEW i \in DOMAIN wire'[d]
             PROVE  wire'[d][i] = Part(wire'[d][1].m, i)
  BY DEF GaplessFrames
<1>1. bad_access = NULL
  BY BadStaysBad
<1>2. \A j \in DOMAIN wire[d] : wire[d][j] = Part(wire[d][1].m, j)
  BY <1>1 DEF FramesInv, GaplessFrames
<1>3. CASE wire'[d] = wire[d]
  BY <1>2, <1>3
<1>4. CASE wire'[d] # wire[d]
  <2> DEFINE Frame == [m : Msg, part : {"header", "data", "garbage"}]
             q == wire[d]
             r == wire'[d]
  <2>1. PICK w \in Worker :
           /\ client_fd[w] \notin gone /\ worker_pc[w] = "serving" /\ current[w] \in Msg
           /\ \/ /\ W_SendHeader(w)
                 /\ wire' = [wire EXCEPT ![client_fd[w]] =
                               Append(@, [m |-> current[w], part |-> "header"])]
              \/ /\ W_SendData(w)
                 /\ wire' = [wire EXCEPT ![client_fd[w]] =
                               Append(@, [m |-> current[w], part |-> "data"])]
    BY <1>4, FrameWriters
  <2>2. wire \in [Clients -> Seq(Frame)]
    BY DEF Ground, TypeOK
  <2>3. client_fd[w] = d
    BY <1>4, <2>1, <2>2
  <2>4. q \in Seq(Frame) /\ Len(q) \in Nat
    BY WireSeq
  <2>5. PICK p \in {"header", "data"} :
           /\ r = Append(q, [m |-> current[w], part |-> p])
           /\ p = "header" => step[w] = "header"
           /\ p = "data" => step[w] = "data"
    BY <2>1, <2>2, <2>3 DEF W_SendHeader, W_SendData, At
  <2>6. Due(w) = current[w] /\ current[w] \in Nat
    <3>1. step[w] \in {"header", "data"}
      BY <2>5
    <3>2. current[w] # NULL
      BY <2>1, <3>1 DEF Ground, CursorInv
    <3>3. QED
      BY <2>1, <3>1, <3>2, ServerAssumption DEF Due, Msg
  <2>7. /\ step[w] = "data" => Len(q) % 2 = 1 /\ q[1].m + (Len(q) - 1) \div 2 = current[w]
        /\ step[w] = "header" /\ q # <<>> =>
             Len(q) % 2 = 0 /\ q[1].m + Len(q) \div 2 = current[w]
    BY <1>1, <2>1, <2>3, <2>6 DEF FramesInv, DueIsNext
  <2>8. [m |-> current[w], part |-> p] \in Frame
    BY <2>1
  <2> DEFINE f == [m |-> current[w], part |-> p]
  <2>9. f.m = current[w] /\ f.part = p /\ f = [m |-> current[w], part |-> p] /\ f \in Frame /\ r = Append(q, f)
    BY <2>5, <2>8
  <2>10. i \in DOMAIN r /\ \A j \in DOMAIN q : q[j] = Part(q[1].m, j)
    BY <1>2
  <2> HIDE DEF q, r, Frame, f, Part
  <2>11. /\ Len(r) = Len(q) + 1 /\ r[Len(q) + 1] = f
         /\ DOMAIN q = 1 .. Len(q) /\ DOMAIN r = 1 .. Len(q) + 1
         /\ \A j \in 1 .. Len(q) : r[j] = q[j]
    BY <2>4, <2>9, OneMorePart
  <2>12. CASE i \in 1 .. Len(q)
    <3>1. 1 \in 1 .. Len(q)
      BY <2>4, <2>12
    <3>2. QED
      BY <2>10, <2>11, <2>12, <3>1 DEF q, r
  <2>13. CASE i = Len(q) + 1
    <3>1. f = Part(r[1].m, i)
      <4>1. CASE q = <<>>
        <5>1. Len(q) = 0 /\ i = 1 /\ r[1].m = current[w]
          BY <2>9, <2>11, <2>13, <4>1
        <5>2. p = "header"
          BY <2>5, <2>7, <5>1, Halves
        <5>3. (i - 1) \div 2 = 0 /\ i % 2 = 1
          BY <5>1, Halves
        <5>4. QED
          BY <2>6, <2>9, <5>1, <5>2, <5>3 DEF Part
      <4>2. CASE q # <<>>
        <5>1. r[1] = q[1]
          BY <2>4, <2>11, <4>2, EmptySeq
        <5>2. CASE p = "header"
          <6>1. Len(q) % 2 = 0 /\ q[1].m + Len(q) \div 2 = current[w]
            BY <2>5, <2>7, <4>2, <5>2
          <6>2. i % 2 = 1 /\ (i - 1) \div 2 = Len(q) \div 2
            BY <2>4, <2>13, <6>1, Halves
          <6>3. QED
            BY <2>9, <5>1, <5>2, <6>1, <6>2 DEF Part
        <5>3. CASE p = "data"
          <6>1. Len(q) % 2 = 1 /\ q[1].m + (Len(q) - 1) \div 2 = current[w]
            BY <2>5, <2>7, <5>3
          <6>2. i % 2 = 0 /\ (i - 1) \div 2 = (Len(q) - 1) \div 2
            BY <2>4, <2>13, <6>1, Halves
          <6>3. QED
            BY <2>9, <5>1, <5>3, <6>1, <6>2 DEF Part
        <5>4. QED
          BY <5>2, <5>3
      <4>3. QED
        BY <4>1, <4>2
    <3>2. QED
      BY <2>11, <2>13, <3>1 DEF r
  <2>14. QED
    BY <2>4, <2>10, <2>11, <2>12, <2>13
<1>5. QED
  BY <1>3, <1>4

\* In every state of every execution, each worker is due to send its client the
\* next message and nothing else (run_dst_worker()).
THEOREM FramesHold == Spec => []FramesInv
<1>1. Init => FramesInv
  <2> SUFFICES ASSUME Init PROVE FramesInv
    OBVIOUS
  <2>1. \A w \in Worker : worker_pc[w] # "serving"
    BY DEF Init, Pool!Init, Worker
  <2>2. \A c \in Clients : wire[c] = <<>> /\ DOMAIN wire[c] = {}
    BY DEF Init
  <2>3. NothingSentAhead /\ OneServer /\ DueIsNext
    BY <2>1, <2>2 DEF NothingSentAhead, OneServer, DueIsNext
  <2>4. GaplessFrames
    BY <2>2 DEF GaplessFrames
  <2>5. QED
    BY <2>3, <2>4 DEF FramesInv
<1>2. Ground /\ Ground' /\ MarksInv /\ FramesInv /\ [Next]_vars => FramesInv'
  BY NothingSentAheadStep, OneServerStep, DueIsNextStep, GaplessStep DEF FramesInv
<1>3. QED
  BY <1>1, <1>2, GroundHolds, MarksHold, PTL DEF Spec

\* What a client is sent is whole messages in queue order, each header with its
\* own data, none repeated and none left out in between, until a worker touches
\* freed data: for any number of workers, clients and messages, although workers
\* are reused and share one bitmask per message (run_dst_worker(), can_forward()).
THEOREM FramesAreGapless == Spec => []GaplessFrames
<1>1. FramesInv => GaplessFrames
  BY DEF FramesInv
<1>2. QED
  BY <1>1, FramesHold, PTL

-----------------------------------------------------------------------------
(* The server implements Broadcast: who writes to each part of its state.  *)

\* The times of the entries, as the sequence Broadcast has them.
LEMMA PublishedFacts ==
    ASSUME TypeOK
    PROVE  /\ Published \in Seq(Nat) /\ Len(Published) = Len(msg_queue) /\ Len(msg_queue) \in Nat
           /\ DOMAIN Published = 1 .. Len(msg_queue)
           /\ \A m \in 1 .. Len(msg_queue) : Published[m] = Time(m)
<1>1. msg_queue \in Seq(MsgEntry) /\ Len(msg_queue) \in Nat /\ DOMAIN msg_queue = 1 .. Len(msg_queue)
  BY DEF TypeOK
<1>2. \A m \in 1 .. Len(msg_queue) : Time(m) \in Nat
  BY TimeTypes
<1>3. Published = [m \in 1 .. Len(msg_queue) |-> Time(m)]
  BY <1>1 DEF Published, Time
<1>4. QED
  BY <1>1, <1>2, <1>3

\* run_src_server() is the only thread that inserts an entry; it does so at the end
\* of the queue, and no step changes the time of one.
LEMMA PublishedStep ==
    ASSUME Ground, Ground', [Next]_vars, Published' # Published
    PROVE  S_Insert /\ Published' = Append(Published, Units(src_ts)) /\ Units(src_ts) \in Clock
<1>1. /\ \A m \in 1 .. Len(msg_queue) : m \in 1 .. Len(msg_queue') /\ Time(m)' = Time(m)
      /\ \A m \in 1 .. Len(msg_queue') : m \notin 1 .. Len(msg_queue) =>
           S_Insert /\ m = Len(msg_queue) + 1 /\ Time(m)' = Units(src_ts)
  BY QueueStep DEF Ground
<1>2. /\ Published \in Seq(Nat) /\ Len(Published) = Len(msg_queue) /\ Len(msg_queue) \in Nat
      /\ \A m \in 1 .. Len(msg_queue) : Published[m] = Time(m)
  BY PublishedFacts DEF Ground
<1>3. \A m \in 1 .. Len(msg_queue') : m \notin 1 .. Len(msg_queue) =>
        Units(src_ts) \in Clock /\ Units(src_ts) \in Nat
  <2> SUFFICES ASSUME S_Insert PROVE Units(src_ts) \in Clock /\ Units(src_ts) \in Nat
    BY <1>1
  <2>1. src_ts \in Stamp
    BY DEF S_Insert, Ground, CursorInv
  <2>2. PICK t \in Clock : src_ts = get_clock_time(t)
    BY <2>1 DEF Stamp
  <2>3. t \in Nat
    BY ServerAssumption DEF Clock
  <2>4. QED
    BY <2>2, <2>3, ClockReading
<1>4. /\ Published' \in Seq(Nat) /\ Len(Published') = Len(msg_queue') /\ Len(msg_queue') \in Nat
      /\ \A m \in 1 .. Len(msg_queue') : Published'[m] = Time(m)'
  <2>1. Len(msg_queue') \in Nat /\ DOMAIN msg_queue' = 1 .. Len(msg_queue')
    BY DEF Ground, TypeOK
  <2>2. Published' = [m \in 1 .. Len(msg_queue') |-> Time(m)']
    BY <2>1 DEF Published, Time
  <2>3. \A m \in 1 .. Len(msg_queue') : Time(m)' \in Nat
    BY <1>1, <1>3, TimeTypes DEF Ground
  <2>4. QED
    BY <2>1, <2>2, <2>3
<1>5. PICK k \in 1 .. Len(msg_queue') : k \notin 1 .. Len(msg_queue)
  <2> SUFFICES ASSUME 1 .. Len(msg_queue') \subseteq 1 .. Len(msg_queue)
               PROVE  Published' = Published
    OBVIOUS
  <2>1. Len(msg_queue') = Len(msg_queue)
    BY <1>1, <1>2, <1>4
  <2>2. \A m \in 1 .. Len(Published') : Published'[m] = Published[m]
    BY <1>1, <1>2, <1>4, <2>1
  <2>3. QED
    BY <1>2, <1>4, <2>1, <2>2, SeqEqual
<1>6. S_Insert /\ k = Len(msg_queue) + 1 /\ Time(k)' = Units(src_ts)
  BY <1>1, <1>5
<1>7. Len(msg_queue') = k
  <2> DEFINE n == Len(msg_queue')
  <2>1. n \in Nat /\ k \in 1 .. n
    BY <1>4, <1>5
  <2>2. n \notin 1 .. Len(msg_queue) => n = Len(msg_queue) + 1
    BY <1>1, <2>1
  <2> HIDE DEF n
  <2>3. QED
    BY <1>2, <1>6, <2>1, <2>2 DEF n
<1>8. Published' = Append(Published, Units(src_ts))
  <2> DEFINE p == Published
             r == Append(p, Units(src_ts))
  <2>1. /\ r \in Seq(Nat) /\ Len(r) = Len(p) + 1 /\ r[Len(p) + 1] = Units(src_ts)
        /\ \A m \in 1 .. Len(p) : r[m] = p[m]
    BY <1>2, <1>3, <1>5, AppendProperties
  <2> HIDE DEF r
  <2>2. Published'[k] = r[k]
    BY <1>2, <1>4, <1>6, <2>1
  <2>3. \A m \in 1 .. Len(msg_queue) : Published'[m] = r[m]
    BY <1>1, <1>2, <1>4, <2>1
  <2>4. \A m \in 1 .. k : m = k \/ m \in 1 .. Len(msg_queue)
    BY <1>2, <1>6
  <2>5. \A m \in 1 .. Len(Published') : Published'[m] = r[m]
    BY <1>4, <1>7, <2>2, <2>3, <2>4
  <2>6. QED
    BY <1>2, <1>4, <1>6, <1>7, <2>1, <2>5, SeqEqual DEF r
<1>9. QED
  BY <1>3, <1>5, <1>6, <1>8

\* A client joins when run_dst_server() stamps it.
LEMMA JoinedStep ==
    ASSUME Ground, [Next]_vars, JoinedAt' # JoinedAt
    PROVE  /\ new_fd \in Clients /\ new_fd \notin DOMAIN JoinedAt
           /\ JoinedAt' = [d \in DOMAIN JoinedAt \cup {new_fd} |->
                            IF d = new_fd THEN clock ELSE JoinedAt[d]]
           /\ UNCHANGED otherVars /\ UNCHANGED conn
<1>1. DOMAIN JoinedAt = {c \in Clients : Stamped(c)} /\ DOMAIN JoinedAt' = {c \in Clients : Stamped(c)'}
  BY DEF JoinedAt
<1>2. \A c \in Clients : Stamped(c) => Stamped(c)' /\ accepted'[c] = accepted[c]
  BY StampedStep DEF Ground
<1>3. PICK c \in Clients : Stamped(c)' /\ ~ Stamped(c)
  <2> SUFFICES ASSUME \A c \in Clients : Stamped(c)' => Stamped(c)
               PROVE  JoinedAt' = JoinedAt
    OBVIOUS
  <2>1. \A c \in Clients : Stamped(c)' <=> Stamped(c)
    BY <1>2
  <2>2. {c \in Clients : Stamped(c)'} = {c \in Clients : Stamped(c)}
    BY <2>1
  <2>3. QED
    BY <1>2, <2>2 DEF JoinedAt
<1>4. Pool!D_Stamp(Now)
  <2>1. ~ UNCHANGED Pool!poolVars
    BY <1>3 DEF Pool!poolVars, Pool!dstVars, Pool!connVars, Stamped
  <2>2. conn \in [Clients -> {"new", "open", "closed"}]
    BY DEF Ground, PoolFacts, Pool!TypeOK
  <2>3. ASSUME NEW d \in Clients PROVE ~ Pool!D_Accept(d)
    BY <1>3, <2>2 DEF Pool!D_Accept, Stamped
  <2>4. ~ Pool!DstStep
    BY <1>3 DEF Pool!DstStep, Pool!D_FindIdle, Pool!D_FindBusy, Pool!connVars,
       Pool!D_FindNone, Pool!D_Backoff, Pool!D_Dispatch, Pool!D_Init, Pool!D_InitBit, Pool!D_Create,
       Pool!D_Assert, Pool!D_WakeLock, Pool!D_WakeFd, Pool!D_WakeBit, Pool!D_WakeStamp, Stamped
  <2>5. ASSUME NEW w \in Worker PROVE ~ Pool!W_Close(w)
    BY <1>3, <2>2 DEF Pool!W_Close, Pool!dstVars, Stamped, Ground, PoolFacts
  <2>6. ASSUME NEW w \in Worker PROVE ~ Pool!W_Spurious(w) /\ ~ Pool!WorkerStep(w)
    BY <1>3 DEF Pool!W_Spurious, Pool!WorkerStep, Pool!W_Lock, Pool!W_SetReady, Pool!W_ClearBit,
       Pool!W_Wait, Pool!W_LeaveWait, Pool!W_Reacquire, Pool!W_Resume, Pool!connVars, Pool!dstVars, Stamped
  <2>7. QED
    BY <2>1, <2>3, <2>4, <2>5, <2>6, PoolMoves DEF PoolMove
<1>5. /\ dst_pc = "stamp" /\ dst_pc' = "find" /\ UNCHANGED <<new_fd, conn>>
      /\ new_fd \in Clients /\ conn[new_fd] = "open"
      /\ accepted' = [accepted EXCEPT ![new_fd] = Now]
      /\ accepted \in [Clients -> Stamp \cup {NoStamp}]
  BY <1>4 DEF Pool!D_Stamp, Ground, PoolFacts, Pool!TypeOK
<1>6. UNCHANGED otherVars
  BY <1>5, DstMoves
<1>7. /\ ~ Stamped(new_fd) /\ Stamped(new_fd)' /\ accepted'[new_fd] = Now
      /\ \A d \in Clients : d # new_fd => (Stamped(d)' <=> Stamped(d)) /\ accepted'[d] = accepted[d]
  BY <1>5 DEF Stamped
<1>8. Units(Now) = clock
  BY TimeTypes DEF Ground
<1>9. {d \in Clients : Stamped(d)'} = {d \in Clients : Stamped(d)} \cup {new_fd}
  BY <1>5, <1>7
<1>10. JoinedAt' = [d \in DOMAIN JoinedAt \cup {new_fd} |->
                     IF d = new_fd THEN clock ELSE JoinedAt[d]]
  BY <1>1, <1>5, <1>7, <1>8, <1>9 DEF JoinedAt
<1>11. QED
  BY <1>1, <1>5, <1>6, <1>7, <1>10

\* A client leaves when run_dst_worker() closes its descriptor.
LEMMA ClosedStep ==
    ASSUME Ground, [Next]_vars, Closed' # Closed
    PROVE  \E w \in Worker :
             /\ W_NotAlive(w) \/ W_SendFailedClose(w)
             /\ worker_pc[w] = "serving" /\ Closed' = Closed \cup {client_fd[w]}
<1>1. conn \in [Clients -> {"new", "open", "closed"}] /\ worker_pc \in [Worker -> Pool!WorkerPC]
  BY DEF Ground, PoolFacts, Pool!TypeOK, Worker
<1>2. PICK w \in Worker : Pool!W_Close(w)
  BY <1>1, PoolMoves DEF Closed, PoolMove, Pool!D_Accept, Pool!D_Stamp, Pool!W_Spurious,
     Pool!WorkerStep, Pool!W_Lock, Pool!W_SetReady, Pool!W_ClearBit, Pool!W_Wait, Pool!W_LeaveWait,
     Pool!W_Reacquire, Pool!W_Resume, Pool!connVars, Pool!poolVars, Pool!DstStep, Pool!D_FindIdle,
     Pool!D_FindBusy, Pool!D_FindNone, Pool!D_Backoff, Pool!D_Dispatch, Pool!D_Init,
     Pool!D_InitBit, Pool!D_Create, Pool!D_Assert, Pool!D_WakeLock, Pool!D_WakeFd,
     Pool!D_WakeBit, Pool!D_WakeStamp
<1>3. /\ worker_pc[w] = "serving" /\ worker_pc'[w] = "lock"
      /\ conn' = [conn EXCEPT ![client_fd[w]] = "closed"]
  BY <1>1, <1>2 DEF Pool!W_Close, Pool!Goto
<1>4. W_NotAlive(w) \/ W_SendFailedClose(w)
  BY <1>3, ClosingStep DEF Ground
<1>5. client_fd[w] \in Clients
  BY <1>3 DEF Ground, PoolFacts
<1>6. QED
  BY <1>1, <1>3, <1>4, <1>5 DEF Closed

\* A worker that is in send_ctmp_msg() sends to a client that is there, and sends it
\* something newer.
LEMMA SenderFacts ==
    ASSUME Ground, NEW w \in Worker, At(w, "header") \/ At(w, "data")
    PROVE  /\ client_fd[w] \in Clients
           /\ client_fd[w] \in DOMAIN JoinedAt /\ client_fd[w] \notin Closed
           /\ current[w] \in Msg /\ current[w] \in DOMAIN Published
           /\ Due(w) = current[w]
           /\ JoinedAt[client_fd[w]] < Published[current[w]]
<1> DEFINE c == client_fd[w]
           m == current[w]
<1>1. /\ worker_pc[w] = "serving" /\ step[w] \in {"header", "data"}
      /\ c \in Clients /\ conn[c] = "open" /\ timestamp[w] = accepted[c] /\ Stamped(c)
  BY DEF At, Ground, PoolFacts, Stamped, Pool!Held
<1>2. m \in Msg /\ m \in 1 .. Len(msg_queue) /\ Due(w) = m
  BY <1>1 DEF Ground, TypeOK, CursorInv, NULL, Due
<1>3. Units(accepted[c]) < Time(m)
  <2>1. accepted[c] \in Stamp
    BY <1>1 DEF Ground, DeliveryInv, StampedInv
  <2>2. msg_queue[m] \in MsgEntry
    BY <1>2 DEF Ground, TypeOK
  <2>3. msg_queue[m].timestamp \in Stamp
    BY <2>2 DEF MsgEntry
  <2>4. NewerThan(m, accepted[c])
    BY <1>1 DEF Ground, DeliveryInv, SendsNewer
  <2>5. QED
    BY <2>1, <2>3, <2>4, StampFacts, ComparisonIsClockOrder DEF NewerThan, Time
<1>4. DOMAIN Published = 1 .. Len(msg_queue) /\ Published[m] = Time(m)
  BY <1>2, PublishedFacts DEF Ground
<1>5. c \in DOMAIN JoinedAt /\ JoinedAt[c] = Units(accepted[c]) /\ c \notin Closed
  BY <1>1 DEF JoinedAt, Closed
<1>6. QED
  BY <1>1, <1>2, <1>3, <1>4, <1>5

\* What it sends is what follows what its client was sent last.
LEMMA SenderInTurn ==
    ASSUME Ground, FramesInv, bad_access = NULL, NEW w \in Worker, client_fd[w] \notin gone
    PROVE  /\ At(w, "header") => Cast!IsNext(client_fd[w], current[w], "header")
           /\ At(w, "data") => Cast!IsNext(client_fd[w], current[w], "data")
<1> SUFFICES ASSUME At(w, "header") \/ At(w, "data")
             PROVE  /\ At(w, "header") => Cast!IsNext(client_fd[w], current[w], "header")
                    /\ At(w, "data") => Cast!IsNext(client_fd[w], current[w], "data")
  OBVIOUS
<1> DEFINE c == client_fd[w]
           m == current[w]
           q == wire[c]
           n == Len(q)
           k == q[1].m
<1>1. worker_pc[w] = "serving" /\ step[w] \in {"header", "data"} /\ Due(w) = m /\ c \in Clients
  BY SenderFacts DEF At
<1>2. /\ step[w] = "data" => n % 2 = 1 /\ k + (n - 1) \div 2 = m
      /\ step[w] = "header" /\ q # <<>> => n % 2 = 0 /\ k + n \div 2 = m
  BY <1>1 DEF FramesInv, DueIsNext
<1>3. q \in Seq([m : Msg, part : {"header", "data", "garbage"}]) /\ n \in Nat
  BY <1>1, WireSeq
<1>4. q # <<>> => n \in 1 .. n /\ 1 \in 1 .. n /\ n \in DOMAIN q /\ k \in Nat /\ m \in Nat
  <2> SUFFICES ASSUME q # <<>> PROVE n \in 1 .. n /\ 1 \in 1 .. n /\ n \in DOMAIN q /\ k \in Nat /\ m \in Nat
    OBVIOUS
  <2>1. n \in 1 .. n /\ 1 \in 1 .. n /\ n \in DOMAIN q
    BY <1>3, EmptySeq
  <2>2. q[1] \in [m : Msg, part : {"header", "data", "garbage"}]
    <3> DEFINE Frame == [m : Msg, part : {"header", "data", "garbage"}]
    <3>1. q \in Seq(Frame) /\ 1 \in 1 .. Len(q)
      BY <1>3, <2>1
    <3> HIDE DEF q, Frame
    <3>2. q[1] \in Frame
      BY <3>1, ElementOfSeq
    <3>3. QED
      BY <3>2 DEF q, Frame
  <2>3. k \in Msg /\ m \in Msg
    BY <2>2, SenderFacts
  <2>4. QED
    BY <2>1, <2>3, ServerAssumption DEF Msg
<1>5. q # <<>> => q[n] = [m |-> k + (n - 1) \div 2, part |-> IF n % 2 = 1 THEN "header" ELSE "data"]
  BY <1>1, <1>4 DEF FramesInv, GaplessFrames
<1> HIDE DEF c, m, q, n, k
<1>6. ASSUME step[w] = "header"
      PROVE  IF q = <<>> THEN TRUE ELSE q[n] = [m |-> m - 1, part |-> "data"]
  <2> SUFFICES ASSUME q # <<>> PROVE q[n] = [m |-> m - 1, part |-> "data"]
    OBVIOUS
  <2>1. n \in Nat /\ n # 0 /\ n % 2 = 0 /\ k + n \div 2 = m
    BY <1>2, <1>4, <1>6
  <2>2. (n - 1) \div 2 = n \div 2 - 1 /\ n \div 2 \in Nat
    BY <2>1
  <2>3. k + (n - 1) \div 2 = m - 1
    BY <1>4, <2>1, <2>2
  <2>4. QED
    BY <1>5, <2>1, <2>3
<1>7. ASSUME step[w] = "data"
      PROVE  IF q = <<>> THEN FALSE ELSE q[n] = [m |-> m, part |-> "header"]
  <2>1. n % 2 = 1 /\ k + (n - 1) \div 2 = m
    BY <1>2, <1>7
  <2>2. q # <<>>
    BY <2>1, EmptySeq DEF n
  <2>3. QED
    BY <1>5, <2>1, <2>2
<1>8. QED
  BY <1>6, <1>7 DEF Cast!IsNext, At, c, m, q, n

\* Bytes are handed to a connection by send_ctmp_msg() only: what Broadcast lets the
\* server send.
LEMMA SendStep ==
    ASSUME Ground, FramesInv, [Next]_vars, wire' # wire
    PROVE  \E c \in Clients, m \in DOMAIN Published, p \in {"header", "data", "garbage"} :
             Cast!Send(c, m, p)
<1>1. bad_access # NULL => bad_access' # NULL
  BY BadStaysBad
<1>2. \E w \in Worker, p \in {"header", "data", "garbage"} :
        /\ At(w, "header") \/ At(w, "data")
        /\ wire' = [wire EXCEPT ![client_fd[w]] = Append(@, [m |-> current[w], part |-> p])]
        /\ UNCHANGED <<poolVars, msg_queue>>
        /\ bad_access' = NULL => Cast!IsNext(client_fd[w], current[w], p)
  <2>1. CASE bad_access' # NULL
    BY <2>1, WireWriters
  <2>2. CASE bad_access' = NULL
    <3>1. PICK w \in Worker :
             /\ client_fd[w] \notin gone /\ UNCHANGED <<poolVars, msg_queue, gone>>
             /\ \/ /\ W_SendHeader(w)
                   /\ wire' = [wire EXCEPT ![client_fd[w]] =
                                 Append(@, [m |-> current[w], part |-> "header"])]
                \/ /\ W_SendData(w)
                   /\ wire' = [wire EXCEPT ![client_fd[w]] =
                                 Append(@, [m |-> current[w], part |-> "data"])]
      BY <2>2, FrameWriters
    <3>2. /\ At(w, "header") => Cast!IsNext(client_fd[w], current[w], "header")
          /\ At(w, "data") => Cast!IsNext(client_fd[w], current[w], "data")
      BY <1>1, <2>2, <3>1, SenderInTurn
    <3>3. /\ W_SendHeader(w) => At(w, "header")
          /\ W_SendData(w) => At(w, "data")
      BY DEF W_SendHeader, W_SendData
    <3>4. CASE wire' = [wire EXCEPT ![client_fd[w]] =
                          Append(@, [m |-> current[w], part |-> "header"])]
               /\ At(w, "header")
      BY <3>1, <3>2, <3>4
    <3>5. CASE wire' = [wire EXCEPT ![client_fd[w]] =
                          Append(@, [m |-> current[w], part |-> "data"])]
               /\ At(w, "data")
      BY <3>1, <3>2, <3>5
    <3>6. QED
      BY <3>1, <3>3, <3>4, <3>5
  <2>3. QED
    BY <2>1, <2>2
<1>3. PICK w \in Worker, p \in {"header", "data", "garbage"} :
        /\ At(w, "header") \/ At(w, "data")
        /\ wire' = [wire EXCEPT ![client_fd[w]] = Append(@, [m |-> current[w], part |-> p])]
        /\ UNCHANGED <<poolVars, msg_queue>>
        /\ bad_access' = NULL => Cast!IsNext(client_fd[w], current[w], p)
  BY <1>2
<1>4. /\ client_fd[w] \in Clients
      /\ client_fd[w] \in DOMAIN JoinedAt /\ client_fd[w] \notin Closed
      /\ current[w] \in DOMAIN Published
      /\ JoinedAt[client_fd[w]] < Published[current[w]]
  BY <1>3, SenderFacts
<1>5. UNCHANGED <<Published, JoinedAt, Closed>>
  BY <1>3 DEF poolVars, Published, JoinedAt, Closed, Stamped
<1>6. Cast!Send(client_fd[w], current[w], p)
  BY <1>1, <1>3, <1>4, <1>5 DEF Cast!Send, Cast!Present
<1>7. QED
  BY <1>4, <1>6

\* Each step of each thread is a step of Broadcast, or changes nothing of it.
LEMMA BroadcastStep ==
    ASSUME Ground, Ground', FramesInv, [Next]_vars
    PROVE  [Cast!Next]_(Cast!castVars)
<1>1. bad_access # NULL => bad_access' # NULL
  BY BadStaysBad
<1>2. CASE wire' # wire
  BY <1>2, SendStep DEF Cast!Next
<1>3. CASE wire' = wire /\ JoinedAt' # JoinedAt
  <2>1. /\ new_fd \in Clients /\ new_fd \notin DOMAIN JoinedAt
        /\ JoinedAt' = [d \in DOMAIN JoinedAt \cup {new_fd} |->
                         IF d = new_fd THEN clock ELSE JoinedAt[d]]
        /\ UNCHANGED otherVars /\ UNCHANGED conn
    BY <1>3, JoinedStep
  <2>2. UNCHANGED <<Published, Closed, bad_access>>
    BY <2>1 DEF otherVars, queueVars, faultVars, Published, Closed
  <2>3. clock \in Clock /\ \A m \in DOMAIN Published : Published[m] <= clock
    BY PublishedFacts DEF Ground, TypeOK, OrderInv
  <2>4. Cast!Join(new_fd, clock)
    BY <1>3, <2>1, <2>2, <2>3 DEF Cast!Join
  <2>5. QED
    BY <2>1, <2>3, <2>4 DEF Cast!Next
<1>4. CASE wire' = wire /\ JoinedAt' = JoinedAt /\ Closed' # Closed
  <2>1. PICK w \in Worker :
          /\ W_NotAlive(w) \/ W_SendFailedClose(w)
          /\ worker_pc[w] = "serving" /\ Closed' = Closed \cup {client_fd[w]}
    BY <1>4, ClosedStep
  <2>2. UNCHANGED <<Published, bad_access>>
    BY <2>1 DEF W_NotAlive, W_SendFailedClose, queueVars, faultVars, Published
  <2>3. client_fd[w] \in Clients /\ conn[client_fd[w]] = "open" /\ Stamped(client_fd[w])
    BY <2>1 DEF Ground, PoolFacts, Stamped, Pool!Held
  <2>4. Cast!Present(client_fd[w])
    BY <2>3 DEF Cast!Present, JoinedAt, Closed
  <2>5. Cast!Leave(client_fd[w])
    BY <1>4, <2>1, <2>2, <2>4 DEF Cast!Leave
  <2>6. QED
    BY <2>3, <2>5 DEF Cast!Next
<1>5. CASE wire' = wire /\ JoinedAt' = JoinedAt /\ Closed' = Closed /\ Published' # Published
  <2>1. S_Insert /\ Published' = Append(Published, Units(src_ts)) /\ Units(src_ts) \in Clock
    BY <1>5, PublishedStep
  <2>2. UNCHANGED bad_access
    BY <2>1 DEF S_Insert, faultVars
  <2>3. \A m \in DOMAIN Published : Published[m] <= Units(src_ts)
    BY <2>1, PublishedFacts DEF Ground, OrderInv, S_Insert
  <2>4. Cast!Publish(Units(src_ts))
    BY <1>5, <2>1, <2>2, <2>3 DEF Cast!Publish
  <2>5. QED
    BY <2>1, <2>4 DEF Cast!Next
<1>6. CASE wire' = wire /\ JoinedAt' = JoinedAt /\ Closed' = Closed /\ Published' = Published
  <2>1. CASE bad_access' # NULL
    BY <1>6, <2>1 DEF Cast!Next, Cast!Break
  <2>2. CASE bad_access' = NULL
    BY <1>1, <1>6, <2>2 DEF Cast!castVars
  <2>3. QED
    BY <2>1, <2>2
<1>7. QED
  BY <1>2, <1>3, <1>4, <1>5, <1>6

\* The server starts as Broadcast does.
LEMMA BroadcastInit == Init => Cast!Init
<1> SUFFICES ASSUME Init PROVE Cast!Init
  OBVIOUS
<1>1. msg_queue = <<>> /\ wire = [c \in Clients |-> <<>>] /\ bad_access = NULL
  BY DEF Init
<1>2. \A c \in Clients : conn[c] = "new"
  BY DEF Init, Pool!Init
<1>3. Published = <<>>
  BY <1>1 DEF Published
<1>4. JoinedAt = [c \in {} |-> 0]
  <2>1. {d \in Clients : Stamped(d)} = {}
    BY <1>2 DEF Stamped
  <2>2. QED
    BY <2>1 DEF JoinedAt
<1>5. Closed = {}
  BY <1>2 DEF Closed
<1>6. QED
  BY <1>1, <1>3, <1>4, <1>5 DEF Cast!Init

\* The whole server implements Broadcast, for every number of workers, clients and
\* messages, every TTL and every width of int and mask: all its threads, cursors,
\* sent bits, hand-overs and expiry come down to messages that are published in the
\* order of their times, clients that join and leave, and for each client, from the
\* first message it is sent on, every one, whole, in order, once and newer than the
\* client, until freed data is used.
THEOREM ServerImplementsBroadcast == Spec => ImplementsBroadcast
<1>1. Init => Cast!Init
  BY BroadcastInit
<1>2. Ground /\ Ground' /\ FramesInv /\ [Next]_vars => [Cast!Next]_(Cast!castVars)
  BY BroadcastStep
<1>3. QED
  BY <1>1, <1>2, GroundHolds, FramesHold, PTL DEF Spec, ImplementsBroadcast, Cast!Spec
=============================================================================
