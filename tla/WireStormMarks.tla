--------------------------- MODULE WireStormMarks ---------------------------
(***************************************************************************)
(* The `sent` bits of the queue.  A bit belongs to a worker, not to a      *)
(* client, and because an int shift wraps it may belong to several workers *)
(* (lib/bitmask.c); a worker finds bits that were set for other clients,   *)
(* and resets only one of them when it gets a new client.  The invariant   *)
(* says in which pattern the bits ahead of a worker are set.               *)
(***************************************************************************)
EXTENDS WireStormDelivery

-----------------------------------------------------------------------------
(* The order of the queue.                                                 *)

\* When init_msg_entry() stamped entry m; can_forward(), first half, in numbers.
Time(m) == Units(msg_queue[m].timestamp)
Newer(m, ts) == Units(ts) < Time(m)

\* Messages are queued in the order of their timestamps, and nothing is stamped
\* later than now.
OrderInv ==
    /\ \A i, j \in 1 .. Len(msg_queue) : i <= j => Time(i) <= Time(j)
    /\ \A i \in 1 .. Len(msg_queue) : Time(i) <= clock
    /\ src_pc = "insert" =>
         /\ Units(src_ts) <= clock
         /\ \A i \in 1 .. Len(msg_queue) : Time(i) <= Units(src_ts)
    /\ \A c \in Clients : Stamped(c) => Units(accepted[c]) <= clock

\* Entries keep their time, and only the source thread adds one.
LEMMA QueueStep ==
    ASSUME TypeOK, TypeOK', CursorInv, [Next]_vars
    PROVE  /\ \A m \in 1 .. Len(msg_queue) : m \in 1 .. Len(msg_queue') /\ Time(m)' = Time(m)
           /\ \A m \in 1 .. Len(msg_queue') : m \notin 1 .. Len(msg_queue) =>
                S_Insert /\ m = Len(msg_queue) + 1 /\ Time(m)' = Units(src_ts)
<1>1. msg_queue \in Seq(MsgEntry) /\ Len(msg_queue) \in Nat /\ Len(msg_queue') \in Nat
  BY DEF TypeOK
<1>2. \A m \in 1 .. Len(msg_queue) : m \in 1 .. Len(msg_queue') /\ Time(m)' = Time(m)
  <2>1. EntriesStay
    BY EntriesStayStep
  <2>2. QED
    BY <1>1, <2>1 DEF EntriesStay, Time
<1>3. ASSUME NEW m \in 1 .. Len(msg_queue'), m \notin 1 .. Len(msg_queue)
      PROVE  S_Insert /\ m = Len(msg_queue) + 1 /\ Time(m)' = Units(src_ts)
  <2>1. ASSUME NEW w \in Worker PROVE ~ W_MarkSent(w) /\ ~ W_ResetSent(w)
    <3> SUFFICES ASSUME W_MarkSent(w) \/ W_ResetSent(w) PROVE FALSE
      OBVIOUS
    <3>1. current[w] \in 1 .. Len(msg_queue)
      <4>1. step[w] # "get"
        BY DEF W_MarkSent, W_ResetSent, At
      <4>2. QED
        BY <1>1, <4>1 DEF CursorInv, NULL
    <3>2. Kept(msg_queue, msg_queue')
      BY <3>1, SetSentFacts DEF W_MarkSent, W_ResetSent
    <3>3. QED
      BY <1>3, <3>2 DEF Kept
  <2>2. S_Insert
    BY <1>3, <2>1, QueueWriters, FreeFacts
  <2> DEFINE e == [timestamp |-> src_ts, sent |-> {}, has_sent |-> TRUE, has_msg |-> TRUE]
  <2>3. e \in MsgEntry /\ msg_queue' = Append(msg_queue, e) /\ e.timestamp = src_ts
    BY <2>2 DEF S_Insert, CursorInv, MsgEntry
  <2> HIDE DEF e
  <2>4. m = Len(msg_queue) + 1 /\ msg_queue'[m] = e
    BY <1>1, <1>3, <2>3, AppendProperties
  <2>5. QED
    BY <2>2, <2>3, <2>4 DEF Time
<1>4. QED
  BY <1>2, <1>3

\* Times are natural numbers, and the time now is the clock's.
LEMMA TimeTypes ==
    ASSUME TypeOK
    PROVE  /\ \A m \in 1 .. Len(msg_queue) : Time(m) \in Nat
           /\ Now \in Stamp /\ Units(Now) = clock /\ clock \in Nat
<1>1. ASSUME NEW m \in 1 .. Len(msg_queue) PROVE msg_queue[m].timestamp \in Stamp
  <2>1. msg_queue[m] \in MsgEntry
    BY DEF TypeOK
  <2>2. QED
    BY <2>1 DEF MsgEntry
<1>2. clock \in Clock /\ clock \in Nat
  BY ServerAssumption DEF TypeOK, Clock
<1>3. QED
  BY <1>1, <1>2, StampFacts, ClockReading DEF Time, Now, Stamp

\* The order of the queue is kept: the source stamps, then inserts.
LEMMA OrderStep ==
    ASSUME PoolFacts, TypeOK, TypeOK', CursorInv, DeliveryInv, OrderInv, [Next]_vars
    PROVE  OrderInv'
<1>1. clock \in Nat /\ clock' \in Nat /\ clock <= clock'
  BY ClockForward, ServerAssumption DEF TypeOK, ClockOK, Clock
<1>2. /\ Len(msg_queue) \in Nat /\ Len(msg_queue') \in Nat
      /\ \A m \in 1 .. Len(msg_queue) : Time(m) \in Nat
      /\ Units(Now) = clock
  <2>1. Len(msg_queue) \in Nat /\ Len(msg_queue') \in Nat
    BY DEF TypeOK
  <2>2. QED
    BY <2>1, TimeTypes
<1>3. src_pc = "insert" => Units(src_ts) \in Nat
  BY StampFacts DEF CursorInv
<1>4. src_pc' = "insert" =>
        \/ src_pc = "insert" /\ src_ts' = src_ts
        \/ src_ts' = Now /\ msg_queue' = msg_queue /\ clock' = clock
  <2>1. CASE UNCHANGED srcVars
    BY <2>1 DEF srcVars
  <2>2. CASE S_InitEntry
    BY <2>2 DEF S_InitEntry, queueVars
  <2>3. CASE S_Insert
    BY <2>3 DEF S_Insert
  <2>4. QED
    BY <2>1, <2>2, <2>3 DEF Next, Environment, Tick, DstAccept, PeerGone,
       SpuriousMsgWakeup, SpuriousFdWakeup, otherVars, DstServerThread, DstStep, vars,
       SourceThread, WorkerThread, W_Get, W_AwaitMsg, W_Alive, W_NotAlive,
       W_CanForward, W_SendHeader, W_SendData, W_SendFails, W_MarkSent, W_Next,
       W_SendFailedClose, W_BecomeReady, W_SeesSent, W_SeesNoSent, W_ResetSent, Resume,
       W_Dies, Crash, CleanupThread, C_Get, C_AwaitMsg, C_Check, C_FreeSent, C_FreeMsg, C_Next
<1>5. ASSUME NEW m \in 1 .. Len(msg_queue')
      PROVE  /\ Time(m)' <= clock' /\ Time(m)' \in Nat
             /\ \A i \in 1 .. Len(msg_queue') : i <= m => Time(i)' <= Time(m)'
             /\ src_pc' = "insert" => Time(m)' <= Units(src_ts')
  <2>1. CASE m \in 1 .. Len(msg_queue)
    <3>1. Time(m)' = Time(m) /\ Time(m) \in Nat
      BY <2>1, <1>2, QueueStep
    <3>2. Time(m)' <= clock'
      BY <1>1, <2>1, <3>1 DEF OrderInv
    <3>3. ASSUME NEW i \in 1 .. Len(msg_queue'), i <= m PROVE Time(i)' <= Time(m)'
      <4>1. i \in 1 .. Len(msg_queue)
        BY <1>2, <2>1, <3>3
      <4>2. Time(i)' = Time(i) /\ Time(i) <= Time(m)
        BY <2>1, <3>3, <4>1, QueueStep DEF OrderInv
      <4>3. QED
        BY <3>1, <4>2
    <3>4. src_pc' = "insert" => Time(m)' <= Units(src_ts')
      BY <1>2, <1>4, <2>1, <3>1 DEF OrderInv
    <3>5. QED
      BY <3>1, <3>2, <3>3, <3>4
  <2>2. CASE m \notin 1 .. Len(msg_queue)
    <3>1. S_Insert /\ m = Len(msg_queue) + 1 /\ Time(m)' = Units(src_ts)
      BY <2>2, QueueStep
    <3>2. src_pc = "insert" /\ src_pc' # "insert"
      BY <3>1 DEF S_Insert
    <3>3. Time(m)' <= clock' /\ Time(m)' \in Nat
      BY <1>1, <1>3, <3>1, <3>2 DEF OrderInv
    <3>4. ASSUME NEW i \in 1 .. Len(msg_queue'), i <= m PROVE Time(i)' <= Time(m)'
      <4>1. CASE i \in 1 .. Len(msg_queue)
        BY <3>1, <3>2, <4>1, QueueStep DEF OrderInv
      <4>2. CASE i \notin 1 .. Len(msg_queue)
        BY <3>1, <3>3, <4>2, QueueStep
      <4>3. QED
        BY <4>1, <4>2
    <3>5. QED
      BY <3>2, <3>3, <3>4
  <2>3. QED
    BY <2>1, <2>2
<1>6. src_pc' = "insert" => Units(src_ts') <= clock'
  BY <1>1, <1>2, <1>3, <1>4 DEF OrderInv
<1>7. ASSUME NEW c \in Clients, Stamped(c)' PROVE Units(accepted'[c]) <= clock'
  <2>1. CASE Stamped(c)
    <3>1. accepted'[c] = accepted[c] /\ Units(accepted[c]) <= clock
      BY <2>1, StampedStep DEF OrderInv
    <3>2. Units(accepted[c]) \in Nat
      BY <2>1, StampFacts DEF DeliveryInv, StampedInv
    <3>3. QED
      BY <1>1, <3>1, <3>2
  <2>2. CASE ~ Stamped(c)
    BY <1>1, <1>2, <1>7, <2>2, StampedStep
  <2>3. QED
    BY <2>1, <2>2
<1>8. QED
  BY <1>5, <1>6, <1>7 DEF OrderInv

\* The source thread stamps a message before it takes msg_lock, yet messages are
\* queued in the order of their timestamps, and nothing is stamped later than
\* now.
THEOREM QueueInOrder == Spec => []OrderInv
<1>1. Init => OrderInv
  <2> SUFFICES ASSUME Init PROVE OrderInv
    OBVIOUS
  <2>1. msg_queue = <<>> /\ src_pc = "read" /\ conn = [c \in Clients |-> "new"]
    BY DEF Init, Pool!Init
  <2>2. QED
    BY <2>1 DEF OrderInv, Stamped
<1>2. /\ PoolFacts /\ TypeOK /\ TypeOK' /\ CursorInv /\ DeliveryInv /\ OrderInv /\ [Next]_vars
      => OrderInv'
  BY OrderStep
<1>3. QED
  BY <1>1, <1>2, PoolFactsHold, CursorsHold, DeliveryHolds, PTL DEF Spec

-----------------------------------------------------------------------------
(* Where a worker is in the queue.                                         *)

\* `next` is what the previous iteration left: stale, but never far off.
NextAt(w) ==
    /\ step[w] = "get" => next[w] = current[w]
    /\ step[w] \in {"alive", "check", "header", "data", "mark", "next"} =>
         next[w] \in {NULL, current[w]}
    /\ step[w] = "close" => next[w] \in {NULL, current[w] + 1}
    /\ step[w] \in {"reset", "reset_set"} => next[w] \in {NULL, current[w], current[w] + 1}

\* ... whichever worker it is.
NextInv == \A w \in Worker : NextAt(w)

\* No step of a worker, be it with a stale `next`, skips an entry or goes back.
LEMMA PlaceStep ==
    ASSUME TypeOK, CursorInv, NextInv, [Next]_vars, NEW w \in Worker
    PROVE  NextAt(w)' /\ DueMove(w)
<1> USE DEF NULL
<1>1. /\ step \in [Worker -> StepPC] /\ Len(msg_queue) \in Nat
      /\ current[w] \in Nat /\ prev[w] \in Nat /\ next[w] \in Nat
      /\ step[w] # "get" => current[w] # NULL
      /\ worker_pc[w] = "serving" => step[w] \notin {"reset", "reset_set"}
      /\ worker_pc[w] \notin {"none", "serving"} => step[w] \in {"reset", "reset_set"}
      /\ NextAt(w)
  BY DEF TypeOK, CursorInv, NextInv
<1>2. /\ current \in [Worker -> Msg \cup {NULL}]
      /\ prev \in [Worker -> Msg \cup {NULL}]
      /\ next \in [Worker -> Msg \cup {NULL}]
  BY DEF TypeOK
<1>3. ASSUME step'[w] = step[w], current'[w] = current[w], prev'[w] = prev[w], next'[w] = next[w]
      PROVE  NextAt(w)' /\ DueMove(w)
  BY <1>1, <1>3 DEF NextAt, DueMove, Due
<1>4. CASE ~ WorkerThread(w)
  BY <1>3, <1>4, OthersKeepLoop
<1>5. CASE W_AwaitMsg(w) \/ W_BecomeReady(w) \/ W_Dies(w)
  BY <1>3, <1>5 DEF W_AwaitMsg, W_BecomeReady, W_Dies, Crash, loopVars
<1>6. CASE W_Get(w)
  <2> DEFINE m == get_msg_entry(current[w], prev[w], FALSE)
  <2>1. /\ current[w] # NULL => m = current[w]
        /\ current[w] = NULL => m = prev[w] + 1
    <3>1. EntryReady(current[w], prev[w])
      BY <1>6 DEF W_Get
    <3>2. prev[w] # NULL /\ TailqNext(prev[w]) # NULL => TailqNext(prev[w]) = prev[w] + 1
      BY DEF TailqNext
    <3>3. QED
      BY <1>1, <3>1, <3>2 DEF get_msg_entry, EntryReady
  <2>2. /\ step[w] = "get" /\ current'[w] = m /\ step'[w] = "alive"
        /\ prev'[w] = prev[w] /\ next'[w] = next[w]
    BY <1>1, <1>2, <1>6 DEF W_Get, At, GoTo
  <2> HIDE DEF m
  <2>3. QED
    BY <1>1, <2>1, <2>2 DEF NextAt, DueMove, Due
<1>7. CASE W_Alive(w) \/ W_SendHeader(w) \/ W_SendData(w) \/ W_SendFails(w) \/ W_SeesSent(w)
  <2>1. /\ current'[w] = current[w] /\ prev'[w] = prev[w] /\ next'[w] = next[w]
        /\ \/ step[w] \in {"alive", "header", "data"} /\ step'[w] \in {"check", "data", "mark"}
           \/ step[w] = "reset" /\ step'[w] = "reset_set"
    BY <1>1, <1>7 DEF W_Alive, W_SendHeader, W_SendData, W_SendFails, W_SeesSent, At, GoTo
  <2>2. QED
    BY <1>1, <2>1 DEF NextAt, DueMove, Due
<1>8. CASE W_CanForward(w)
  <2>1. /\ current'[w] = current[w] /\ prev'[w] = prev[w] /\ next'[w] = next[w]
        /\ step[w] = "check" /\ step'[w] \in {"header", "next"}
    BY <1>1, <1>8 DEF W_CanForward, At, GoTo
  <2>2. QED
    BY <1>1, <1>8, <2>1 DEF NextAt, DueMove, Due
<1>9. CASE W_MarkSent(w)
  <2>1. /\ current'[w] = current[w] /\ prev'[w] = prev[w] /\ next'[w] = next[w]
        /\ step[w] = "mark" /\ step'[w] = "next"
    BY <1>1, <1>9 DEF W_MarkSent, At, GoTo
  <2>2. QED
    BY <1>1, <1>9, <2>1 DEF NextAt, DueMove, Due
<1>10. CASE W_NotAlive(w) \/ W_SendFailedClose(w)
  <2>1. /\ current'[w] = current[w] /\ prev'[w] = prev[w] /\ next'[w] = next[w]
        /\ W_NotAlive(w) => step[w] = "alive"
        /\ W_SendFailedClose(w) => step[w] = "close"
        /\ step'[w] = "reset"
    BY <1>1, <1>10 DEF W_NotAlive, W_SendFailedClose, At, GoTo
  <2>2. QED
    BY <1>1, <1>10, <2>1 DEF NextAt, DueMove, Due
<1>11. CASE W_Next(w)
  <2>1. TailqNext(current[w]) \in {NULL, current[w] + 1}
    BY DEF TailqNext
  <2>2. /\ step[w] = "next" /\ next'[w] = TailqNext(current[w])
        /\ \/ step'[w] = "close" /\ current'[w] = current[w] /\ prev'[w] = prev[w]
           \/ step'[w] = "get" /\ current'[w] = next'[w] /\ prev'[w] = current[w]
    BY <1>1, <1>2, <1>11 DEF W_Next, At, GoTo
  <2>3. QED
    BY <1>1, <2>1, <2>2 DEF NextAt, DueMove, Due
<1>12. CASE W_SeesNoSent(w) \/ W_ResetSent(w)
  <2>1. /\ step[w] \in {"reset", "reset_set"} /\ step'[w] = "get"
        /\ current'[w] = next[w] /\ prev'[w] = current[w] /\ next'[w] = next[w]
    BY <1>1, <1>2, <1>12 DEF W_SeesNoSent, W_ResetSent, Resume, GoTo
  <2>2. QED
    BY <1>1, <2>1 DEF NextAt, DueMove, Due
<1>13. QED
  BY <1>4, <1>5, <1>6, <1>7, <1>8, <1>9, <1>10, <1>11, <1>12 DEF WorkerThread

\* `next` is never far off.
THEOREM NextHolds == Spec => []NextInv
<1>1. Init => NextInv
  BY DEF Init, NextInv, NextAt
<1>2. TypeOK /\ CursorInv /\ NextInv /\ [Next]_vars => NextInv'
  BY PlaceStep DEF NextInv
<1>3. QED
  BY <1>1, <1>2, CursorsHold, PTL DEF Spec

\* No worker ever skips an entry of the queue or goes back to one, whichever
\* clients come and go and however stale the `next` is with which it resumes.
THEOREM WorkersNeverSkip == Spec => NoEntrySkipped
<1>1. TypeOK /\ CursorInv /\ NextInv /\ [Next]_vars => [\A w \in Worker : DueMove(w)]_vars
  BY PlaceStep
<1>2. QED
  BY <1>1, CursorsHold, NextHolds, PTL DEF Spec, NoEntrySkipped

\* A worker is never further than just behind the last entry.
LEMMA DueRange ==
    ASSUME TypeOK, CursorInv, NextInv, NEW w \in Worker
    PROVE  Due(w) \in Nat /\ 1 <= Due(w) /\ Due(w) <= Len(msg_queue) + 1
<1>1. /\ Len(msg_queue) \in Nat /\ current[w] \in 0 .. Len(msg_queue)
      /\ prev[w] \in 0 .. Len(msg_queue) /\ next[w] \in 0 .. Len(msg_queue)
  BY DEF TypeOK, CursorInv
<1>2. QED
  BY <1>1 DEF Due, NULL

-----------------------------------------------------------------------------
(* Who has a client, and who writes a bit.                                 *)

\* Worker w has a client, and the dst server is through with it.
Given(w) ==
    \/ worker_pc[w] \in {"serving", "woken"}
    \/ /\ worker_pc[w] \in {"check", "waiting", "signalled"}
       /\ status[w] = Pool!THREAD_BUSY
       /\ ~ Pool!HandingOver(w)

\* set_bit() and is_set() do the same for both workers.
SameBit(u, w) == Pool!ShiftCount(u) = Pool!ShiftCount(w)

\* The dst server has a client with a timestamp.
Holding == dst_pc \notin {"accept", "stamp"}

\* Entry m has a mask, in which the bit of w is clear.
Clear(m, w) == msg_queue[m].has_sent /\ ~ is_sent(m, w)

\* What the pool's invariant says of them: two workers with a client share
\* neither the client nor the bit.
GivenFacts ==
    /\ \A w \in Worker : Given(w) =>
         /\ client_fd[w] \in Clients /\ conn[client_fd[w]] = "open"
         /\ timestamp[w] = accepted[client_fd[w]]
         /\ ~ Pool!Held(client_fd[w])
    /\ \A u, w \in Worker : Given(u) /\ Given(w) /\ SameBit(u, w) => u = w
    /\ \A u, w \in Worker : Given(u) /\ Given(w) /\ client_fd[u] = client_fd[w] => u = w
    /\ dst_pc # "aborted"
    /\ Holding => client_ts = accepted[new_fd]
    /\ dst_pc \in {"create", "wake_stamp"} => client_fd[thread_index] = new_fd
    /\ dst_pc \in {"init", "init_bit", "create", "wake_lock", "wake_fd", "wake_bit", "wake_stamp"} =>
         ~ Given(thread_index)
    /\ \A w \in Worker :
         /\ worker_pc[w] = "check" => ~ Pool!HandingOver(w)
         /\ worker_pc[w] = "clear_bit" => status[w] # Pool!THREAD_BUSY

\* They follow from the invariant of the pool.
LEMMA PoolInvGiven == PoolInv => GivenFacts
<1> SUFFICES ASSUME PoolInv PROVE GivenFacts
  OBVIOUS
<1>1. /\ PoolProofs!StatusByPlace /\ PoolProofs!ChosenPlace /\ PoolProofs!HeldIsOpen
      /\ PoolProofs!ClientOfWorker /\ PoolProofs!ClientsDistinct /\ PoolProofs!OneOccupantPerBit
  BY DEF PoolInv, PoolProofs!IInv, PoolProofs!BitInv, PoolProofs!PlaceInv, PoolProofs!ClientInv
<1>2. Worker = PoolProofs!Worker /\ Pool!THREAD_BUSY = PoolProofs!THREAD_BUSY
  BY DEF Worker, Pool!Worker, PoolProofs!Worker, Pool!THREAD_BUSY, PoolProofs!THREAD_BUSY
<1>3. ASSUME NEW w \in Worker, Given(w)
      PROVE  /\ PoolProofs!HasClient(w) /\ PoolProofs!Occupied(w)
             /\ ~ PoolProofs!HandingOver(w)
  BY <1>1, <1>2, <1>3
     DEF Given, PoolProofs!HasClient, PoolProofs!InWait, Pool!HandingOver, PoolProofs!HandingOver,
         PoolProofs!Occupied, PoolProofs!ChosenPlace
<1>4. \A w \in Worker : Given(w) =>
         /\ client_fd[w] \in Clients /\ conn[client_fd[w]] = "open"
         /\ timestamp[w] = accepted[client_fd[w]]
         /\ ~ Pool!Held(client_fd[w])
  BY <1>1, <1>2, <1>3 DEF PoolProofs!ClientOfWorker, PoolProofs!Held, Pool!Held
<1>5. \A u, w \in Worker : Given(u) /\ Given(w) /\ SameBit(u, w) => u = w
  BY <1>1, <1>2, <1>3 DEF PoolProofs!OneOccupantPerBit, SameBit, Pool!ShiftCount, PoolProofs!ShiftCount
<1>6. \A u, w \in Worker : Given(u) /\ Given(w) /\ client_fd[u] = client_fd[w] => u = w
  BY <1>1, <1>2, <1>3 DEF PoolProofs!ClientsDistinct
<1>7. /\ Holding => client_ts = accepted[new_fd]
      /\ dst_pc \in {"create", "wake_stamp"} => client_fd[thread_index] = new_fd
  BY <1>1 DEF PoolProofs!HeldIsOpen, Holding
<1>8. /\ dst_pc # "aborted"
      /\ \A w \in Worker :
           /\ worker_pc[w] = "check" => ~ Pool!HandingOver(w)
           /\ worker_pc[w] = "clear_bit" => status[w] # Pool!THREAD_BUSY
  BY <1>1, <1>2 DEF PoolProofs!ChosenPlace, Pool!HandingOver, PoolProofs!StatusByPlace,
     PoolProofs!THREAD_BUSY, PoolProofs!THREAD_READY
<1>9. dst_pc \in {"init", "init_bit", "create", "wake_lock", "wake_fd", "wake_bit", "wake_stamp"} =>
         ~ Given(thread_index)
  BY <1>1 DEF PoolProofs!ChosenPlace, PoolProofs!InWait, Given, Pool!HandingOver,
     Pool!THREAD_BUSY, PoolProofs!THREAD_READY
<1>10. QED
  BY <1>4, <1>5, <1>6, <1>7, <1>8, <1>9 DEF GivenFacts

\* They hold in every reachable state.
THEOREM GivenFactsHold == Spec => []GivenFacts
BY PoolInvGiven, PoolInvHolds, PTL

\* A step of the dst server leaves everything else alone.
LEMMA DstMoves == [Next]_vars /\ dst_pc' # dst_pc => UNCHANGED otherVars
<1> SUFFICES ASSUME [Next]_vars, dst_pc' # dst_pc PROVE UNCHANGED otherVars
  OBVIOUS
<1>1. ~ SourceThread /\ ~ CleanupThread /\ Next
  BY DEF vars, poolVars, SourceThread, S_Insert, CleanupThread, C_Get, C_AwaitMsg, C_Check,
     C_FreeSent, C_FreeMsg, C_Next
<1>2. ASSUME NEW w \in Worker PROVE ~ WorkerThread(w)
  BY DEF WorkerThread, W_Get, W_AwaitMsg, W_Alive, W_NotAlive, W_CanForward, W_SendHeader,
     W_SendData, W_SendFails, W_MarkSent, W_Next, W_SendFailedClose, W_BecomeReady, W_SeesSent,
     W_SeesNoSent, W_ResetSent, Resume, W_Dies, Crash, poolVars, Pool!W_Close, Pool!W_Lock,
     Pool!W_SetReady, Pool!W_ClearBit, Pool!W_Wait, Pool!W_LeaveWait, Pool!W_Reacquire,
     Pool!W_Resume, Pool!dstVars
<1>3. CASE Environment
  BY <1>3 DEF Environment, Tick, S_InitEntry, DstAccept, PeerGone, SpuriousMsgWakeup,
     SpuriousFdWakeup, Pool!W_Spurious, Pool!dstVars, poolVars
<1>4. CASE DstServerThread
  BY <1>4 DEF DstServerThread, DstStep
<1>5. QED
  BY <1>1, <1>2, <1>3, <1>4 DEF Next

\* A worker keeps its client until it closes the connection, and gets it from the
\* dst server, with its timestamp.
LEMMA GivenStep ==
    ASSUME PoolFacts, GivenFacts, [Next]_vars, NEW w \in Worker
    PROVE  /\ Given(w) /\ Given(w)' => timestamp'[w] = timestamp[w] /\ client_fd'[w] = client_fd[w]
           /\ ~ Given(w) /\ Given(w)' =>
                /\ Holding /\ ~ Holding' /\ UNCHANGED otherVars
                /\ timestamp'[w] = client_ts /\ client_fd'[w] = new_fd
           /\ Given(w) /\ ~ Given(w)' => worker_pc[w] = "serving" /\ worker_pc'[w] = "lock"
<1> DEFINE Goal ==
      /\ Given(w) /\ Given(w)' => timestamp'[w] = timestamp[w] /\ client_fd'[w] = client_fd[w]
      /\ ~ Given(w) /\ Given(w)' =>
           /\ Holding /\ ~ Holding' /\ UNCHANGED otherVars
           /\ timestamp'[w] = client_ts /\ client_fd'[w] = new_fd
      /\ Given(w) /\ ~ Given(w)' => worker_pc[w] = "serving" /\ worker_pc'[w] = "lock"
<1>1. /\ status \in [Worker -> {0, 1, 2}]
      /\ client_fd \in [Worker -> Clients \cup {NoFd}]
      /\ timestamp \in [Worker -> Stamp \cup {NoStamp}]
      /\ worker_pc \in [Worker -> Pool!WorkerPC]
      /\ thread_index \in Worker
  BY DEF PoolFacts, Pool!TypeOK, Worker, Pool!THREAD_AVAILABLE, Pool!THREAD_BUSY, Pool!THREAD_READY
<1> USE DEF Pool!THREAD_BUSY, Pool!THREAD_READY
<1>2. ASSUME UNCHANGED <<worker_pc, status, client_fd, timestamp>>,
             Pool!HandingOver(w)' = Pool!HandingOver(w)
      PROVE  Goal
  BY <1>2 DEF Given
<1>3. CASE Pool!DstStep
  <2>1. CASE Pool!D_FindIdle \/ Pool!D_FindBusy \/ Pool!D_FindNone \/ Pool!D_Backoff \/ Pool!D_Dispatch
             \/ Pool!D_Assert \/ Pool!D_WakeLock
    BY <1>2, <2>1 DEF Pool!D_FindIdle, Pool!D_FindBusy, Pool!D_FindNone, Pool!D_Backoff,
       Pool!D_Dispatch, Pool!D_Assert, Pool!D_WakeLock, Pool!listVars, Pool!HandingOver
  <2>2. CASE Pool!D_InitBit \/ Pool!D_WakeBit
    BY <1>2, <2>2 DEF Pool!D_InitBit, Pool!D_WakeBit, Pool!HandingOver
  <2>3. CASE Pool!D_Init
    BY <1>1, <2>3 DEF Pool!D_Init, PoolFacts, Given, Pool!HandingOver
  <2>4. CASE Pool!D_WakeFd
    BY <1>1, <2>4 DEF Pool!D_WakeFd, GivenFacts, PoolFacts, Given, Pool!HandingOver
  <2>5. CASE Pool!D_Create
    BY <1>1, <2>5, DstMoves DEF Pool!D_Create, GivenFacts, PoolFacts, Given, Pool!HandingOver, Holding
  <2>6. CASE Pool!D_WakeStamp
    BY <1>1, <2>6, DstMoves DEF Pool!D_WakeStamp, Pool!Signal, GivenFacts, PoolFacts, Given, Pool!HandingOver,
       Holding
  <2>7. QED
    BY <1>3, <2>1, <2>2, <2>3, <2>4, <2>5, <2>6 DEF Pool!DstStep
<1>4. CASE Pool!D_Stamp(Now)
  BY <1>2, <1>4 DEF Pool!D_Stamp, Pool!listVars, Pool!HandingOver
<1>5. ASSUME NEW c \in Clients, Pool!D_Accept(c) PROVE Goal
  BY <1>2, <1>5 DEF Pool!D_Accept, Pool!listVars, Pool!HandingOver
<1>6. CASE UNCHANGED Pool!poolVars
  BY <1>2, <1>6 DEF Pool!poolVars, Pool!listVars, Pool!dstVars, Pool!HandingOver
<1>7. ASSUME NEW u \in Worker, Pool!W_Close(u) \/ Pool!W_Spurious(u) \/ Pool!WorkerStep(u) PROVE Goal
  <2>1. Pool!HandingOver(w)' = Pool!HandingOver(w) /\ timestamp' = timestamp /\ client_fd' = client_fd
    BY <1>7 DEF Pool!W_Close, Pool!W_Spurious, Pool!WorkerStep, Pool!W_Lock, Pool!W_SetReady,
       Pool!W_ClearBit, Pool!W_Wait, Pool!W_LeaveWait, Pool!W_Reacquire, Pool!W_Resume,
       Pool!listVars, Pool!dstVars, Pool!HandingOver
  <2>2. CASE u # w
    <3>1. worker_pc'[w] = worker_pc[w] /\ status'[w] = status[w]
      BY <1>1, <1>7, <2>2 DEF Pool!W_Close, Pool!W_Spurious, Pool!WorkerStep, Pool!W_Lock, Pool!W_SetReady,
         Pool!W_ClearBit, Pool!W_Wait, Pool!W_LeaveWait, Pool!W_Reacquire, Pool!W_Resume,
         Pool!listVars, Pool!Goto
    <3>2. QED
      BY <2>1, <3>1 DEF Given
  <2>3. CASE u = w
    <3>1. CASE Pool!W_Close(w)
      BY <1>1, <2>1, <3>1 DEF Pool!W_Close, Pool!Goto, Given
    <3>2. CASE Pool!W_Lock(w) \/ Pool!W_SetReady(w) \/ Pool!W_ClearBit(w)
      <4>1. worker_pc[w] \in {"lock", "set_ready", "clear_bit"}
            /\ (worker_pc'[w] \in {"set_ready", "clear_bit"}
                \/ (worker_pc'[w] = "check" /\ status'[w] = status[w] /\ worker_pc[w] = "clear_bit"))
        BY <1>1, <3>2 DEF Pool!W_Lock, Pool!W_SetReady, Pool!W_ClearBit, Pool!Goto
      <4>2. QED
        BY <1>1, <2>1, <4>1 DEF Given, GivenFacts
    <3>3. CASE Pool!W_Wait(w) \/ Pool!W_LeaveWait(w) \/ Pool!W_Spurious(w) \/ Pool!W_Reacquire(w)
      BY <1>1, <2>1, <3>3 DEF Pool!W_Wait, Pool!W_LeaveWait, Pool!W_Spurious, Pool!W_Reacquire,
         Pool!Goto, Pool!listVars, Given, GivenFacts
    <3>4. CASE Pool!W_Resume(w)
      BY <1>1, <2>1, <3>4 DEF Pool!W_Resume, Pool!Goto, Given
    <3>5. QED
      BY <1>7, <2>3, <3>1, <3>2, <3>3, <3>4 DEF Pool!WorkerStep
  <2>4. QED
    BY <2>2, <2>3
<1>8. QED
  BY <1>3, <1>4, <1>5, <1>6, <1>7, PoolMoves DEF PoolMove

\* The dst server gets a client's timestamp from the clock.
LEMMA HoldStep ==
    ASSUME GivenFacts, [Next]_vars, Holding'
    PROVE  \/ Holding /\ client_ts' = client_ts
           \/ client_ts' = Now /\ UNCHANGED otherVars
<1>1. CASE Pool!D_Stamp(Now)
  BY <1>1, DstMoves DEF Pool!D_Stamp
<1>2. CASE ~ Pool!D_Stamp(Now)
  BY <1>2, PoolMoves DEF PoolMove, Pool!D_Accept, Pool!W_Close, Pool!W_Spurious, Pool!WorkerStep,
     Pool!W_Lock, Pool!W_SetReady, Pool!W_ClearBit, Pool!W_Wait, Pool!W_LeaveWait,
     Pool!W_Reacquire, Pool!W_Resume, Pool!dstVars, Pool!poolVars, Pool!DstStep, Pool!D_FindIdle,
     Pool!D_FindBusy, Pool!D_FindNone, Pool!D_Backoff, Pool!D_Dispatch, Pool!D_Init,
     Pool!D_InitBit, Pool!D_Create, Pool!D_Assert, Pool!D_WakeLock, Pool!D_WakeFd,
     Pool!D_WakeBit, Pool!D_WakeStamp, Holding
<1>3. QED
  BY <1>1, <1>2

\* A worker closes a connection in these two places only.
LEMMA ClosingStep ==
    ASSUME PoolFacts, TypeOK, CursorInv, [Next]_vars, NEW w \in Worker,
           worker_pc[w] = "serving", worker_pc'[w] # "serving"
    PROVE  W_NotAlive(w) \/ W_SendFailedClose(w)
<1>1. worker_pc \in [Worker -> Pool!WorkerPC]
  BY DEF PoolFacts, Pool!TypeOK, Worker
<1>2. WorkerThread(w)
  <2>1. CASE UNCHANGED poolVars
    BY <2>1 DEF poolVars
  <2>2. CASE DstStep
    BY <2>2, DstPlaces DEF DstStep
  <2>3. ASSUME NEW c \in Clients, DstAccept(c) PROVE UNCHANGED worker_pc
    BY <2>3 DEF DstAccept, Pool!D_Accept
  <2>4. ASSUME NEW u \in Worker, SpuriousFdWakeup(u) PROVE worker_pc'[w] = worker_pc[w]
    BY <1>1, <2>4 DEF SpuriousFdWakeup, Pool!W_Spurious, Pool!Goto
  <2>5. ASSUME NEW u \in Worker, u # w, WorkerThread(u) PROVE worker_pc'[w] = worker_pc[w]
    BY <1>1, <2>5 DEF WorkerThread, W_Get, W_AwaitMsg, W_Alive, W_NotAlive, W_CanForward, W_SendHeader,
       W_SendData, W_SendFails, W_MarkSent, W_Next, W_SendFailedClose, W_BecomeReady, W_SeesSent,
       W_SeesNoSent, W_ResetSent, Resume, W_Dies, Crash, poolVars, Pool!W_Close, Pool!W_Lock,
       Pool!W_SetReady, Pool!W_ClearBit, Pool!W_Wait, Pool!W_LeaveWait, Pool!W_Reacquire,
       Pool!W_Resume, Pool!Goto
  <2>6. QED
    BY <2>1, <2>2, <2>3, <2>4, <2>5 DEF Next, Environment, Tick, S_InitEntry, PeerGone,
       SpuriousMsgWakeup, DstServerThread, vars, SourceThread, S_Insert,
       CleanupThread, C_Get, C_AwaitMsg, C_Check, C_FreeSent, C_FreeMsg, C_Next
<1>3. QED
  BY <1>1, <1>2 DEF WorkerThread, W_Get, W_AwaitMsg, W_Alive, W_CanForward, W_SendHeader,
     W_SendData, W_SendFails, W_MarkSent, W_Next, W_BecomeReady, W_SeesSent,
     W_SeesNoSent, W_ResetSent, Resume, W_Dies, Crash, poolVars, Pool!W_Lock,
     Pool!W_SetReady, Pool!W_ClearBit, Pool!W_Wait, Pool!W_LeaveWait, Pool!W_Reacquire,
     Pool!W_Resume, Pool!Goto

\* What a step does to the bits: nothing but free some, ...
BitsKept ==
    \A w \in Worker, m \in 1 .. Len(msg_queue') :
        /\ is_sent(m, w)' => m \in 1 .. Len(msg_queue) /\ is_sent(m, w)
        /\ m \in 1 .. Len(msg_queue) /\ Clear(m, w)' => Clear(m, w)

\* ... set one for all workers that have it, ...
BitsMarked(v) ==
    /\ Len(msg_queue') = Len(msg_queue)
    /\ \A w \in Worker, m \in 1 .. Len(msg_queue) :
         /\ is_sent(m, w)' => is_sent(m, w) \/ (m = current[v] /\ SameBit(v, w))
         /\ Clear(m, w)' => Clear(m, w) /\ ~ (m = current[v] /\ SameBit(v, w))

\* ... or reset one.
BitsReset(v) ==
    /\ Len(msg_queue') = Len(msg_queue)
    /\ \A w \in Worker, m \in 1 .. Len(msg_queue) :
         /\ is_sent(m, w)' => is_sent(m, w)
         /\ Clear(m, w)' => Clear(m, w) \/ (m = current[v] /\ SameBit(v, w))

\* set_bit() and is_set() on the mask of an entry.
LEMMA EntryBits ==
    ASSUME NEW b \in SUBSET (0 .. MaskWidth - 1), NEW v \in Worker, NEW w \in Worker
    PROVE  /\ Pool!is_set(Pool!set_bit(b, v, TRUE), w) <=> SameBit(v, w) \/ Pool!is_set(b, w)
           /\ Pool!is_set(Pool!set_bit(b, v, FALSE), w) <=> ~ SameBit(v, w) /\ Pool!is_set(b, w)
           /\ ~ Pool!is_set({}, w)
<1>1. v \in Nat /\ w \in Nat /\ b \in PoolProofs!Mask
  BY ServerPoolAssumption DEF Worker, Pool!Worker, PoolProofs!Mask
<1>2. /\ PoolProofs!is_set(PoolProofs!set_bit(b, v, TRUE), w)
            <=> PoolProofs!ShiftCount(v) = PoolProofs!ShiftCount(w) \/ PoolProofs!is_set(b, w)
      /\ PoolProofs!is_set(PoolProofs!set_bit(b, v, FALSE), w)
            <=> PoolProofs!ShiftCount(v) # PoolProofs!ShiftCount(w) /\ PoolProofs!is_set(b, w)
  BY <1>1, PoolConstants, PoolProofs!SetBitFacts
<1>3. QED
  BY <1>2 DEF SameBit, Pool!is_set, PoolProofs!is_set, Pool!set_bit, PoolProofs!set_bit,
     Pool!BitsOf, PoolProofs!BitsOf, Pool!ShiftCount, PoolProofs!ShiftCount

\* Only a worker that has sent, or that resumes, writes a bit.
LEMMA BitStep ==
    ASSUME TypeOK, CursorInv, [Next]_vars
    PROVE  /\ \A v \in Worker : W_MarkSent(v) => BitsMarked(v)
           /\ \A v \in Worker : W_ResetSent(v) => BitsReset(v)
           /\ BitsKept \/ \E v \in Worker : W_MarkSent(v) \/ W_ResetSent(v)
<1>1. msg_queue \in Seq(MsgEntry) /\ Len(msg_queue) \in Nat
  BY DEF TypeOK
<1>2. ASSUME UNCHANGED msg_queue PROVE BitsKept
  BY <1>2 DEF BitsKept, is_sent, Clear
<1>3. ASSUME S_Insert PROVE BitsKept
  <2> DEFINE e == [timestamp |-> src_ts, sent |-> {}, has_sent |-> TRUE, has_msg |-> TRUE]
  <2>1. e \in MsgEntry /\ msg_queue' = Append(msg_queue, e) /\ e.sent = {}
    BY <1>3 DEF S_Insert, CursorInv, MsgEntry
  <2> HIDE DEF e
  <2>2. /\ \A m \in 1 .. Len(msg_queue) : msg_queue'[m] = msg_queue[m]
        /\ \A m \in 1 .. Len(msg_queue') : m \notin 1 .. Len(msg_queue) => msg_queue'[m] = e
    BY <1>1, <2>1, AppendProperties
  <2>3. \A w \in Worker : ~ Pool!is_set({}, w)
    BY EntryBits
  <2>4. QED
    BY <2>1, <2>2, <2>3 DEF BitsKept, is_sent, Clear
<1>4. ASSUME C_FreeSent PROVE BitsKept
  <2>1. /\ cl_current \in 1 .. Len(msg_queue) /\ Len(msg_queue') = Len(msg_queue)
        /\ \A i \in 1 .. Len(msg_queue) : i # cl_current => msg_queue'[i] = msg_queue[i]
    BY <1>4, FreeFacts
  <2>2. msg_queue' = WithoutSent(msg_queue, cl_current)
    BY <1>4 DEF C_FreeSent, WithoutSent
  <2>3. msg_queue'[cl_current].has_sent = FALSE /\ msg_queue'[cl_current].sent = {}
    BY <1>1, <2>1, <2>2, WithoutSentFacts
  <2>4. \A w \in Worker : ~ Pool!is_set({}, w)
    BY EntryBits
  <2>5. QED
    BY <2>1, <2>3, <2>4 DEF BitsKept, is_sent, Clear
<1>5. ASSUME C_FreeMsg PROVE BitsKept
  <2>1. /\ cl_current \in 1 .. Len(msg_queue) /\ Len(msg_queue') = Len(msg_queue)
        /\ \A i \in 1 .. Len(msg_queue) : i # cl_current => msg_queue'[i] = msg_queue[i]
    BY <1>5, FreeFacts
  <2>2. msg_queue' = WithoutMsg(msg_queue, cl_current)
    BY <1>5 DEF C_FreeMsg, WithoutMsg
  <2>3. /\ msg_queue'[cl_current].has_sent = msg_queue[cl_current].has_sent
        /\ msg_queue'[cl_current].sent = msg_queue[cl_current].sent
    BY <1>1, <2>1, <2>2, WithoutMsgFacts
  <2>4. QED
    BY <2>1, <2>3 DEF BitsKept, is_sent, Clear
<1>6. ASSUME NEW v \in Worker
      PROVE  (W_MarkSent(v) => BitsMarked(v)) /\ (W_ResetSent(v) => BitsReset(v))
  <2> DEFINE m == current[v]
             b == msg_queue[m].sent
  <2> SUFFICES ASSUME W_MarkSent(v) \/ W_ResetSent(v)
               PROVE  (W_MarkSent(v) => BitsMarked(v)) /\ (W_ResetSent(v) => BitsReset(v))
    OBVIOUS
  <2>1. m \in 1 .. Len(msg_queue)
    <3>1. step[v] # "get"
      BY DEF W_MarkSent, W_ResetSent, At
    <3>2. QED
      BY <1>1, <3>1 DEF CursorInv, NULL
  <2>2. b \in SUBSET (0 .. MaskWidth - 1)
    <3>1. msg_queue[m] \in MsgEntry
      BY <1>1, <2>1
    <3>2. QED
      BY <3>1 DEF MsgEntry
  <2>3. ASSUME NEW val \in BOOLEAN, set_sent(m, v, val), msg_queue[m].has_sent
        PROVE  /\ Len(msg_queue') = Len(msg_queue)
               /\ \A i \in 1 .. Len(msg_queue) : i # m => msg_queue'[i] = msg_queue[i]
               /\ msg_queue'[m].sent = Pool!set_bit(b, v, val)
               /\ msg_queue'[m].has_sent = msg_queue[m].has_sent
    <3>1. msg_queue' = WithBit(msg_queue, m, v, val)
      BY <2>1, <2>3, SetSentFacts
    <3>2. QED
      BY <1>1, <2>1, <3>1, WithBitFacts
  <2>4. CASE ~ msg_queue[m].has_sent
    <3>1. msg_queue' = msg_queue
      BY <2>4 DEF W_MarkSent, W_ResetSent, set_sent
    <3>2. QED
      BY <2>4, <3>1 DEF BitsMarked, BitsReset, is_sent, Clear
  <2>5. CASE W_MarkSent(v) /\ msg_queue[m].has_sent
    <3>1. /\ Len(msg_queue') = Len(msg_queue)
          /\ \A i \in 1 .. Len(msg_queue) : i # m => msg_queue'[i] = msg_queue[i]
          /\ msg_queue'[m].sent = Pool!set_bit(b, v, TRUE)
          /\ msg_queue'[m].has_sent = msg_queue[m].has_sent
      BY <2>3, <2>5 DEF W_MarkSent
    <3> HIDE DEF b
    <3>2. ASSUME NEW w \in Worker
          PROVE  Pool!is_set(msg_queue'[m].sent, w) <=> SameBit(v, w) \/ Pool!is_set(b, w)
      <4>1. Pool!is_set(Pool!set_bit(b, v, TRUE), w) <=> SameBit(v, w) \/ Pool!is_set(b, w)
        BY <2>2, EntryBits
      <4>2. QED
        BY <3>1, <4>1, Zenon
    <3>3. BitsMarked(v)
      BY <3>1, <3>2 DEF BitsMarked, is_sent, Clear, b
    <3>4. ~ W_ResetSent(v)
      BY <2>5 DEF W_MarkSent, W_ResetSent, At
    <3>5. QED
      BY <3>3, <3>4
  <2>6. CASE W_ResetSent(v) /\ msg_queue[m].has_sent
    <3>1. /\ Len(msg_queue') = Len(msg_queue)
          /\ \A i \in 1 .. Len(msg_queue) : i # m => msg_queue'[i] = msg_queue[i]
          /\ msg_queue'[m].sent = Pool!set_bit(b, v, FALSE)
          /\ msg_queue'[m].has_sent = msg_queue[m].has_sent
      BY <2>3, <2>6 DEF W_ResetSent
    <3> HIDE DEF b
    <3>2. ASSUME NEW w \in Worker
          PROVE  Pool!is_set(msg_queue'[m].sent, w) <=> ~ SameBit(v, w) /\ Pool!is_set(b, w)
      <4>1. Pool!is_set(Pool!set_bit(b, v, FALSE), w) <=> ~ SameBit(v, w) /\ Pool!is_set(b, w)
        BY <2>2, EntryBits
      <4>2. QED
        BY <3>1, <4>1, Zenon
    <3>3. BitsReset(v)
      BY <3>1, <3>2 DEF BitsReset, is_sent, Clear, b
    <3>4. ~ W_MarkSent(v)
      BY <2>6 DEF W_MarkSent, W_ResetSent, At
    <3>5. QED
      BY <3>3, <3>4
  <2>7. QED
    BY <2>4, <2>5, <2>6
<1>7. QED
  BY <1>2, <1>3, <1>4, <1>5, <1>6, QueueWriters

\* A worker that writes a bit has a client; it writes the bit of its current
\* message.
LEMMA BitWriters ==
    ASSUME TypeOK, CursorInv, NEW v \in Worker
    PROVE  /\ W_MarkSent(v) => /\ Given(v) /\ worker_pc[v] = "serving" /\ step[v] = "mark"
                               /\ current[v] \in 1 .. Len(msg_queue) /\ Due(v) = current[v]
           /\ W_ResetSent(v) => /\ Given(v) /\ worker_pc[v] = "woken" /\ step[v] = "reset_set"
                                /\ current[v] \in 1 .. Len(msg_queue)
<1>1. /\ Len(msg_queue) \in Nat /\ current[v] \in 0 .. Len(msg_queue)
      /\ step[v] # "get" => current[v] # NULL
  BY DEF TypeOK, CursorInv
<1>2. ASSUME W_MarkSent(v)
      PROVE  /\ Given(v) /\ worker_pc[v] = "serving" /\ step[v] = "mark"
             /\ current[v] \in 1 .. Len(msg_queue) /\ Due(v) = current[v]
  <2>1. worker_pc[v] = "serving" /\ step[v] = "mark"
    BY <1>2 DEF W_MarkSent, At
  <2>2. QED
    BY <1>1, <2>1 DEF Given, Due, NULL
<1>3. ASSUME W_ResetSent(v)
      PROVE  /\ Given(v) /\ worker_pc[v] = "woken" /\ step[v] = "reset_set"
             /\ current[v] \in 1 .. Len(msg_queue)
  <2>1. worker_pc[v] = "woken" /\ step[v] = "reset_set"
    BY <1>3 DEF W_ResetSent
  <2>2. QED
    BY <1>1, <2>1 DEF Given, NULL
<1>4. QED
  BY <1>2, <1>3

\* Where a set bit, and a clear one, come from.
LEMMA BitOrigin ==
    ASSUME TypeOK, TypeOK', CursorInv, [Next]_vars, NEW w \in Worker
    PROVE  /\ \A m \in 1 .. Len(msg_queue') : is_sent(m, w)' =>
                /\ m \in 1 .. Len(msg_queue)
                /\ \/ is_sent(m, w)
                   \/ \E v \in Worker : W_MarkSent(v) /\ m = current[v] /\ SameBit(v, w)
           /\ \A m \in 1 .. Len(msg_queue) : Clear(m, w)' =>
                \/ Clear(m, w)
                \/ \E v \in Worker : W_ResetSent(v) /\ m = current[v] /\ SameBit(v, w)
           /\ \A v \in Worker, m \in 1 .. Len(msg_queue) :
                W_MarkSent(v) /\ SameBit(v, w) /\ m = current[v] => ~ Clear(m, w)'
<1>1. EntriesStay
  BY EntriesStayStep
<1>2. \A m \in 1 .. Len(msg_queue) : m \in 1 .. Len(msg_queue')
  <2>1. Len(msg_queue) \in Nat /\ Len(msg_queue') \in Nat
    BY DEF TypeOK
  <2>2. QED
    BY <1>1, <2>1 DEF EntriesStay
<1>3. ASSUME NEW m \in 1 .. Len(msg_queue'), is_sent(m, w)'
      PROVE  /\ m \in 1 .. Len(msg_queue)
             /\ \/ is_sent(m, w)
                \/ \E v \in Worker : W_MarkSent(v) /\ m = current[v] /\ SameBit(v, w)
  BY <1>3, BitStep DEF BitsKept, BitsMarked, BitsReset
<1>4. ASSUME NEW m \in 1 .. Len(msg_queue), Clear(m, w)'
      PROVE  \/ Clear(m, w)
             \/ \E v \in Worker : W_ResetSent(v) /\ m = current[v] /\ SameBit(v, w)
  BY <1>2, <1>4, BitStep DEF BitsKept, BitsMarked, BitsReset
<1>5. ASSUME NEW v \in Worker, NEW m \in 1 .. Len(msg_queue),
             W_MarkSent(v), SameBit(v, w), m = current[v]
      PROVE  ~ Clear(m, w)'
  BY <1>5, BitStep DEF BitsMarked
<1>6. QED
  BY <1>3, <1>4, <1>5

\* Workers that have the same bit see the same bit.
LEMMA SameBitSame ==
    ASSUME NEW v \in Worker, NEW w \in Worker, SameBit(v, w), NEW m
    PROVE  (is_sent(m, v) <=> is_sent(m, w)) /\ (Clear(m, v) <=> Clear(m, w))
BY DEF SameBit, is_sent, Clear, Pool!is_set, Pool!BitsOf

\* A worker without a client stays where it is in the queue.
LEMMA IdleKeepsPlace ==
    ASSUME TypeOK, [Next]_vars, NEW w \in Worker, ~ Given(w)
    PROVE  step'[w] = step[w] /\ current'[w] = current[w]
<1>1. CASE ~ WorkerThread(w)
  BY <1>1, OthersKeepLoop
<1>2. CASE WorkerThread(w)
  <2>1. W_BecomeReady(w)
    BY <1>2 DEF WorkerThread, W_Get, W_AwaitMsg, W_Alive, W_NotAlive, W_CanForward, W_SendHeader,
     W_SendData, W_SendFails, W_MarkSent, W_Next, W_SendFailedClose, W_SeesSent,
     W_SeesNoSent, W_ResetSent, Resume, W_Dies, At, Given
  <2>2. QED
    BY <2>1 DEF W_BecomeReady, loopVars
<1>3. QED
  BY <1>1, <1>2

\* A worker that is to reset a bit stays with it until it runs.
LEMMA ResettingKeepsPlace ==
    ASSUME PoolFacts, TypeOK, CursorInv, [Next]_vars, NEW w \in Worker, Given(w), Given(w)',
           step'[w] \in {"reset", "reset_set"}
    PROVE  step[w] \in {"reset", "reset_set"} /\ current'[w] = current[w]
<1>1. step \in [Worker -> StepPC] /\ worker_pc \in [Worker -> Pool!WorkerPC]
  BY DEF TypeOK, PoolFacts, Pool!TypeOK, Worker
<1>2. CASE ~ WorkerThread(w)
  BY <1>2, OthersKeepLoop
<1>3. ASSUME W_NotAlive(w) \/ W_SendFailedClose(w) PROVE FALSE
  BY <1>1, <1>3 DEF W_NotAlive, W_SendFailedClose, Pool!W_Close, Pool!Goto, Given
<1>4. CASE WorkerThread(w) /\ ~ W_NotAlive(w) /\ ~ W_SendFailedClose(w)
  BY <1>1, <1>4 DEF WorkerThread, W_Get, W_AwaitMsg, W_Alive, W_CanForward, W_SendHeader,
     W_SendData, W_SendFails, W_MarkSent, W_Next, W_BecomeReady, W_SeesSent,
     W_SeesNoSent, W_ResetSent, Resume, W_Dies, Crash, At, GoTo, loopVars
<1>5. QED
  BY <1>2, <1>3, <1>4

\* A worker's bits ahead, among the messages for its client: first those that
\* are set, then those that are not.
SentFirst ==
    \A w \in Worker : \A i, j \in 1 .. Len(msg_queue) :
        /\ Given(w) /\ Due(w) <= i /\ i < j
        /\ Newer(i, timestamp[w]) /\ Clear(i, w)
        => ~ is_sent(j, w)

\* ... which is still so when it has reset the bit of its current message.
ResetIsLast ==
    \A w \in Worker : \A j \in 1 .. Len(msg_queue) :
        /\ Given(w) /\ step[w] \in {"reset", "reset_set"}
        /\ current[w] < j /\ Newer(current[w], timestamp[w])
        => ~ is_sent(j, w)

\* The same for the client in the dst server's hands, whichever worker it gets.
HeldSentFirst ==
    Holding => \A w \in Worker : \A i, j \in 1 .. Len(msg_queue) :
        i < j /\ Newer(i, client_ts) /\ Clear(i, w) => ~ is_sent(j, w)

\* And for a worker that will reset a bit when it gets that client.
HeldResetIsLast ==
    Holding => \A w \in Worker : \A j \in 1 .. Len(msg_queue) :
        /\ step[w] \in {"reset", "reset_set"} /\ ~ Given(w)
        /\ current[w] < j /\ Newer(current[w], client_ts)
        => ~ is_sent(j, w)

\* The workers that had a client before the dst server accepted the one it
\* holds: their clients are older, what they will reset is older, ...
GivenBefore ==
    Holding => \A w \in Worker : Given(w) =>
        /\ Units(timestamp[w]) <= Units(client_ts)
        /\ step[w] \in {"reset", "reset_set"} => ~ Newer(current[w], client_ts)
        /\ \A u \in Worker :
             u # w /\ SameBit(u, w) /\ current[u] # NULL => ~ Newer(current[u], client_ts)

\* ... and of the messages newer than that client, those they are done with are
\* the ones whose bits are set.
GivenMarks ==
    Holding => \A w \in Worker : \A m \in 1 .. Len(msg_queue) :
        Given(w) /\ Newer(m, client_ts) =>
            /\ is_sent(m, w) => m < Due(w)
            /\ worker_pc[w] = "serving" /\ Clear(m, w) => Due(w) <= m

\* The pattern of the bits ahead of clients that have a worker or will get one.
MarksInv ==
    /\ SentFirst /\ ResetIsLast
    /\ HeldSentFirst /\ HeldResetIsLast
    /\ GivenBefore /\ GivenMarks

\* What is known before.
Ground ==
    /\ PoolFacts /\ GivenFacts
    /\ TypeOK /\ CursorInv
    /\ DeliveryInv /\ OrderInv /\ NextInv

\* The invariants below hold in every reachable state.
LEMMA GroundHolds == Spec => []Ground
BY PoolFactsHold, GivenFactsHold, CursorsHold, DeliveryHolds, QueueInOrder, NextHolds, PTL DEF Ground

\* The timestamps that are compared are numbers, and none is later than now.
LEMMA StampsInUse ==
    ASSUME Ground
    PROVE  /\ Holding => Units(client_ts) \in Nat
           /\ \A w \in Worker : Given(w) =>
                Units(timestamp[w]) \in Nat /\ Units(timestamp[w]) <= clock
<1>1. ASSUME NEW c \in Clients, Stamped(c)
      PROVE  Units(accepted[c]) \in Nat /\ Units(accepted[c]) <= clock
  BY <1>1, StampFacts DEF Ground, DeliveryInv, StampedInv, OrderInv
<1>2. Holding => Units(client_ts) \in Nat
  BY <1>1 DEF Ground, GivenFacts, PoolFacts, Holding, Stamped
<1>3. ASSUME NEW w \in Worker, Given(w)
      PROVE  Units(timestamp[w]) \in Nat /\ Units(timestamp[w]) <= clock
  <2>1. client_fd[w] \in Clients /\ Stamped(client_fd[w]) /\ timestamp[w] = accepted[client_fd[w]]
    BY <1>3 DEF Ground, GivenFacts, Stamped, Pool!Held
  <2>2. QED
    BY <1>1, <2>1
<1>4. QED
  BY <1>2, <1>3

\* An entry in the queue keeps its time, and what is behind it is no older.
LEMMA OldEntries ==
    ASSUME Ground, Ground', [Next]_vars, NEW i \in 1 .. Len(msg_queue)
    PROVE  /\ Time(i)' = Time(i) /\ Time(i) \in Nat /\ i \in 1 .. Len(msg_queue')
           /\ \A j \in 1 .. Len(msg_queue) : i <= j => Time(i) <= Time(j) /\ Time(j) \in Nat
BY QueueStep, TimeTypes DEF Ground, OrderInv

\* When the dst server stamps a client, nothing in the queue is newer.
LEMMA FreshStamp ==
    ASSUME Ground, Ground', [Next]_vars, Holding'
    PROVE  \/ Holding /\ client_ts' = client_ts
           \/ /\ UNCHANGED otherVars /\ \A m \in 1 .. Len(msg_queue') : ~ (Units(client_ts') < Time(m)')
              /\ Units(client_ts') = clock
<1>1. CASE Holding /\ client_ts' = client_ts
  BY <1>1
<1>2. CASE client_ts' = Now /\ UNCHANGED otherVars
  <2>1. msg_queue' = msg_queue
    BY <1>2 DEF otherVars, queueVars
  <2>2. Units(client_ts') = clock /\ clock \in Nat
    BY <1>2, TimeTypes DEF Ground
  <2>3. ASSUME NEW m \in 1 .. Len(msg_queue) PROVE Time(m)' <= clock /\ Time(m)' \in Nat
    BY OldEntries DEF Ground, OrderInv
  <2>4. QED
    BY <1>2, <2>1, <2>2, <2>3
<1>3. QED
  BY <1>1, <1>2, HoldStep DEF Ground

\* A worker's bits ahead, for the client it has or has just been given.
LEMMA SentFirstStep ==
    ASSUME Ground, Ground', MarksInv, [Next]_vars
    PROVE  SentFirst'
<1> SUFFICES ASSUME NEW w \in Worker, NEW i \in 1 .. Len(msg_queue'), NEW j \in 1 .. Len(msg_queue'),
                    Given(w)', Due(w)' <= i, i < j, Units(timestamp'[w]) < Time(i)',
                    Clear(i, w)', is_sent(j, w)'
             PROVE  FALSE
  BY DEF SentFirst, Newer
<1>1. j \in 1 .. Len(msg_queue) /\ i \in 1 .. Len(msg_queue)
  <2>1. j \in 1 .. Len(msg_queue)
    BY BitOrigin DEF Ground
  <2>2. Len(msg_queue) \in Nat
    BY DEF Ground, TypeOK
  <2>3. QED
    BY <2>1, <2>2
<1>2. Units(timestamp'[w]) < Time(i)
  BY <1>1, OldEntries
<1>3. CASE ~ Given(w)
  <2>1. Holding /\ timestamp'[w] = client_ts /\ msg_queue' = msg_queue
    BY <1>3, GivenStep DEF Ground, otherVars, queueVars
  <2>2. Clear(i, w) /\ is_sent(j, w)
    BY <2>1 DEF Clear, is_sent
  <2>3. QED
    BY <1>1, <1>2, <2>1, <2>2 DEF MarksInv, HeldSentFirst, Newer
<1>4. CASE Given(w)
  <2>1. Units(timestamp[w]) < Time(i)
    BY <1>2, <1>4, GivenStep DEF Ground
  <2>2. Due(w) <= i
    <3>1. Due(w) \in Nat /\ DueMove(w)
      BY DueRange, PlaceStep DEF Ground
    <3>2. QED
      BY <3>1 DEF DueMove
  <2>3. \A v \in Worker : Given(v) /\ SameBit(v, w) => v = w
    BY <1>4 DEF Ground, GivenFacts
  <2>4. is_sent(j, w)
    <3>1. ASSUME NEW v \in Worker, W_MarkSent(v), j = current[v], SameBit(v, w) PROVE FALSE
      BY <2>2, <2>3, <3>1, BitWriters DEF Ground
    <3>2. QED
      BY <1>1, <3>1, BitOrigin DEF Ground
  <2>5. Clear(i, w)
    <3>1. ASSUME NEW v \in Worker, W_ResetSent(v), i = current[v], SameBit(v, w) PROVE FALSE
      <4>1. v = w /\ step[w] = "reset_set"
        BY <2>3, <3>1, BitWriters DEF Ground
      <4>2. QED
        BY <1>1, <1>4, <2>1, <2>4, <3>1, <4>1 DEF MarksInv, ResetIsLast, Newer
    <3>2. QED
      BY <1>1, <3>1, BitOrigin DEF Ground
  <2>6. QED
    BY <1>1, <1>4, <2>1, <2>2, <2>4, <2>5 DEF MarksInv, SentFirst, Newer
<1>5. QED
  BY <1>3, <1>4

\* The bit a worker is going to reset was its client's, or is its new client's,
\* last one.
LEMMA ResetIsLastStep ==
    ASSUME Ground, Ground', MarksInv, [Next]_vars
    PROVE  ResetIsLast'
<1> SUFFICES ASSUME NEW w \in Worker, NEW j \in 1 .. Len(msg_queue'),
                    Given(w)', step'[w] \in {"reset", "reset_set"}, current'[w] < j,
                    Newer(current[w], timestamp[w])', is_sent(j, w)'
             PROVE  FALSE
  BY DEF ResetIsLast
<1>1. /\ current'[w] = current[w] /\ step[w] \in {"reset", "reset_set"}
      /\ ~ Given(w) => step'[w] = step[w]
  BY IdleKeepsPlace, ResettingKeepsPlace DEF Ground
<1>2. current[w] \in 1 .. Len(msg_queue)
  BY <1>1 DEF Ground, TypeOK, CursorInv, NULL
<1>3. Units(timestamp'[w]) < Time(current[w])
  <2>1. \A m \in 1 .. Len(msg_queue) : msg_queue'[m].timestamp = msg_queue[m].timestamp
    BY EntriesStayStep DEF EntriesStay, Ground
  <2>2. QED
    BY <1>1, <1>2, <2>1 DEF Newer, Time
<1>4. j \in 1 .. Len(msg_queue)
  BY BitOrigin DEF Ground
<1>5. CASE ~ Given(w)
  <2>1. Holding /\ timestamp'[w] = client_ts /\ msg_queue' = msg_queue
    BY <1>5, GivenStep DEF Ground, otherVars, queueVars
  <2>2. is_sent(j, w)
    BY <2>1 DEF is_sent
  <2>3. QED
    BY <1>1, <1>3, <1>4, <1>5, <2>1, <2>2 DEF MarksInv, HeldResetIsLast, Newer
<1>6. CASE Given(w)
  <2>1. Units(timestamp[w]) < Time(current[w])
    BY <1>3, <1>6, GivenStep DEF Ground
  <2>2. \A v \in Worker : Given(v) /\ SameBit(v, w) => v = w
    BY <1>6 DEF Ground, GivenFacts
  <2>3. is_sent(j, w)
    <3>1. ASSUME NEW v \in Worker, W_MarkSent(v), SameBit(v, w) PROVE FALSE
      BY <1>1, <2>2, <3>1, BitWriters DEF Ground
    <3>2. QED
      BY <1>4, <3>1, BitOrigin DEF Ground
  <2>4. QED
    BY <1>1, <1>4, <1>6, <2>1, <2>3 DEF MarksInv, ResetIsLast, Newer
<1>7. QED
  BY <1>5, <1>6

\* The bits of messages newer than the client in the dst server's hands.
LEMMA HeldSentFirstStep ==
    ASSUME Ground, Ground', MarksInv, [Next]_vars
    PROVE  HeldSentFirst'
<1> SUFFICES ASSUME Holding', NEW w \in Worker,
                    NEW i \in 1 .. Len(msg_queue'), NEW j \in 1 .. Len(msg_queue'),
                    i < j, Units(client_ts') < Time(i)', Clear(i, w)', is_sent(j, w)'
             PROVE  FALSE
  BY DEF HeldSentFirst, Newer
<1>1. j \in 1 .. Len(msg_queue) /\ i \in 1 .. Len(msg_queue)
  <2>1. j \in 1 .. Len(msg_queue)
    BY BitOrigin DEF Ground
  <2>2. Len(msg_queue) \in Nat
    BY DEF Ground, TypeOK
  <2>3. QED
    BY <2>1, <2>2
<1>2. Holding /\ Units(client_ts) < Time(i)
  BY <1>1, OldEntries, FreshStamp
<1>3. Clear(i, w)
  <2>1. ASSUME NEW v \in Worker, W_ResetSent(v), i = current[v], SameBit(v, w) PROVE FALSE
    BY <1>2, <2>1, BitWriters DEF Ground, MarksInv, GivenBefore, Newer
  <2>2. QED
    BY <1>1, <2>1, BitOrigin DEF Ground
<1>4. is_sent(j, w)
  <2>1. ASSUME NEW v \in Worker, W_MarkSent(v), j = current[v], SameBit(v, w) PROVE FALSE
    <3>1. Clear(i, v)
      BY <1>3, <2>1, SameBitSame
    <3>2. Given(v) /\ worker_pc[v] = "serving" /\ Due(v) = j
      BY <2>1, BitWriters DEF Ground
    <3>3. Due(v) <= i
      BY <1>1, <1>2, <3>1, <3>2 DEF MarksInv, GivenMarks, Newer
    <3>4. QED
      BY <3>2, <3>3
  <2>2. QED
    BY <1>1, <2>1, BitOrigin DEF Ground
<1>5. QED
  BY <1>1, <1>2, <1>3, <1>4 DEF MarksInv, HeldSentFirst, Newer

\* What a worker without a client will reset, if it gets that one.
LEMMA HeldResetIsLastStep ==
    ASSUME Ground, Ground', MarksInv, [Next]_vars
    PROVE  HeldResetIsLast'
<1> SUFFICES ASSUME Holding', NEW w \in Worker, NEW j \in 1 .. Len(msg_queue'),
                    step'[w] \in {"reset", "reset_set"}, ~ Given(w)', current'[w] < j,
                    Newer(current[w], client_ts)', is_sent(j, w)'
             PROVE  FALSE
  BY DEF HeldResetIsLast
<1>1. current'[w] \in 1 .. Len(msg_queue')
  BY DEF Ground, TypeOK, CursorInv, NULL
<1>2. \E m \in 1 .. Len(msg_queue') : Units(client_ts') < Time(m)'
  BY <1>1 DEF Newer, Time
<1>3. Holding /\ client_ts' = client_ts
  BY <1>2, FreshStamp
<1>4. j \in 1 .. Len(msg_queue)
  BY BitOrigin DEF Ground
<1>5. ASSUME current'[w] = current[w], current[w] \in 1 .. Len(msg_queue)
      PROVE  Units(client_ts) < Time(current[w])
  <2>1. \A m \in 1 .. Len(msg_queue) : msg_queue'[m].timestamp = msg_queue[m].timestamp
    BY EntriesStayStep DEF EntriesStay, Ground
  <2>2. QED
    BY <1>3, <1>5, <2>1 DEF Newer, Time
<1>6. CASE ~ Given(w)
  <2>0. current'[w] = current[w] /\ step[w] \in {"reset", "reset_set"}
    BY <1>6, IdleKeepsPlace DEF Ground
  <2>1. /\ current'[w] = current[w] /\ step[w] \in {"reset", "reset_set"}
        /\ current[w] \in 1 .. Len(msg_queue)
    BY <2>0 DEF Ground, TypeOK, CursorInv, NULL
  <2>2. is_sent(j, w)
    <3>1. ASSUME NEW v \in Worker, W_MarkSent(v), SameBit(v, w) PROVE FALSE
      <4>1. Given(v) /\ v # w
        BY <1>6, <3>1, BitWriters DEF Ground
      <4>2. w # v /\ SameBit(w, v) /\ current[w] # NULL
        BY <2>1, <3>1, <4>1 DEF SameBit, NULL
      <4>3. QED
        BY <1>3, <1>5, <2>1, <4>1, <4>2 DEF MarksInv, GivenBefore, Newer
    <3>2. QED
      BY <1>4, <3>1, BitOrigin DEF Ground
  <2>3. QED
    BY <1>3, <1>4, <1>5, <1>6, <2>1, <2>2 DEF MarksInv, HeldResetIsLast, Newer
<1>7. CASE Given(w)
  <2>1. W_NotAlive(w) \/ W_SendFailedClose(w)
    BY <1>7, GivenStep, ClosingStep DEF Ground
  <2>2. /\ current'[w] = current[w] /\ msg_queue' = msg_queue
        /\ \/ step[w] = "alive"
           \/ step[w] = "close"
    BY <2>1 DEF W_NotAlive, W_SendFailedClose, At, queueVars
  <2>3. current[w] \in 1 .. Len(msg_queue) /\ Len(msg_queue) \in Nat
    BY <2>2 DEF Ground, TypeOK, CursorInv, NULL
  <2>4. is_sent(j, w)
    BY <2>2 DEF is_sent
  <2>5. Units(client_ts) < Time(j)
    <3>1. Time(current[w]) <= Time(j) /\ Time(current[w]) \in Nat /\ Time(j) \in Nat
      BY <1>4, <2>2, <2>3, OldEntries
    <3>2. QED
      BY <1>3, <1>5, <2>2, <2>3, <3>1, StampsInUse
  <2>6. j < Due(w)
    BY <1>3, <1>4, <1>7, <2>4, <2>5 DEF MarksInv, GivenMarks, Newer
  <2>7. QED
    BY <1>4, <2>2, <2>3, <2>6 DEF Due, NULL
<1>8. QED
  BY <1>6, <1>7

\* The workers that had a client before.
LEMMA GivenBeforeStep ==
    ASSUME Ground, Ground', MarksInv, [Next]_vars
    PROVE  GivenBefore'
<1> SUFFICES ASSUME Holding', NEW w \in Worker, Given(w)'
             PROVE  /\ Units(timestamp'[w]) <= Units(client_ts')
                    /\ step'[w] \in {"reset", "reset_set"} => ~ Newer(current[w], client_ts)'
                    /\ \A u \in Worker :
                         u # w /\ SameBit(u, w) /\ current'[u] # NULL => ~ Newer(current[u], client_ts)'
  BY DEF GivenBefore, SameBit
<1>1. Given(w) /\ timestamp'[w] = timestamp[w]
  BY GivenStep DEF Ground
<1>2. CASE Holding /\ client_ts' = client_ts
  <2>1. ASSUME NEW u \in Worker, current'[u] = current[u], current[u] # NULL, ~ Newer(current[u], client_ts)
        PROVE  ~ Newer(current[u], client_ts)'
    <3>1. current[u] \in 1 .. Len(msg_queue)
      BY <2>1, SMTT(30) DEF Ground, TypeOK, CursorInv, NULL
    <3>2. \A m \in 1 .. Len(msg_queue) : msg_queue'[m].timestamp = msg_queue[m].timestamp
      BY EntriesStayStep DEF EntriesStay, Ground
    <3>3. QED
      BY <1>2, <2>1, <3>1, <3>2 DEF Newer, Time
  <2>2. Units(timestamp'[w]) <= Units(client_ts')
    BY <1>1, <1>2 DEF MarksInv, GivenBefore
  <2>3. ASSUME step'[w] \in {"reset", "reset_set"} PROVE ~ Newer(current[w], client_ts)'
    <3>1. step[w] \in {"reset", "reset_set"} /\ current'[w] = current[w]
      BY <1>1, <2>3, ResettingKeepsPlace DEF Ground
    <3>2. current[w] # NULL
      BY <3>1 DEF Ground, CursorInv
    <3>3. QED
      BY <1>1, <1>2, <2>1, <3>1, <3>2 DEF MarksInv, GivenBefore
  <2>4. ASSUME NEW u \in Worker, u # w, SameBit(u, w), current'[u] # NULL
        PROVE  ~ Newer(current[u], client_ts)'
    <3>1. ~ Given(u)
      BY <1>1, <2>4 DEF Ground, GivenFacts
    <3>2. current'[u] = current[u]
      BY <3>1, IdleKeepsPlace DEF Ground
    <3>3. QED
      BY <1>1, <1>2, <2>1, <2>4, <3>2 DEF MarksInv, GivenBefore
  <2>5. QED
    BY <2>2, <2>3, <2>4
<1>3. CASE /\ \A m \in 1 .. Len(msg_queue') : ~ (Units(client_ts') < Time(m)')
           /\ Units(client_ts') = clock
  <2>1. ASSUME NEW u \in Worker, current'[u] # NULL PROVE ~ Newer(current[u], client_ts)'
    <3>1. current'[u] \in 1 .. Len(msg_queue')
      BY <2>1, SMTT(30) DEF Ground, TypeOK, CursorInv, NULL
    <3>2. QED
      BY <1>3, <3>1 DEF Newer, Time
  <2>2. Units(timestamp'[w]) <= Units(client_ts')
    BY <1>1, <1>3, StampsInUse
  <2>3. step'[w] \in {"reset", "reset_set"} => current'[w] # NULL
    BY DEF Ground, CursorInv
  <2>4. QED
    BY <2>1, <2>2, <2>3
<1>4. QED
  BY <1>2, <1>3, FreshStamp

\* What those workers are done with.
LEMMA GivenMarksStep ==
    ASSUME Ground, Ground', MarksInv, [Next]_vars
    PROVE  GivenMarks'
<1> SUFFICES ASSUME Holding', NEW w \in Worker, NEW m \in 1 .. Len(msg_queue'),
                    Given(w)', Units(client_ts') < Time(m)'
             PROVE  /\ is_sent(m, w)' => m < Due(w)'
                    /\ worker_pc'[w] = "serving" /\ Clear(m, w)' => Due(w)' <= m
  BY DEF GivenMarks, Newer
<1>1. Given(w) /\ timestamp'[w] = timestamp[w]
  BY GivenStep DEF Ground
<1>2. Holding /\ client_ts' = client_ts
  BY FreshStamp
<1>3. /\ Due(w) \in Nat /\ Due(w) <= Len(msg_queue) + 1 /\ Len(msg_queue) \in Nat
      /\ DueMove(w) /\ Due(w)' \in {Due(w), Due(w) + 1}
  <2>1. Due(w) \in Nat /\ Due(w) <= Len(msg_queue) + 1 /\ DueMove(w)
    BY DueRange, PlaceStep DEF Ground
  <2>2. Len(msg_queue) \in Nat
    BY DEF Ground, TypeOK
  <2>3. QED
    BY <2>1, <2>2 DEF DueMove
<1>4. CASE m \notin 1 .. Len(msg_queue)
  <2>1. S_Insert /\ m = Len(msg_queue) + 1
    BY <1>4, QueueStep DEF Ground
  <2>2. ~ is_sent(m, w)'
    BY <1>4, BitOrigin DEF Ground
  <2>3. Due(w)' = Due(w)
    BY <2>1 DEF S_Insert, loopVars, Due
  <2>4. QED
    BY <1>3, <2>1, <2>2, <2>3
<1>5. CASE m \in 1 .. Len(msg_queue)
  <2>1. Units(client_ts) < Time(m)
    BY <1>2, <1>5, OldEntries
  <2>2. \A v \in Worker : Given(v) /\ SameBit(v, w) => v = w
    BY <1>1 DEF Ground, GivenFacts
  <2>3. ASSUME is_sent(m, w)' PROVE m < Due(w)'
    <3>1. CASE is_sent(m, w)
      <4>1. m < Due(w)
        BY <1>1, <1>2, <1>5, <2>1, <3>1 DEF MarksInv, GivenMarks, Newer
      <4>2. QED
        BY <1>3, <1>5, <4>1
    <3>2. ASSUME NEW v \in Worker, W_MarkSent(v), m = current[v], SameBit(v, w)
          PROVE  m < Due(w)'
      <4>1. v = w
        BY <2>2, <3>2, BitWriters DEF Ground
      <4>2. current'[w] = current[w] /\ step'[w] = "next"
        BY <3>2, <4>1 DEF W_MarkSent, GoTo, Ground, TypeOK
      <4>3. Due(w)' = m + 1
        BY <3>2, <4>1, <4>2 DEF Due
      <4>4. QED
        BY <1>5, <4>3
    <3>3. QED
      BY <1>5, <2>3, <3>1, <3>2, BitOrigin DEF Ground
  <2>4. ASSUME worker_pc'[w] = "serving", Clear(m, w)' PROVE Due(w)' <= m
    <3>1. Clear(m, w)
      <4>1. ASSUME NEW v \in Worker, W_ResetSent(v), m = current[v], SameBit(v, w) PROVE FALSE
        BY <1>2, <2>1, <4>1, BitWriters DEF Ground, MarksInv, GivenBefore, Newer
      <4>2. QED
        BY <1>5, <2>4, <4>1, BitOrigin DEF Ground
    <3>2. CASE worker_pc[w] = "serving"
      <4>1. Due(w) <= m
        BY <1>1, <1>2, <1>5, <2>1, <3>1, <3>2 DEF MarksInv, GivenMarks, Newer
      <4>2. ASSUME Due(w)' # Due(w), m = Due(w) PROVE FALSE
        <5>1. m = current[w] /\ (W_MarkSent(w) \/ W_NotAlive(w) \/ (W_CanForward(w) /\ step'[w] = "next"))
          BY <1>3, <4>2 DEF DueMove
        <5>2. ~ W_MarkSent(w)
          BY <1>5, <2>4, <5>1, BitOrigin DEF Ground, SameBit
        <5>3. ~ W_NotAlive(w)
          BY <2>4 DEF W_NotAlive, Pool!W_Close, Pool!Goto, Ground, PoolFacts, Pool!TypeOK, Worker
        <5>4. W_CanForward(w) /\ step'[w] = "next"
          BY <5>1, <5>2, <5>3
        <5>5. NewerThan(m, timestamp[w])
          <6>1. Units(timestamp[w]) < Time(m)
            <7>1. Units(timestamp[w]) <= Units(client_ts)
              BY <1>1, <1>2 DEF MarksInv, GivenBefore
            <7>2. Units(timestamp[w]) \in Nat /\ Units(client_ts) \in Nat /\ Time(m) \in Nat
              BY <1>1, <1>2, <1>5, StampsInUse, OldEntries
            <7>3. QED
              BY <2>1, <7>1, <7>2
          <6>2. timestamp[w] \in Stamp /\ msg_queue[m].timestamp \in Stamp
            <7>1. msg_queue[m] \in MsgEntry
              BY <1>5 DEF Ground, TypeOK
            <7>2. client_fd[w] \in Clients /\ Stamped(client_fd[w]) /\ timestamp[w] = accepted[client_fd[w]]
              BY <1>1 DEF Ground, GivenFacts, Stamped, Pool!Held
            <7>3. QED
              BY <7>1, <7>2 DEF MsgEntry, Ground, DeliveryInv, StampedInv
          <6>3. QED
            BY <6>1, <6>2, StampFacts, ComparisonIsClockOrder DEF NewerThan, Time
        <5>6. msg_queue[m].has_sent /\ ~ is_sent(m, w)
          BY <3>1 DEF Clear
        <5>7. step'[w] = "header"
          BY <5>1, <5>4, <5>5, <5>6 DEF W_CanForward, GoTo, Ground, TypeOK
        <5>8. QED
          BY <5>4, <5>7
      <4>3. QED
        BY <1>3, <1>5, <4>1, <4>2
    <3>3. CASE worker_pc[w] # "serving"
      <4>1. /\ step[w] \in {"reset", "reset_set"} /\ step'[w] = "get"
            /\ current'[w] = next[w] /\ prev'[w] = current[w]
        <5>1. worker_pc \in [Worker -> Pool!WorkerPC] /\ step \in [Worker -> StepPC]
              /\ current \in [Worker -> Msg \cup {NULL}] /\ prev \in [Worker -> Msg \cup {NULL}]
          BY DEF Ground, PoolFacts, Pool!TypeOK, Worker, TypeOK
        <5>2. step[w] \in {"reset", "reset_set"}
          BY <1>1, <3>3 DEF Ground, CursorInv, Given
        <5>3. WorkerThread(w)
          BY <2>4, <3>3, <5>2, OthersKeepPlace DEF Ground
        <5>4. W_SeesNoSent(w) \/ W_ResetSent(w)
          BY <2>4, <3>3, <5>1, <5>3 DEF WorkerThread, W_Get, W_AwaitMsg, W_Alive, W_NotAlive, W_CanForward,
             W_SendHeader, W_SendData, W_SendFails, W_MarkSent, W_Next, W_SendFailedClose, W_BecomeReady,
             W_SeesSent, W_Dies, Crash, At, poolVars, Pool!W_Lock, Pool!W_SetReady, Pool!W_ClearBit,
             Pool!W_Wait, Pool!W_LeaveWait, Pool!W_Reacquire, Pool!Goto
        <5>5. QED
          BY <5>1, <5>2, <5>4 DEF W_SeesNoSent, W_ResetSent, Resume, GoTo
      <4>2. /\ current[w] \in 1 .. Len(msg_queue)
            /\ next[w] \in {NULL, current[w], current[w] + 1}
        BY <4>1 DEF Ground, TypeOK, CursorInv, NULL, NextInv, NextAt
      <4>3. current[w] < m
        <5>1. ~ (Units(client_ts) < Time(current[w]))
          BY <1>1, <1>2, <4>1 DEF MarksInv, GivenBefore, Newer
        <5>2. m <= current[w] => Time(m) <= Time(current[w])
          BY <1>5, <4>2, OldEntries
        <5>3. Time(m) \in Nat /\ Time(current[w]) \in Nat /\ Units(client_ts) \in Nat
          BY <1>2, <1>5, <4>2, StampsInUse, OldEntries
        <5>4. QED
          BY <1>3, <1>5, <2>1, <4>2, <5>1, <5>2, <5>3
      <4>4. Due(w)' <= current[w] + 1
        BY <1>3, <4>1, <4>2 DEF Due, NULL
      <4>5. QED
        BY <1>3, <1>5, <4>2, <4>3, <4>4
    <3>4. QED
      BY <3>2, <3>3
  <2>5. QED
    BY <2>3, <2>4
<1>6. QED
  BY <1>4, <1>5

\* The pattern of the bits holds in every reachable state: for every number of
\* workers, be they so many that they share bits, and every order in which
\* clients come, go and get a worker that has served others.
THEOREM MarksHold == Spec => []MarksInv
<1>1. Init => MarksInv
  <2> SUFFICES ASSUME Init PROVE MarksInv
    OBVIOUS
  <2>1. msg_queue = <<>> /\ dst_pc = "accept" /\ Len(msg_queue) = 0
    BY DEF Init, Pool!Init
  <2>2. ~ Holding
    BY <2>1 DEF Holding
  <2>3. 1 .. Len(msg_queue) = {}
    BY <2>1
  <2>4. QED
    BY <2>2, <2>3 DEF MarksInv, SentFirst, ResetIsLast, HeldSentFirst, HeldResetIsLast, GivenBefore, GivenMarks
<1>2. Ground /\ Ground' /\ MarksInv /\ [Next]_vars => MarksInv'
  BY SentFirstStep, ResetIsLastStep, HeldSentFirstStep, HeldResetIsLastStep, GivenBeforeStep,
     GivenMarksStep DEF MarksInv
<1>3. QED
  BY <1>1, <1>2, GroundHolds, PTL DEF Spec
=============================================================================
