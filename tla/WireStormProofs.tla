-------------------------- MODULE WireStormProofs --------------------------
(***************************************************************************)
(* Proofs about the whole server, for every number of workers, clients and *)
(* messages, every TTL and every clock.  First, timestamps are ordered as  *)
(* the clock is; then, the server uses the worker pool as WorkerPool.tla   *)
(* describes it, so that the pool's invariant holds in the server; then,   *)
(* no thread ever leaves the queue.                                        *)
(***************************************************************************)
EXTENDS WireStorm, SequenceTheorems, TLAPS

-----------------------------------------------------------------------------
(* compare_times() is the order of the clock, for every number of units in *)
(* a second.  The proofs about the server reason with Units only.          *)

\* A later second is later by at least all the units of one second.
LEMMA LaterSecond ==
    ASSUME NEW x \in Nat, NEW y \in Nat, x < y
    PROVE  x * NsecPerSec + NsecPerSec <= y * NsecPerSec
<1>1. PICK d \in Nat : y = x + 1 + d
  <2>1. y - x - 1 \in Nat /\ y = x + 1 + (y - x - 1)
    OBVIOUS
  <2>2. QED
    BY <2>1
<1>2. y * NsecPerSec = x * NsecPerSec + NsecPerSec + d * NsecPerSec
  BY <1>1, NsecAssumption
<1>3. d * NsecPerSec \in Nat /\ x * NsecPerSec \in Nat
  BY NsecAssumption
<1>4. QED
  BY <1>2, <1>3, NsecAssumption

\* A timespec stands for a reading of the clock.
LEMMA UnitsType ==
    ASSUME NEW ts \in timespec
    PROVE  Units(ts) \in Nat
<1>1. ts.tv_sec * NsecPerSec \in Nat /\ ts.tv_nsec \in Nat
  BY NsecAssumption DEF timespec
<1>2. QED
  BY <1>1 DEF Units

\* get_clock_time() loses nothing of the clock's reading.
LEMMA ClockReading ==
    ASSUME NEW t \in Nat
    PROVE  /\ get_clock_time(t) \in timespec
           /\ Units(get_clock_time(t)) = t
<1>1. /\ t \div NsecPerSec \in Nat
      /\ t % NsecPerSec \in 0 .. NsecPerSec - 1
      /\ t = (NsecPerSec * (t \div NsecPerSec)) + (t % NsecPerSec)
  BY NsecAssumption
<1>2. NsecPerSec * (t \div NsecPerSec) = (t \div NsecPerSec) * NsecPerSec
  BY <1>1, NsecAssumption
<1>3. QED
  BY <1>1, <1>2 DEF get_clock_time, timespec, Units

\* compare_times(), which compares the seconds and only then the nanoseconds,
\* says which of two readings of the clock came first.
THEOREM ComparisonIsClockOrder ==
    ASSUME NEW a \in timespec, NEW b \in timespec
    PROVE  compare_times(a, b) <=> Units(a) < Units(b)
<1> DEFINE s == a.tv_sec
           t == b.tv_sec
<1>1. /\ s \in Nat /\ a.tv_nsec \in 0 .. NsecPerSec - 1
      /\ t \in Nat /\ b.tv_nsec \in 0 .. NsecPerSec - 1
  BY DEF timespec
<1>2. s * NsecPerSec \in Nat /\ t * NsecPerSec \in Nat /\ NsecPerSec \in Nat
  BY <1>1, NsecAssumption
<1>3. Units(a) = s * NsecPerSec + a.tv_nsec /\ Units(b) = t * NsecPerSec + b.tv_nsec
  BY DEF Units
<1>4. compare_times(a, b) <=> IF s = t THEN a.tv_nsec < b.tv_nsec ELSE s < t
  BY DEF compare_times
<1> HIDE DEF s, t
<1>5. CASE s < t
  <2>1. s * NsecPerSec + NsecPerSec <= t * NsecPerSec
    BY <1>1, <1>5, LaterSecond
  <2>2. QED
    BY <1>1, <1>2, <1>3, <1>4, <1>5, <2>1
<1>6. CASE t < s
  <2>1. t * NsecPerSec + NsecPerSec <= s * NsecPerSec
    BY <1>1, <1>6, LaterSecond
  <2>2. QED
    BY <1>1, <1>2, <1>3, <1>4, <1>6, <2>1
<1>7. CASE s = t
  BY <1>1, <1>2, <1>3, <1>4, <1>7
<1>8. QED
  BY <1>1, <1>5, <1>6, <1>7

\* Adding the TTL to the seconds adds that many seconds to the reading.
LEMMA PlusSeconds ==
    ASSUME NEW ts \in timespec, NEW sec \in Nat
    PROVE  /\ plus_seconds(ts, sec) \in timespec
           /\ Units(plus_seconds(ts, sec)) = Units(ts) + sec * NsecPerSec
<1>1. /\ ts.tv_sec \in Nat /\ ts.tv_nsec \in 0 .. NsecPerSec - 1
      /\ plus_seconds(ts, sec) = [tv_sec |-> ts.tv_sec + sec, tv_nsec |-> ts.tv_nsec]
  BY DEF timespec, plus_seconds
<1>2. (ts.tv_sec + sec) * NsecPerSec = ts.tv_sec * NsecPerSec + sec * NsecPerSec
  BY <1>1, NsecAssumption
<1>3. /\ ts.tv_sec * NsecPerSec \in Nat /\ sec * NsecPerSec \in Nat
  BY <1>1, NsecAssumption
<1>4. QED
  BY <1>1, <1>2, <1>3, NsecAssumption DEF timespec, Units

-----------------------------------------------------------------------------
(* The server and the worker pool.                                         *)

\* The proofs of the pool, about the variables of the server.
PoolProofs == INSTANCE WorkerPoolProofs WITH Stamps <- Stamp

\* The clock stays within its bounds, so that what it stamps is a stamp.
ClockOK == clock \in Clock

\* Only Tick moves the clock.
LEMMA ClockMover == Next => Tick \/ UNCHANGED clock
<1> SUFFICES ASSUME Next PROVE Tick \/ UNCHANGED clock
  OBVIOUS
<1>1. CASE Environment
  BY <1>1 DEF Environment, S_InitEntry, DstAccept, PeerGone, SpuriousMsgWakeup,
              SpuriousFdWakeup, otherVars
<1>2. CASE SourceThread
  BY <1>2 DEF SourceThread, S_Insert
<1>3. CASE DstServerThread
  BY <1>3 DEF DstServerThread, DstStep, otherVars
<1>4. CASE CleanupThread
  BY <1>4 DEF CleanupThread, C_Get, C_AwaitMsg, C_Check, C_FreeSent, C_FreeMsg, C_Next
<1>5. CASE \E w \in Worker : WorkerThread(w)
  BY <1>5 DEF WorkerThread, W_Get, W_AwaitMsg, W_Alive, W_NotAlive, W_CanForward,
              W_SendHeader, W_SendData, W_SendFails, W_MarkSent, W_Next,
              W_SendFailedClose, W_BecomeReady, W_SeesSent, W_SeesNoSent, Resume,
              W_ResetSent, W_Dies, Crash
<1>6. QED
  BY <1>1, <1>2, <1>3, <1>4, <1>5 DEF Next

\* The clock starts within its bounds and keeps to them.
LEMMA ClockStep ==
    /\ Init => ClockOK
    /\ ClockOK /\ [Next]_vars => ClockOK'
<1>1. Init => ClockOK
  BY ServerAssumption DEF Init, ClockOK, Clock
<1>2. ClockOK /\ UNCHANGED clock => ClockOK'
  BY DEF ClockOK
<1>3. ClockOK /\ Tick => ClockOK'
  BY ServerAssumption DEF ClockOK, Clock, Tick
<1>4. QED
  BY <1>1, <1>2, <1>3, ClockMover DEF vars

\* The steps of threads that have nothing to do with the pool leave its state
\* alone; the others are its steps, and they stamp a client with the time.
PoolMove ==
    \/ \E c \in Clients : Pool!D_Accept(c)
    \/ Pool!D_Stamp(Now)
    \/ Pool!DstStep
    \/ \E w \in Worker : Pool!W_Close(w) \/ Pool!W_Spurious(w) \/ Pool!WorkerStep(w)
    \/ UNCHANGED Pool!poolVars

\* Each step of the process is a step of the dst server, of lib/thread.c or of the
\* block behind conn_closed, or leaves the worker pool alone.
LEMMA PoolMoves == [Next]_vars => PoolMove
<1> SUFFICES ASSUME [Next]_vars PROVE PoolMove
  OBVIOUS
<1>0. UNCHANGED poolVars => PoolMove
  BY DEF poolVars, Pool!poolVars, Pool!listVars, Pool!dstVars, Pool!connVars, PoolMove
<1>1. CASE Environment
  <2>1. ASSUME NEW c \in Clients, DstAccept(c) PROVE PoolMove
    BY <2>1 DEF DstAccept, PoolMove
  <2>2. ASSUME NEW w \in Worker, SpuriousFdWakeup(w) PROVE PoolMove
    BY <2>2 DEF SpuriousFdWakeup, PoolMove
  <2>3. QED
    BY <1>0, <1>1, <2>1, <2>2
       DEF Environment, Tick, S_InitEntry, PeerGone, SpuriousMsgWakeup
<1>2. CASE SourceThread
  BY <1>0, <1>2 DEF SourceThread, S_Insert
<1>3. CASE DstServerThread
  BY <1>3 DEF DstServerThread, DstStep, PoolMove
<1>4. CASE CleanupThread
  BY <1>0, <1>4 DEF CleanupThread, C_Get, C_AwaitMsg, C_Check, C_FreeSent, C_FreeMsg, C_Next
<1>5. ASSUME NEW w \in Worker, WorkerThread(w) PROVE PoolMove
  <2>1. Pool!W_Close(w) \/ Pool!WorkerStep(w) => PoolMove
    BY DEF PoolMove
  <2>2. CASE W_NotAlive(w) \/ W_SendFailedClose(w)
    BY <2>1, <2>2 DEF W_NotAlive, W_SendFailedClose
  <2>3. CASE W_BecomeReady(w)
    BY <2>1, <2>3 DEF W_BecomeReady, Pool!WorkerStep
  <2>4. CASE W_SeesNoSent(w) \/ W_ResetSent(w)
    BY <2>1, <2>4 DEF W_SeesNoSent, W_ResetSent, Resume, Pool!WorkerStep
  <2>5. QED
    BY <1>0, <1>5, <2>2, <2>3, <2>4
       DEF WorkerThread, W_Get, W_AwaitMsg, W_Alive, W_CanForward, W_SendHeader,
           W_SendData, W_SendFails, W_MarkSent, W_Next, W_SeesSent, W_Dies, Crash
<1>6. CASE UNCHANGED vars
  BY <1>0, <1>6 DEF vars
<1>7. QED
  BY <1>1, <1>2, <1>3, <1>4, <1>5, <1>6 DEF Next

\* These are steps of WorkerPool.tla: the clock yields one of its stamps.
LEMMA PoolStep == ClockOK /\ [Next]_vars => [Pool!Next]_(Pool!poolVars)
<1>1. ClockOK => Now \in Stamp
  BY DEF ClockOK, Now, Stamp
<1>2. QED
  BY <1>1, PoolMoves DEF PoolMove, Pool!Next, Worker

-----------------------------------------------------------------------------
(* The pool's invariant in the server.                                     *)

\* What the pool's proofs assume of the constants.
LEMMA PoolConstants == PoolProofs!WidthAssumption /\ PoolProofs!PoolAssumption
<1>1. FirstClock \in Clock
  BY ServerAssumption DEF Clock
<1>2. Stamp # {}
  BY <1>1 DEF Stamp
<1>3. QED
  BY <1>2, ServerPoolAssumption DEF PoolProofs!WidthAssumption, PoolProofs!PoolAssumption

\* The pool of the proofs is the pool of the server.
LEMMA SamePool ==
    /\ PoolProofs!Init <=> Pool!Init
    /\ PoolProofs!Next <=> Pool!Next
    /\ PoolProofs!poolVars = Pool!poolVars
    /\ PoolProofs!TypeOK <=> Pool!TypeOK
    /\ PoolProofs!NoClientDropped <=> Pool!NoClientDropped
    /\ PoolProofs!SoleOwner <=> Pool!SoleOwner
<1> USE DEF Pool!Worker, Pool!THREAD_AVAILABLE, Pool!THREAD_BUSY, Pool!THREAD_READY,
            Pool!INITIAL_DELAY, Pool!listVars, Pool!dstVars, Pool!connVars, Pool!Goto,
            Pool!ShiftCount, Pool!BitsOf, Pool!is_set, Pool!set_bit,
            PoolProofs!Worker, PoolProofs!THREAD_AVAILABLE, PoolProofs!THREAD_BUSY,
            PoolProofs!THREAD_READY, PoolProofs!INITIAL_DELAY, PoolProofs!listVars,
            PoolProofs!dstVars, PoolProofs!connVars, PoolProofs!Goto,
            PoolProofs!ShiftCount, PoolProofs!BitsOf, PoolProofs!is_set, PoolProofs!set_bit
<1>1. PoolProofs!Init <=> Pool!Init
  BY DEF PoolProofs!Init, Pool!Init
<1>2. PoolProofs!poolVars = Pool!poolVars
  BY DEF PoolProofs!poolVars, Pool!poolVars
<1>3. PoolProofs!Next <=> Pool!Next
  <2>1. PoolProofs!DstStep <=> Pool!DstStep
    BY DEF PoolProofs!DstStep, Pool!DstStep,
           PoolProofs!D_FindIdle, Pool!D_FindIdle, PoolProofs!D_FindBusy, Pool!D_FindBusy,
           PoolProofs!D_FindNone, Pool!D_FindNone, PoolProofs!D_Backoff, Pool!D_Backoff,
           PoolProofs!D_Dispatch, Pool!D_Dispatch, PoolProofs!D_Init, Pool!D_Init,
           PoolProofs!D_InitBit, Pool!D_InitBit, PoolProofs!D_Create, Pool!D_Create,
           PoolProofs!D_Assert, Pool!D_Assert, PoolProofs!D_WakeLock, Pool!D_WakeLock,
           PoolProofs!D_WakeFd, Pool!D_WakeFd, PoolProofs!D_WakeBit, Pool!D_WakeBit,
           PoolProofs!Signal, Pool!Signal, PoolProofs!D_WakeStamp, Pool!D_WakeStamp
  <2>2. \A w : PoolProofs!WorkerStep(w) <=> Pool!WorkerStep(w)
    BY DEF PoolProofs!WorkerStep, Pool!WorkerStep, PoolProofs!W_Lock, Pool!W_Lock,
           PoolProofs!W_SetReady, Pool!W_SetReady, PoolProofs!W_ClearBit, Pool!W_ClearBit,
           PoolProofs!W_Wait, Pool!W_Wait, PoolProofs!W_LeaveWait, Pool!W_LeaveWait,
           PoolProofs!W_Reacquire, Pool!W_Reacquire, PoolProofs!W_Resume, Pool!W_Resume
  <2>3. QED
    BY <2>1, <2>2
       DEF PoolProofs!Next, Pool!Next, PoolProofs!D_Accept, Pool!D_Accept,
           PoolProofs!D_Stamp, Pool!D_Stamp, PoolProofs!W_Close, Pool!W_Close,
           PoolProofs!W_Spurious, Pool!W_Spurious
<1>4. PoolProofs!TypeOK <=> Pool!TypeOK
  BY DEF PoolProofs!TypeOK, Pool!TypeOK, PoolProofs!Mask, Pool!Mask, PoolProofs!DstPC,
         Pool!DstPC, PoolProofs!WorkerPC, Pool!WorkerPC
<1>5. PoolProofs!NoClientDropped <=> Pool!NoClientDropped
  BY DEF PoolProofs!NoClientDropped, Pool!NoClientDropped, PoolProofs!Held, Pool!Held,
         PoolProofs!Owns, Pool!Owns
<1>6. PoolProofs!SoleOwner <=> Pool!SoleOwner
  BY DEF PoolProofs!SoleOwner, Pool!SoleOwner, PoolProofs!Owns, Pool!Owns
<1>7. QED
  BY <1>1, <1>2, <1>3, <1>4, <1>5, <1>6

\* The inductive invariant of the pool.
PoolInv == PoolProofs!IInv

\* The invariant of the worker pool is one of the server.
THEOREM PoolInvHolds == Spec => [](ClockOK /\ PoolInv)
<1>1. Init => PoolInv
  <2>1. PoolProofs!Init => PoolProofs!IInv
    BY PoolConstants, PoolProofs!InitIInv
  <2>2. QED
    BY <2>1, SamePool DEF Init, PoolInv
<1>2. ClockOK /\ PoolInv /\ [Next]_vars => PoolInv'
  <2>1. PoolProofs!IInv /\ [PoolProofs!Next]_(PoolProofs!poolVars) => PoolProofs!IInv'
    BY PoolConstants, PoolProofs!NextIInv
  <2>2. [Pool!Next]_(Pool!poolVars) => [PoolProofs!Next]_(PoolProofs!poolVars)
    BY SamePool DEF Pool!poolVars, Pool!listVars, Pool!dstVars, Pool!connVars,
           PoolProofs!poolVars, PoolProofs!listVars, PoolProofs!dstVars, PoolProofs!connVars
  <2>3. QED
    BY <2>1, <2>2, PoolStep DEF PoolInv
<1>3. QED
  BY <1>1, <1>2, ClockStep, PTL DEF Spec

\* In the whole server, too, no accepted client is lost on its way to a worker,
\* and a worker runs for an open connection that is its alone, with that
\* client's timestamp.
THEOREM ServerKeepsClients == Spec => [](Pool!NoClientDropped /\ Pool!SoleOwner)
<1>1. PoolProofs!IInv => PoolProofs!NoClientDropped
  BY DEF PoolProofs!IInv, PoolProofs!ClientInv
<1>2. PoolProofs!IInv => PoolProofs!SoleOwner
  BY PoolConstants, PoolProofs!IInvSoleOwner
<1>3. PoolInv => Pool!NoClientDropped /\ Pool!SoleOwner
  BY <1>1, <1>2, SamePool DEF PoolInv
<1>4. QED
  BY <1>3, PoolInvHolds, PTL

\* What the proofs about the queue use of the pool: types; a worker that runs
\* has an open client that is no longer in the dst server's hands; the dst
\* server starts a thread only for a worker that has none, and writes to the
\* fields of a worker only while that one does not run.
PoolFacts ==
    /\ Pool!TypeOK
    /\ \A w \in Worker : worker_pc[w] = "serving" =>
         /\ client_fd[w] \in Clients
         /\ conn[client_fd[w]] = "open"
         /\ timestamp[w] = accepted[client_fd[w]]
         /\ ~ Pool!Held(client_fd[w])
    /\ dst_pc # "accept" => new_fd \in Clients /\ conn[new_fd] = "open"
    /\ dst_pc \in {"init", "init_bit", "create"} => worker_pc[thread_index] = "none"
    /\ dst_pc \in {"wake_fd", "wake_bit", "wake_stamp"} =>
         worker_pc[thread_index] \in {"check", "waiting", "signalled"}

\* They follow from the invariant of the pool (lib/thread.c, run_dst_server()).
LEMMA PoolInvFacts == PoolInv => PoolFacts
<1> SUFFICES ASSUME PoolInv PROVE PoolFacts
  OBVIOUS
<1>1. PoolProofs!IInv /\ PoolProofs!PlaceInv /\ PoolProofs!ClientInv
  BY DEF PoolInv, PoolProofs!IInv
<1>2. Pool!TypeOK /\ Worker = PoolProofs!Worker
  BY <1>1, SamePool DEF PoolProofs!IInv, Worker, Pool!Worker, PoolProofs!Worker
<1>3. ASSUME NEW w \in Worker, worker_pc[w] = "serving"
      PROVE  /\ client_fd[w] \in Clients
             /\ conn[client_fd[w]] = "open"
             /\ timestamp[w] = accepted[client_fd[w]]
             /\ ~ Pool!Held(client_fd[w])
  <2>1. PoolProofs!HasClient(w) /\ ~ PoolProofs!HandingOver(w)
    BY <1>1, <1>3
       DEF PoolProofs!PlaceInv, PoolProofs!ChosenPlace, PoolProofs!HasClient, PoolProofs!HandingOver
  <2>2. QED
    BY <1>1, <1>2, <2>1
       DEF PoolProofs!ClientInv, PoolProofs!ClientOfWorker, PoolProofs!Held, Pool!Held
<1>4. dst_pc # "accept" => new_fd \in Clients /\ conn[new_fd] = "open"
  BY <1>1 DEF PoolProofs!ClientInv, PoolProofs!HeldIsOpen
<1>5. /\ dst_pc \in {"init", "init_bit", "create"} => worker_pc[thread_index] = "none"
      /\ dst_pc \in {"wake_fd", "wake_bit", "wake_stamp"} =>
           worker_pc[thread_index] \in {"check", "waiting", "signalled"}
  BY <1>1 DEF PoolProofs!PlaceInv, PoolProofs!ChosenPlace, PoolProofs!InWait
<1>6. QED
  BY <1>2, <1>3, <1>4, <1>5 DEF PoolFacts

\* They hold whenever the server runs: a running worker has its own open client and
\* the dst server writes to the fields of no running worker (wake_up_thread()).
THEOREM PoolFactsHold == Spec => [](ClockOK /\ PoolFacts)
BY PoolInvFacts, PoolInvHolds, PTL

-----------------------------------------------------------------------------
(* No thread leaves the queue.                                             *)

\* Where the threads may be in the queue.
CursorInv ==
    /\ src_pc = "insert" => Len(msg_queue) < MaxMsgs /\ src_ts \in Stamp
    /\ \A w \in Worker :
         /\ current[w] \in 0 .. Len(msg_queue)
         /\ prev[w] \in 0 .. Len(msg_queue)
         /\ next[w] \in 0 .. Len(msg_queue)
         /\ step[w] # "get" => current[w] # NULL
         /\ worker_pc[w] = "none" => step[w] = "get"
         /\ worker_pc[w] = "serving" => step[w] \notin {"reset", "reset_set"}
         /\ worker_pc[w] \notin {"none", "serving"} =>
              step[w] = "reset" \/ (worker_pc[w] = "woken" /\ step[w] = "reset_set")
    /\ cl_current \in 0 .. Len(msg_queue)
    /\ cl_prev \in 0 .. Len(msg_queue)
    /\ cl_pc # "get" => cl_current # NULL

\* The queue after a write to one of its entries: to the whole entry, to one bit
\* of it (set_sent()), and the two writes of free_msg_data().
WithEntry(q, m, e) == [q EXCEPT ![m] = e]
WithBit(q, m, w, val) == [q EXCEPT ![m].sent = Pool!set_bit(@, w, val)]
WithoutSent(q, m) == [q EXCEPT ![m].has_sent = FALSE, ![m].sent = {}]
WithoutMsg(q, m) == [q EXCEPT ![m].has_msg = FALSE]

\* A write changes the entry it is made to.
LEMMA WithEntryFacts ==
    ASSUME NEW q \in Seq(MsgEntry), NEW m \in 1 .. Len(q), NEW e \in MsgEntry
    PROVE  /\ WithEntry(q, m, e) \in Seq(MsgEntry)
           /\ Len(WithEntry(q, m, e)) = Len(q)
           /\ \A i \in 1 .. Len(q) : WithEntry(q, m, e)[i] = IF i = m THEN e ELSE q[i]
BY ExceptSeq DEF WithEntry

\* set_sent() changes nothing but that bit.
LEMMA WithBitFacts ==
    ASSUME NEW q \in Seq(MsgEntry), NEW m \in 1 .. Len(q), NEW w \in Worker, NEW val \in BOOLEAN
    PROVE  LET r == WithBit(q, m, w, val)
           IN  /\ r \in Seq(MsgEntry) /\ Len(r) = Len(q)
               /\ \A i \in 1 .. Len(q) : i # m => r[i] = q[i]
               /\ r[m].sent = Pool!set_bit(q[m].sent, w, val)
               /\ r[m].timestamp = q[m].timestamp
               /\ r[m].has_sent = q[m].has_sent /\ r[m].has_msg = q[m].has_msg
<1> DEFINE b == Pool!set_bit(q[m].sent, w, val)
           e == [q[m] EXCEPT !.sent = b]
<1>1. q[m] \in MsgEntry
  OBVIOUS
<1>2. w \in Nat
  BY ServerPoolAssumption DEF Worker, Pool!Worker
<1>3. Pool!BitsOf(w) \subseteq 0 .. MaskWidth - 1
  <2>1. PoolProofs!BitsOf(w) \subseteq 0 .. MaskWidth - 1
    BY <1>2, PoolConstants, PoolProofs!BitsOfFacts
  <2>2. PoolProofs!BitsOf(w) = Pool!BitsOf(w)
    BY DEF Pool!BitsOf, Pool!ShiftCount, PoolProofs!BitsOf, PoolProofs!ShiftCount
  <2>3. QED
    BY <2>1, <2>2
<1>4. b \in SUBSET (0 .. MaskWidth - 1)
  BY <1>1, <1>3 DEF Pool!set_bit, MsgEntry
<1> HIDE DEF b
<1>5. /\ e \in MsgEntry /\ e.sent = b
      /\ e.timestamp = q[m].timestamp
      /\ e.has_sent = q[m].has_sent /\ e.has_msg = q[m].has_msg
  BY <1>1, <1>4 DEF MsgEntry
<1>6. WithBit(q, m, w, val) = WithEntry(q, m, e)
  BY DEF WithBit, WithEntry, b
<1> HIDE DEF e
<1> DEFINE r == WithEntry(q, m, e)
<1>7. /\ r \in Seq(MsgEntry) /\ Len(r) = Len(q)
      /\ \A i \in 1 .. Len(q) : r[i] = IF i = m THEN e ELSE q[i]
  BY <1>5, WithEntryFacts
<1> HIDE DEF r
<1>8. r[m] = e /\ \A i \in 1 .. Len(q) : i # m => r[i] = q[i]
  BY <1>7
<1>9. QED
  BY <1>5, <1>6, <1>7, <1>8 DEF r, b

\* The first write of free_msg_data() ...
LEMMA WithoutSentFacts ==
    ASSUME NEW q \in Seq(MsgEntry), NEW m \in 1 .. Len(q)
    PROVE  LET r == WithoutSent(q, m)
           IN  /\ r \in Seq(MsgEntry) /\ Len(r) = Len(q)
               /\ \A i \in 1 .. Len(q) : i # m => r[i] = q[i]
               /\ r[m].timestamp = q[m].timestamp /\ r[m].has_msg = q[m].has_msg
               /\ r[m].has_sent = FALSE /\ r[m].sent = {}
<1> DEFINE e == [q[m] EXCEPT !.has_sent = FALSE, !.sent = {}]
<1>1. q[m] \in MsgEntry
  OBVIOUS
<1>2. /\ e \in MsgEntry /\ e.timestamp = q[m].timestamp /\ e.has_msg = q[m].has_msg
      /\ e.has_sent = FALSE /\ e.sent = {}
  BY <1>1 DEF MsgEntry
<1>3. WithoutSent(q, m) = WithEntry(q, m, e)
  BY DEF WithoutSent, WithEntry
<1> HIDE DEF e
<1> DEFINE r == WithEntry(q, m, e)
<1>4. /\ r \in Seq(MsgEntry) /\ Len(r) = Len(q)
      /\ \A i \in 1 .. Len(q) : r[i] = IF i = m THEN e ELSE q[i]
  BY <1>2, WithEntryFacts
<1> HIDE DEF r
<1>5. r[m] = e /\ \A i \in 1 .. Len(q) : i # m => r[i] = q[i]
  BY <1>4
<1>6. QED
  BY <1>2, <1>3, <1>4, <1>5 DEF r

\* ... and the second.
LEMMA WithoutMsgFacts ==
    ASSUME NEW q \in Seq(MsgEntry), NEW m \in 1 .. Len(q)
    PROVE  LET r == WithoutMsg(q, m)
           IN  /\ r \in Seq(MsgEntry) /\ Len(r) = Len(q)
               /\ \A i \in 1 .. Len(q) : i # m => r[i] = q[i]
               /\ r[m].timestamp = q[m].timestamp /\ r[m].has_sent = q[m].has_sent
               /\ r[m].sent = q[m].sent /\ r[m].has_msg = FALSE
<1> DEFINE e == [q[m] EXCEPT !.has_msg = FALSE]
<1>1. q[m] \in MsgEntry
  OBVIOUS
<1>2. /\ e \in MsgEntry /\ e.timestamp = q[m].timestamp /\ e.has_sent = q[m].has_sent
      /\ e.sent = q[m].sent /\ e.has_msg = FALSE
  BY <1>1 DEF MsgEntry
<1>3. WithoutMsg(q, m) = WithEntry(q, m, e)
  BY DEF WithoutMsg, WithEntry
<1> HIDE DEF e
<1> DEFINE r == WithEntry(q, m, e)
<1>4. /\ r \in Seq(MsgEntry) /\ Len(r) = Len(q)
      /\ \A i \in 1 .. Len(q) : r[i] = IF i = m THEN e ELSE q[i]
  <2>1. e \in MsgEntry
    BY <1>2
  <2>2. QED
    BY <2>1, WithEntryFacts, ZenonT(30)
<1> HIDE DEF r
<1>5. r[m] = e /\ \A i \in 1 .. Len(q) : i # m => r[i] = q[i]
  BY <1>4
<1>6. QED
  BY <1>2, <1>3, <1>4, <1>5 DEF r

\* An entry keeps its place, its timestamp and its pointers.
Kept(q, r) ==
    /\ r \in Seq(MsgEntry) /\ Len(r) = Len(q)
    /\ \A i \in 1 .. Len(q) :
         /\ r[i].timestamp = q[i].timestamp
         /\ r[i].has_sent = q[i].has_sent
         /\ r[i].has_msg = q[i].has_msg

\* set_sent() as a write to the queue.
LEMMA SetSentFacts ==
    ASSUME TypeOK, NEW m \in 1 .. Len(msg_queue), NEW w \in Worker, NEW val \in BOOLEAN,
           set_sent(m, w, val)
    PROVE  /\ msg_queue' = IF msg_queue[m].has_sent THEN WithBit(msg_queue, m, w, val)
                           ELSE msg_queue
           /\ Kept(msg_queue, msg_queue')
<1>1. msg_queue \in Seq(MsgEntry)
  BY DEF TypeOK
<1>2. msg_queue' = IF msg_queue[m].has_sent THEN WithBit(msg_queue, m, w, val) ELSE msg_queue
  BY DEF set_sent, WithBit
<1>3. Kept(msg_queue, WithBit(msg_queue, m, w, val))
  <2> DEFINE r == WithBit(msg_queue, m, w, val)
  <2>1. /\ r \in Seq(MsgEntry) /\ Len(r) = Len(msg_queue)
        /\ \A i \in 1 .. Len(msg_queue) : i # m => r[i] = msg_queue[i]
        /\ r[m].timestamp = msg_queue[m].timestamp
        /\ r[m].has_sent = msg_queue[m].has_sent /\ r[m].has_msg = msg_queue[m].has_msg
    BY <1>1, WithBitFacts
  <2> HIDE DEF r
  <2>2. Kept(msg_queue, r)
    BY <2>1 DEF Kept
  <2>3. QED
    BY <2>2 DEF r
<1>4. Kept(msg_queue, msg_queue)
  BY <1>1 DEF Kept
<1>5. QED
  BY <1>2, <1>3, <1>4

\* The two writes of free_msg_data() keep the entry's place and its timestamp.
LEMMA FreeFacts ==
    ASSUME TypeOK, CursorInv, C_FreeSent \/ C_FreeMsg
    PROVE  /\ cl_current \in 1 .. Len(msg_queue)
           /\ msg_queue' \in Seq(MsgEntry) /\ Len(msg_queue') = Len(msg_queue)
           /\ \A i \in 1 .. Len(msg_queue) :
                /\ msg_queue'[i].timestamp = msg_queue[i].timestamp
                /\ i # cl_current => msg_queue'[i] = msg_queue[i]
<1>1. msg_queue \in Seq(MsgEntry) /\ cl_current \in 1 .. Len(msg_queue)
  BY DEF C_FreeSent, C_FreeMsg, CursorInv, TypeOK, NULL
<1>2. CASE C_FreeSent
  <2>1. msg_queue' = WithoutSent(msg_queue, cl_current)
    BY <1>2 DEF C_FreeSent, WithoutSent
  <2>2. QED
    BY <1>1, <2>1, WithoutSentFacts
<1>3. CASE C_FreeMsg
  <2>1. msg_queue' = WithoutMsg(msg_queue, cl_current)
    BY <1>3 DEF C_FreeMsg, WithoutMsg
  <2>2. QED
    BY <1>1, <2>1, WithoutMsgFacts
<1>4. QED
  BY <1>2, <1>3

\* TAILQ_NEXT stays in the queue ...
LEMMA TailqNextInQueue ==
    ASSUME TypeOK, NEW m \in 1 .. Len(msg_queue)
    PROVE  /\ TailqNext(m) \in 0 .. Len(msg_queue)
           /\ TailqNext(m) # NULL => TailqNext(m) = m + 1
BY DEF TailqNext, NULL, TypeOK

\* ... and so does get_msg_entry(), which returns an entry.
LEMMA EntryInQueue ==
    ASSUME TypeOK, NEW cur \in 0 .. Len(msg_queue), NEW prv \in 0 .. Len(msg_queue),
           NEW to_start \in BOOLEAN, EntryReady(cur, prv)
    PROVE  get_msg_entry(cur, prv, to_start) \in 1 .. Len(msg_queue)
<1>1. Len(msg_queue) \in Nat
  BY DEF TypeOK
<1>2. CASE cur # NULL
  BY <1>1, <1>2 DEF get_msg_entry, NULL
<1>3. CASE cur = NULL
  <2>1. Len(msg_queue) >= 1
    BY <1>1, <1>3, EmptySeq DEF EntryReady, NULL, TypeOK, TailqNext
  <2>2. prv # NULL => TailqNext(prv) # NULL /\ TailqNext(prv) \in 0 .. Len(msg_queue)
    BY <1>3, TailqNextInQueue DEF EntryReady, NULL
  <2>3. QED
    BY <1>1, <1>3, <2>1, <2>2 DEF get_msg_entry, NULL
<1>4. QED
  BY <1>2, <1>3

\* What one step of the whole server does to the threads' places in the pool.
LEMMA DstPlaces ==
    ASSUME PoolFacts, Pool!D_Stamp(Now) \/ Pool!DstStep, NEW w \in Worker
    PROVE  \/ worker_pc'[w] = worker_pc[w]
           \/ worker_pc[w] = "none" /\ worker_pc'[w] = "serving"
           \/ worker_pc[w] = "waiting" /\ worker_pc'[w] = "signalled"
<1>1. worker_pc \in [Worker -> Pool!WorkerPC] /\ thread_index \in Worker
  BY DEF PoolFacts, Pool!TypeOK, Worker
<1>2. CASE Pool!D_Create
  BY <1>1, <1>2 DEF PoolFacts, Pool!D_Create
<1>3. CASE Pool!D_WakeStamp
  BY <1>1, <1>3 DEF Pool!D_WakeStamp, Pool!Signal
<1>4. QED
  BY <1>2, <1>3 DEF Pool!DstStep, Pool!D_Stamp, Pool!D_FindIdle, Pool!D_FindBusy,
     Pool!D_FindNone, Pool!D_Backoff, Pool!D_Dispatch, Pool!D_Init, Pool!D_InitBit,
     Pool!D_Assert, Pool!D_WakeLock, Pool!D_WakeFd, Pool!D_WakeBit

\* The type invariant by component.
QueueTypes ==
    /\ msg_queue \in Seq(MsgEntry) /\ Len(msg_queue) <= MaxMsgs
    /\ msg_waiters \subseteq Worker \cup {Cleaner}
    /\ src_pc \in {"read", "insert"}
    /\ src_ts \in Stamp \cup {NoStamp}
LoopTypes ==
    /\ step \in [Worker -> StepPC]
    /\ current \in [Worker -> Msg \cup {NULL}]
    /\ prev \in [Worker -> Msg \cup {NULL}]
    /\ next \in [Worker -> Msg \cup {NULL}]
    /\ send_failed \in [Worker -> BOOLEAN]
CleanTypes ==
    /\ cl_pc \in {"get", "check", "free_sent", "free_msg", "next"}
    /\ cl_current \in Msg \cup {NULL}
    /\ cl_prev \in Msg \cup {NULL}
NetTypes ==
    /\ gone \subseteq Clients
    /\ wire \in [Clients -> Seq([m : Msg, part : {"header", "data", "garbage"}])]
    /\ crashed \in BOOLEAN
    /\ bad_access \in Msg \cup {NULL}

\* The parts are the whole: the queue, run_dst_worker()'s and run_cleanup_worker()'s
\* local variables, and the connections.
LEMMA TypeParts ==
    /\ TypeOK <=> /\ Pool!TypeOK /\ clock \in Clock
                  /\ QueueTypes /\ LoopTypes /\ CleanTypes /\ NetTypes
    /\ TypeOK' <=> /\ Pool!TypeOK' /\ clock' \in Clock
                   /\ QueueTypes' /\ LoopTypes' /\ CleanTypes' /\ NetTypes'
BY DEF TypeOK, QueueTypes, LoopTypes, CleanTypes, NetTypes, Clock

\* Every step of every thread keeps the types and the places.
LEMMA TypeStep ==
    ASSUME ClockOK, ClockOK', PoolFacts, PoolFacts', TypeOK, CursorInv, [Next]_vars
    PROVE  TypeOK' /\ CursorInv'
<1> USE DEF NULL, Msg
<1>1. /\ Pool!TypeOK' /\ clock' \in Clock /\ Now \in Stamp
      /\ worker_pc \in [Worker -> Pool!WorkerPC]
      /\ MaxMsgs \in Nat \ {0}
      /\ Len(msg_queue) \in Nat
      /\ \A m \in 0 .. Len(msg_queue) : m \in Msg \cup {NULL}
  BY ServerAssumption, SMTT(30) DEF PoolFacts, ClockOK, Now, Stamp, Pool!TypeOK, Worker, TypeOK
<1>2. CASE Tick
  BY <1>1, <1>2 DEF Tick, poolVars, queueVars, srcVars, loopVars, cleanVars, netVars, faultVars,
     TypeOK, CursorInv
<1>3. CASE S_InitEntry
  BY <1>1, <1>3 DEF S_InitEntry, poolVars, queueVars, loopVars, cleanVars, netVars, faultVars,
     TypeOK, CursorInv
<1>4. ASSUME NEW c \in Clients, DstAccept(c) PROVE TypeOK' /\ CursorInv'
  BY <1>1, <1>4 DEF DstAccept, Pool!D_Accept, otherVars, queueVars, srcVars, loopVars, cleanVars,
     netVars, faultVars, TypeOK, CursorInv
<1>5. ASSUME NEW c \in Clients, PeerGone(c) PROVE TypeOK' /\ CursorInv'
  BY <1>1, <1>5 DEF PeerGone, poolVars, queueVars, srcVars, loopVars, cleanVars, faultVars,
     TypeOK, CursorInv
<1>6. ASSUME NEW t \in Worker \cup {Cleaner}, SpuriousMsgWakeup(t) PROVE TypeOK' /\ CursorInv'
  BY <1>1, <1>6 DEF SpuriousMsgWakeup, poolVars, srcVars, loopVars, cleanVars, netVars, faultVars,
     TypeOK, CursorInv
<1>7. ASSUME NEW w \in Worker, SpuriousFdWakeup(w) PROVE TypeOK' /\ CursorInv'
  BY <1>1, <1>7 DEF SpuriousFdWakeup, Pool!W_Spurious, Pool!Goto, otherVars, queueVars, srcVars,
     loopVars, cleanVars, netVars, faultVars, TypeOK, CursorInv
<1>8. CASE S_Insert
  <2> DEFINE e == [timestamp |-> src_ts, sent |-> {}, has_sent |-> TRUE, has_msg |-> TRUE]
  <2>1. e \in MsgEntry /\ msg_queue \in Seq(MsgEntry)
    BY <1>8 DEF S_Insert, CursorInv, MsgEntry, TypeOK
  <2>2. msg_queue' = Append(msg_queue, e)
    BY <1>8 DEF S_Insert
  <2> HIDE DEF e
  <2>3. msg_queue' \in Seq(MsgEntry) /\ Len(msg_queue') = Len(msg_queue) + 1
    BY <2>1, <2>2, AppendProperties
  <2>4. LoopTypes' /\ CleanTypes' /\ NetTypes'
    BY <1>8, TypeParts
       DEF S_Insert, loopVars, cleanVars, netVars, faultVars, LoopTypes, CleanTypes, NetTypes
  <2>5. QueueTypes'
    BY <1>1, <1>8, <2>3, TypeParts DEF S_Insert, CursorInv, QueueTypes
  <2>6. CursorInv'
    BY <1>1, <1>8, <2>3 DEF S_Insert, poolVars, loopVars, cleanVars, CursorInv
  <2>7. QED
    BY <1>1, <2>4, <2>5, <2>6, TypeParts
<1>9. CASE DstStep
  <2>1. Pool!D_Stamp(Now) \/ Pool!DstStep
    BY <1>9 DEF DstStep
  <2>2. TypeOK'
    BY <1>1, <1>9 DEF DstStep, otherVars, queueVars, srcVars, loopVars, cleanVars, netVars,
       faultVars, TypeOK
  <2>3. QED
    BY <2>1, <2>2, <1>9, DstPlaces
       DEF DstStep, otherVars, queueVars, srcVars, loopVars, cleanVars, CursorInv
<1>10. CASE C_Get
  <2>1. cl_current' \in 1 .. Len(msg_queue)
    BY <1>10, EntryInQueue DEF C_Get, CursorInv
  <2>2. /\ cl_pc' = "check"
        /\ UNCHANGED <<poolVars, clock, queueVars, srcVars, loopVars, cl_prev, netVars, faultVars>>
    BY <1>10 DEF C_Get
  <2>3. QueueTypes' /\ LoopTypes' /\ NetTypes'
    BY <2>2, TypeParts
       DEF queueVars, srcVars, loopVars, netVars, faultVars, QueueTypes, LoopTypes, NetTypes
  <2>4. CleanTypes'
    BY <1>1, <2>1, <2>2, TypeParts DEF CleanTypes
  <2>5. CursorInv'
    BY <1>1, <2>1, <2>2 DEF poolVars, queueVars, srcVars, loopVars, CursorInv
  <2>6. QED
    BY <1>1, <2>3, <2>4, <2>5, TypeParts
<1>11. CASE C_AwaitMsg
  BY <1>1, <1>11 DEF C_AwaitMsg, Cleaner, poolVars, queueVars, srcVars, loopVars, cleanVars,
     netVars, faultVars, TypeOK, CursorInv
<1>12. CASE C_Check
  BY <1>1, <1>12 DEF C_Check, poolVars, queueVars, srcVars, loopVars, cleanVars,
     netVars, faultVars, TypeOK, CursorInv
<1>13. CASE C_Next
  <2>1. cl_current \in 1 .. Len(msg_queue) /\ cl_current' \in 0 .. Len(msg_queue)
    BY <1>1, <1>13, TailqNextInQueue DEF C_Next, CursorInv
  <2>2. TypeOK'
    BY <1>1, <1>13, <2>1 DEF C_Next, poolVars, queueVars, srcVars, loopVars, netVars, faultVars, TypeOK, CursorInv
  <2>3. CursorInv'
    BY <1>1, <1>13, <2>1 DEF C_Next, poolVars, queueVars, srcVars, loopVars, netVars, faultVars, CursorInv
  <2>4. QED
    BY <2>2, <2>3
<1>14. CASE C_FreeSent \/ C_FreeMsg
  BY <1>1, <1>14, FreeFacts DEF C_FreeSent, C_FreeMsg, poolVars, srcVars, loopVars, netVars,
     faultVars, TypeOK, CursorInv
<1>15. ASSUME NEW w \in Worker, W_Get(w) PROVE TypeOK' /\ CursorInv'
  <2> DEFINE m == get_msg_entry(current[w], prev[w], FALSE)
  <2>1. m \in 1 .. Len(msg_queue)
    BY <1>15, EntryInQueue DEF W_Get, CursorInv
  <2>2. /\ At(w, "get") /\ GoTo(w, "alive")
        /\ current' = [current EXCEPT ![w] = m]
        /\ UNCHANGED <<poolVars, clock, queueVars, srcVars, prev, next, send_failed, cleanVars,
                       netVars, faultVars>>
    BY <1>15 DEF W_Get
  <2> HIDE DEF m
  <2>3. QueueTypes' /\ CleanTypes' /\ NetTypes'
    BY <2>2, TypeParts
       DEF queueVars, srcVars, cleanVars, netVars, faultVars, QueueTypes, CleanTypes, NetTypes
  <2>4. LoopTypes'
    BY <1>1, <2>1, <2>2, TypeParts DEF At, GoTo, StepPC, LoopTypes
  <2>5. CursorInv'
    BY <1>1, <2>1, <2>2, TypeParts
       DEF At, GoTo, poolVars, queueVars, srcVars, cleanVars, CursorInv, LoopTypes
  <2>6. QED
    BY <1>1, <2>3, <2>4, <2>5, TypeParts
<1>16. ASSUME NEW w \in Worker, W_AwaitMsg(w) PROVE TypeOK' /\ CursorInv'
  BY <1>1, <1>16 DEF W_AwaitMsg, At, GoTo, poolVars, queueVars, srcVars, loopVars,
     cleanVars, netVars, faultVars, StepPC, TypeOK, CursorInv
<1>17. ASSUME NEW w \in Worker, W_Alive(w) PROVE TypeOK' /\ CursorInv'
  BY <1>1, <1>17 DEF W_Alive, At, GoTo, poolVars, queueVars, srcVars, loopVars,
     cleanVars, netVars, faultVars, StepPC, TypeOK, CursorInv
<1>18. ASSUME NEW w \in Worker, W_NotAlive(w) PROVE TypeOK' /\ CursorInv'
  BY <1>1, <1>18 DEF W_NotAlive, At, GoTo, Pool!W_Close, Pool!Goto, poolVars, queueVars, srcVars, loopVars,
     cleanVars, netVars, faultVars, StepPC, TypeOK, CursorInv
<1>19. ASSUME NEW w \in Worker, W_CanForward(w) PROVE TypeOK' /\ CursorInv'
  BY <1>1, <1>19 DEF W_CanForward, At, GoTo, Touch, poolVars, queueVars, srcVars, loopVars,
     cleanVars, netVars, faultVars, StepPC, TypeOK, CursorInv
<1>20. ASSUME NEW w \in Worker, W_SendFails(w) PROVE TypeOK' /\ CursorInv'
  BY <1>1, <1>20 DEF W_SendFails, At, GoTo, Touch, poolVars, queueVars, srcVars, loopVars,
     cleanVars, netVars, faultVars, StepPC, TypeOK, CursorInv
<1>21. ASSUME NEW w \in Worker, W_Next(w) PROVE TypeOK' /\ CursorInv'
  <2>1. TailqNext(current[w]) \in 0 .. Len(msg_queue)
    BY <1>1, <1>21, TailqNextInQueue DEF W_Next, At, CursorInv
  <2>2. QueueTypes' /\ CleanTypes' /\ NetTypes'
    BY <1>21, TypeParts
       DEF W_Next, queueVars, srcVars, cleanVars, netVars, faultVars, QueueTypes, CleanTypes, NetTypes
  <2>3. LoopTypes'
    BY <1>1, <1>21, <2>1, TypeParts DEF W_Next, At, GoTo, StepPC, LoopTypes
  <2>4. CursorInv'
    BY <1>1, <1>21, <2>1, TypeParts, SMTT(30)
       DEF W_Next, At, GoTo, poolVars, queueVars, srcVars, cleanVars, CursorInv, LoopTypes
  <2>5. QED
    BY <1>1, <2>2, <2>3, <2>4, TypeParts
<1>22. ASSUME NEW w \in Worker, W_SendFailedClose(w) PROVE TypeOK' /\ CursorInv'
  BY <1>1, <1>22 DEF W_SendFailedClose, At, GoTo, Pool!W_Close, Pool!Goto, poolVars, queueVars, srcVars, loopVars,
     cleanVars, netVars, faultVars, StepPC, TypeOK, CursorInv
<1>23. ASSUME NEW w \in Worker, W_SeesSent(w) PROVE TypeOK' /\ CursorInv'
  BY <1>1, <1>23 DEF W_SeesSent, At, GoTo, poolVars, queueVars, srcVars, loopVars,
     cleanVars, netVars, faultVars, StepPC, TypeOK, CursorInv
<1>24. ASSUME NEW w \in Worker, W_Dies(w) PROVE TypeOK' /\ CursorInv'
  BY <1>1, <1>24 DEF W_Dies, At, GoTo, Crash, poolVars, queueVars, srcVars, loopVars,
     cleanVars, netVars, faultVars, StepPC, TypeOK, CursorInv
<1>25. ASSUME NEW w \in Worker, W_SendHeader(w) \/ W_SendData(w) PROVE TypeOK' /\ CursorInv'
  <2> DEFINE Frame == [m : Msg, part : {"header", "data", "garbage"}]
  <2>1. current[w] \in Msg /\ client_fd[w] \in Clients
    BY <1>1, <1>25 DEF W_SendHeader, W_SendData, At, PoolFacts, TypeOK, CursorInv
  <2>2. PICK f \in Frame :
          wire' = IF client_fd[w] \in gone THEN wire
                  ELSE [wire EXCEPT ![client_fd[w]] = Append(@, f)]
    BY <1>25, <2>1 DEF W_SendHeader, W_SendData, Transmit
  <2> HIDE DEF Frame
  <2>3. wire \in [Clients -> Seq(Frame)]
    BY DEF TypeOK, Frame
  <2>4. wire' \in [Clients -> Seq(Frame)]
    BY <2>1, <2>2, <2>3, AppendProperties
  <2>5. bad_access' \in Msg \cup {NULL}
    BY <1>25, <2>1 DEF W_SendHeader, W_SendData, Transmit, Touch, TypeOK
  <2>6. QueueTypes' /\ CleanTypes' /\ LoopTypes'
    BY <1>1, <1>25, TypeParts, ZenonT(30)
       DEF W_SendHeader, W_SendData, GoTo, queueVars, srcVars, cleanVars, StepPC, QueueTypes, CleanTypes,
           LoopTypes
  <2>7. NetTypes'
    BY <1>25, <2>4, <2>5, TypeParts DEF W_SendHeader, W_SendData, NetTypes, Frame
  <2>8. CursorInv'
    BY <1>1, <1>25, TypeParts
       DEF W_SendHeader, W_SendData, At, GoTo, poolVars, queueVars, srcVars, cleanVars, CursorInv, LoopTypes
  <2>9. QED
    BY <1>1, <2>6, <2>7, <2>8, TypeParts
<1>26. ASSUME NEW w \in Worker, W_MarkSent(w) PROVE TypeOK' /\ CursorInv'
  <2>1. msg_queue \in Seq(MsgEntry) /\ current[w] \in 1 .. Len(msg_queue)
    BY <1>26 DEF W_MarkSent, At, CursorInv, TypeOK
  <2>2. msg_queue' \in Seq(MsgEntry) /\ Len(msg_queue') = Len(msg_queue)
    BY <1>26, <2>1, SetSentFacts DEF W_MarkSent, Kept
  <2>3. QED
    BY <1>1, <1>26, <2>1, <2>2 DEF W_MarkSent, set_sent, Touch, At, GoTo, poolVars, srcVars, cleanVars,
       netVars, StepPC, TypeOK, CursorInv
<1>27. ASSUME NEW w \in Worker, W_BecomeReady(w) PROVE TypeOK' /\ CursorInv'
  <2>1. \A u \in Worker : worker_pc'[u] = worker_pc[u]
                           \/ (worker_pc[u] \notin {"none", "serving", "woken"}
                               /\ worker_pc'[u] \notin {"none", "serving"})
    BY <1>1, <1>27 DEF W_BecomeReady, Pool!W_Lock, Pool!W_SetReady, Pool!W_ClearBit, Pool!W_Wait,
       Pool!W_LeaveWait, Pool!W_Reacquire, Pool!Goto
  <2>2. QED
    BY <1>1, <1>27, <2>1 DEF W_BecomeReady, queueVars, srcVars, loopVars, cleanVars, netVars,
       faultVars, TypeOK, CursorInv
<1>28. ASSUME NEW w \in Worker, W_SeesNoSent(w) PROVE TypeOK' /\ CursorInv'
  BY <1>1, <1>28 DEF W_SeesNoSent, Resume, Pool!W_Resume, Pool!Goto, GoTo, srcVars, cleanVars,
     netVars, StepPC, TypeOK, CursorInv
<1>29. ASSUME NEW w \in Worker, W_ResetSent(w) PROVE TypeOK' /\ CursorInv'
  <2>1. msg_queue \in Seq(MsgEntry) /\ current[w] \in 1 .. Len(msg_queue)
    BY <1>29 DEF W_ResetSent, CursorInv, TypeOK
  <2>2. msg_queue' \in Seq(MsgEntry) /\ Len(msg_queue') = Len(msg_queue)
    BY <1>29, <2>1, SetSentFacts DEF W_ResetSent, Kept
  <2>3. QED
    BY <1>1, <1>29, <2>1, <2>2 DEF W_ResetSent, set_sent, Touch, Resume, Pool!W_Resume, Pool!Goto, GoTo,
       srcVars, cleanVars, netVars, StepPC, TypeOK, CursorInv
<1>30. CASE UNCHANGED vars
  BY <1>1, <1>30 DEF vars, poolVars, queueVars, srcVars, loopVars, cleanVars, netVars, faultVars,
     TypeOK, CursorInv
<1>31. QED
  BY <1>2, <1>3, <1>4, <1>5, <1>6, <1>7, <1>8, <1>9, <1>10, <1>11, <1>12, <1>13, <1>14,
     <1>15, <1>16, <1>17, <1>18, <1>19, <1>20, <1>21, <1>22, <1>23, <1>24, <1>25, <1>26,
     <1>27, <1>28, <1>29, <1>30
     DEF Next, Environment, SourceThread, DstServerThread, CleanupThread, WorkerThread

\* Types, and no thread outside the queue.
THEOREM CursorsHold == Spec => [](TypeOK /\ CursorInv)
<1>1. Init /\ PoolFacts => TypeOK /\ CursorInv
  <2> SUFFICES ASSUME Init, PoolFacts PROVE TypeOK /\ CursorInv
    OBVIOUS
  <2>1. Pool!TypeOK /\ worker_pc = [w \in Worker |-> "none"]
    BY DEF Init, PoolFacts, Pool!Init, Worker
  <2>2. clock \in Clock /\ MaxMsgs \in Nat
    BY ServerAssumption DEF Init, Clock
  <2>3. msg_queue = <<>> /\ msg_queue \in Seq(MsgEntry) /\ Len(msg_queue) = 0
    BY DEF Init
  <2>4. TypeOK
    <3>1. QueueTypes
      BY <2>2, <2>3 DEF Init, QueueTypes
    <3>2. LoopTypes /\ CleanTypes
      BY DEF Init, LoopTypes, CleanTypes, StepPC, NULL
    <3>3. NetTypes
      <4> DEFINE Frame == [m : Msg, part : {"header", "data", "garbage"}]
      <4>1. <<>> \in Seq(Frame)
        OBVIOUS
      <4> HIDE DEF Frame
      <4>2. wire \in [Clients -> Seq(Frame)]
        BY <4>1 DEF Init
      <4>3. QED
        BY <4>2 DEF Init, NetTypes, NULL, Frame
    <3>4. QED
      BY <2>1, <2>2, <3>1, <3>2, <3>3, TypeParts
  <2>5. CursorInv
    BY <2>1, <2>2, <2>3 DEF Init, CursorInv, NULL
  <2>6. QED
    BY <2>4, <2>5
<1>2. /\ ClockOK /\ ClockOK' /\ PoolFacts /\ PoolFacts'
      /\ TypeOK /\ CursorInv /\ [Next]_vars
      => TypeOK' /\ CursorInv'
  BY TypeStep
<1>3. QED
  BY <1>1, <1>2, PoolFactsHold, PTL DEF Spec

\* The type invariant of the whole server.
THEOREM ServerTypes == Spec => []TypeOK
BY CursorsHold, PTL
=============================================================================
