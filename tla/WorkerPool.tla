----------------------------- MODULE WorkerPool -----------------------------
(***************************************************************************)
(* The destination server's worker pool: lib/thread.c, run_dst_server() of *)
(* ws_server.c, and the part of run_dst_worker() between losing a client   *)
(* and resuming with the next one (the conn_closed label).                 *)
(*                                                                         *)
(* One dst-server thread accepts connections and hands each one to a       *)
(* worker thread.  It picks the worker from the shared bitmask             *)
(* `threads_status`, then trusts that worker's `status` field, which it    *)
(* reads without a lock; the worker writes both fields when its client is  *)
(* gone.  The hand-over goes through the worker's own mutex and condition  *)
(* variable.                                                               *)
(*                                                                         *)
(* Steps are as fine as the code's shared accesses.  A critical section of *)
(* `threads_status.lock` holds exactly one access to the mask, so it is    *)
(* one step; `args.lock` is held across several steps and is a variable.   *)
(*                                                                         *)
(* What a worker does for its client is left to WireStorm.tla; here it may *)
(* lose its client at any time.                                            *)
(***************************************************************************)
EXTENDS Bitmask

CONSTANTS
    NumWorkers,  \* init_args.num_workers
    Clients,     \* connections to DST_PORT; one element is one connection
    Stamps,      \* the values get_clock_time() may return
    NoFd,        \* "no file descriptor": a field not yet assigned
    NoStamp,     \* "no timestamp": a field not yet assigned
    MaxDelay     \* bound: the back-off delay saturates here

ASSUME PoolAssumption ==
    /\ NumWorkers \in 1 .. MaskWidth        \* MIN/MAX_NUM_WORKERS
    /\ NoFd \notin Clients
    /\ NoStamp \notin Stamps
    /\ Stamps # {}
    /\ MaxDelay \in Nat \ {0}

Worker == 0 .. NumWorkers - 1

\* Values of `status`, lib/thread.h.
THREAD_AVAILABLE == 0
THREAD_BUSY == 1
THREAD_READY == 2

INITIAL_DELAY == 1

VARIABLES
    threads_status,  \* worker_list.threads_status.data
    status,          \* worker.status, one per worker
    client_fd,       \* worker_args.client_fd
    timestamp,       \* worker_args.timestamp
    args_lock,       \* holder of worker_args.lock: "free", "dst" or "worker"
    worker_pc,       \* where the worker thread is
    dst_pc,          \* where the dst server thread is
    new_fd,          \* run_dst_server's locals
    client_ts,
    thread_index,
    delay,
    conn,            \* connection state: "new", "open" or "closed"
    accepted         \* history: the stamp taken when a client was accepted

listVars == <<threads_status, status, client_fd, timestamp, args_lock>>
dstVars == <<dst_pc, new_fd, client_ts, thread_index, delay>>
connVars == <<conn, accepted>>
poolVars == <<listVars, worker_pc, dstVars, connVars>>

DstPC == {"accept", "stamp", "find", "backoff", "dispatch", "init",
          "init_bit", "create", "assert", "wake_lock", "wake_fd", "wake_bit",
          "wake_stamp", "aborted"}

WorkerPC == {"none", "serving", "lock", "set_ready", "clear_bit", "check",
             "waiting", "signalled", "woken"}

TypeOK ==
    /\ threads_status \in Mask
    /\ status \in [Worker -> {THREAD_AVAILABLE, THREAD_BUSY, THREAD_READY}]
    /\ client_fd \in [Worker -> Clients \cup {NoFd}]
    /\ timestamp \in [Worker -> Stamps \cup {NoStamp}]
    /\ args_lock \in [Worker -> {"free", "dst", "worker"}]
    /\ worker_pc \in [Worker -> WorkerPC]
    /\ dst_pc \in DstPC
    /\ new_fd \in Clients \cup {NoFd}
    /\ client_ts \in Stamps \cup {NoStamp}
    /\ thread_index \in Worker
    /\ delay \in 1 .. MaxDelay
    /\ conn \in [Clients -> {"new", "open", "closed"}]
    /\ accepted \in [Clients -> Stamps \cup {NoStamp}]

\* init_workers(), then main() starts the dst server thread.
Init ==
    /\ threads_status = {}
    /\ status = [w \in Worker |-> THREAD_AVAILABLE]
    /\ client_fd = [w \in Worker |-> NoFd]
    /\ \E ts \in Stamps : timestamp = [w \in Worker |-> ts]
    /\ args_lock = [w \in Worker |-> "free"]
    /\ worker_pc = [w \in Worker |-> "none"]
    /\ dst_pc = "accept"
    /\ new_fd = NoFd
    /\ client_ts = NoStamp
    /\ thread_index = 0
    /\ delay = INITIAL_DELAY
    /\ conn = [c \in Clients |-> "new"]
    /\ accepted = [c \in Clients |-> NoStamp]

-----------------------------------------------------------------------------
(* run_dst_server(): accepting a client and finding it a worker.           *)

\* server_accept() succeeds.  When accept() fails the loop just retries,
\* which changes nothing.
D_Accept(c) ==
    /\ dst_pc = "accept"
    /\ conn[c] = "new"
    /\ conn' = [conn EXCEPT ![c] = "open"]
    /\ new_fd' = c
    /\ dst_pc' = "stamp"
    /\ UNCHANGED <<listVars, worker_pc, client_ts, thread_index, delay, accepted>>

\* get_clock_time(&client_ts)
D_Stamp(ts) ==
    /\ dst_pc = "stamp"
    /\ client_ts' = ts
    /\ accepted' = [accepted EXCEPT ![new_fd] = ts]
    /\ thread_index' = 0
    /\ dst_pc' = "find"
    /\ UNCHANGED <<listVars, worker_pc, new_fd, delay, conn>>

\* One iteration of find_idle_thread(): the bit of worker i is clear.
D_FindIdle ==
    /\ dst_pc = "find"
    /\ ~ is_set(threads_status, thread_index)
    /\ delay' = INITIAL_DELAY
    /\ dst_pc' = "dispatch"
    /\ UNCHANGED <<listVars, worker_pc, new_fd, client_ts, thread_index, connVars>>

\* The search of find_idle_thread() running one worker too far.
D_FindBusy_OffByOne ==
    /\ dst_pc = "find"
    /\ is_set(threads_status, thread_index)
    /\ thread_index + 1 <= NumWorkers
    /\ thread_index' = thread_index + 1
    /\ UNCHANGED <<listVars, worker_pc, dst_pc, new_fd, client_ts, delay, connVars>>

\* One iteration of find_idle_thread(): the bit is set, look at the next.
D_FindBusy ==
    /\ dst_pc = "find"
    /\ is_set(threads_status, thread_index)
    /\ thread_index + 1 < NumWorkers
    /\ thread_index' = thread_index + 1
    /\ UNCHANGED <<listVars, worker_pc, dst_pc, new_fd, client_ts, delay, connVars>>

\* The last iteration found the bit set: find_idle_thread() returns -1.
D_FindNone ==
    /\ dst_pc = "find"
    /\ is_set(threads_status, thread_index)
    /\ thread_index + 1 = NumWorkers
    /\ dst_pc' = "backoff"
    /\ UNCHANGED <<listVars, worker_pc, new_fd, client_ts, thread_index, delay, connVars>>

\* sleep(delay); delay *= 2; then search again from worker 0.
D_Backoff ==
    /\ dst_pc = "backoff"
    /\ delay' = IF 2 * delay > MaxDelay THEN MaxDelay ELSE 2 * delay
    /\ thread_index' = 0
    /\ dst_pc' = "find"
    /\ UNCHANGED <<listVars, worker_pc, new_fd, client_ts, connVars>>

\* switch (dst.workers[thread_index].status): the default case just breaks,
\* and the loop goes on to accept the next client.
D_Dispatch ==
    /\ dst_pc = "dispatch"
    /\ dst_pc' = IF status[thread_index] = THREAD_AVAILABLE THEN "init"
                 ELSE IF status[thread_index] = THREAD_READY THEN "assert"
                 ELSE "accept"
    /\ UNCHANGED <<listVars, worker_pc, new_fd, client_ts, thread_index, delay, connVars>>

-----------------------------------------------------------------------------
(* init_thread_info() and pthread_create(): a worker's first client.       *)

D_Init ==
    /\ dst_pc = "init"
    /\ args_lock' = [args_lock EXCEPT ![thread_index] = "free"]
    /\ client_fd' = [client_fd EXCEPT ![thread_index] = new_fd]
    /\ status' = [status EXCEPT ![thread_index] = THREAD_BUSY]
    /\ dst_pc' = "init_bit"
    /\ UNCHANGED <<threads_status, timestamp, worker_pc, new_fd, client_ts,
                   thread_index, delay, connVars>>

D_InitBit ==
    /\ dst_pc = "init_bit"
    /\ threads_status' = set_bit(threads_status, thread_index, TRUE)
    /\ dst_pc' = "create"
    /\ UNCHANGED <<status, client_fd, timestamp, args_lock, worker_pc, new_fd,
                   client_ts, thread_index, delay, connVars>>

\* The last assignment of init_thread_info() and pthread_create().
D_Create ==
    /\ dst_pc = "create"
    /\ timestamp' = [timestamp EXCEPT ![thread_index] = client_ts]
    /\ worker_pc' = [worker_pc EXCEPT ![thread_index] = "serving"]
    /\ dst_pc' = "accept"
    /\ UNCHANGED <<threads_status, status, client_fd, args_lock, new_fd,
                   client_ts, thread_index, delay, connVars>>

-----------------------------------------------------------------------------
(* wake_up_thread(): handing a client to a worker that waits for one.      *)

\* assert(thread->status == THREAD_READY), read before the lock is taken.
D_Assert ==
    /\ dst_pc = "assert"
    /\ dst_pc' = IF status[thread_index] = THREAD_READY
                 THEN "wake_lock" ELSE "aborted"
    /\ UNCHANGED <<listVars, worker_pc, new_fd, client_ts, thread_index, delay, connVars>>

D_WakeLock ==
    /\ dst_pc = "wake_lock"
    /\ args_lock[thread_index] = "free"
    /\ args_lock' = [args_lock EXCEPT ![thread_index] = "dst"]
    /\ dst_pc' = "wake_fd"
    /\ UNCHANGED <<threads_status, status, client_fd, timestamp, worker_pc,
                   new_fd, client_ts, thread_index, delay, connVars>>

D_WakeFd ==
    /\ dst_pc = "wake_fd"
    /\ client_fd' = [client_fd EXCEPT ![thread_index] = new_fd]
    /\ status' = [status EXCEPT ![thread_index] = THREAD_BUSY]
    /\ dst_pc' = "wake_bit"
    /\ UNCHANGED <<threads_status, timestamp, args_lock, worker_pc, new_fd,
                   client_ts, thread_index, delay, connVars>>

D_WakeBit ==
    /\ dst_pc = "wake_bit"
    /\ threads_status' = set_bit(threads_status, thread_index, TRUE)
    /\ dst_pc' = "wake_stamp"
    /\ UNCHANGED <<status, client_fd, timestamp, args_lock, worker_pc, new_fd,
                   client_ts, thread_index, delay, connVars>>

\* pthread_cond_signal(): a thread that waits is woken, otherwise nothing.
Signal(w) ==
    worker_pc' = [worker_pc EXCEPT ![w] = IF @ = "waiting" THEN "signalled" ELSE @]

\* D_WakeStamp without the signal: the worker is told nothing.
D_WakeStamp_NoSignal ==
    /\ dst_pc = "wake_stamp"
    /\ timestamp' = [timestamp EXCEPT ![thread_index] = client_ts]
    /\ args_lock' = [args_lock EXCEPT ![thread_index] = "free"]
    /\ dst_pc' = "accept"
    /\ UNCHANGED <<threads_status, status, client_fd, worker_pc, new_fd,
                   client_ts, thread_index, delay, connVars>>

\* D_WakeStamp that leaves the previous client's timestamp in place.
D_WakeStamp_KeepsOldStamp ==
    /\ dst_pc = "wake_stamp"
    /\ Signal(thread_index)
    /\ args_lock' = [args_lock EXCEPT ![thread_index] = "free"]
    /\ dst_pc' = "accept"
    /\ UNCHANGED <<threads_status, status, client_fd, timestamp, new_fd,
                   client_ts, thread_index, delay, connVars>>

\* Update the timestamp, signal and unlock.
D_WakeStamp ==
    /\ dst_pc = "wake_stamp"
    /\ timestamp' = [timestamp EXCEPT ![thread_index] = client_ts]
    /\ Signal(thread_index)
    /\ args_lock' = [args_lock EXCEPT ![thread_index] = "free"]
    /\ dst_pc' = "accept"
    /\ UNCHANGED <<threads_status, status, client_fd, new_fd, client_ts,
                   thread_index, delay, connVars>>

-----------------------------------------------------------------------------
(* run_dst_worker() from the label conn_closed to the end of its block.    *)

Goto(w, pc) == worker_pc' = [worker_pc EXCEPT ![w] = pc]

\* close(args->client_fd)
W_Close(w) ==
    /\ worker_pc[w] = "serving"
    /\ conn' = [conn EXCEPT ![client_fd[w]] = "closed"]
    /\ Goto(w, "lock")
    /\ UNCHANGED <<listVars, dstVars, accepted>>

W_Lock(w) ==
    /\ worker_pc[w] = "lock"
    /\ args_lock[w] = "free"
    /\ args_lock' = [args_lock EXCEPT ![w] = "worker"]
    /\ Goto(w, "set_ready")
    /\ UNCHANGED <<threads_status, status, client_fd, timestamp, dstVars, connVars>>

\* The worker clears its bit first and sets its status afterwards.  (W_ClearBit then
\* finds nothing left to do.)
W_SetReady_BitFirst(w) ==
    /\ worker_pc[w] = "set_ready"
    /\ IF is_set(threads_status, w)
       THEN /\ threads_status' = set_bit(threads_status, w, FALSE)
            /\ UNCHANGED <<status, worker_pc>>
       ELSE /\ status' = [status EXCEPT ![w] = THREAD_READY]
            /\ Goto(w, "clear_bit")
            /\ UNCHANGED threads_status
    /\ UNCHANGED <<client_fd, timestamp, args_lock, dstVars, connVars>>

\* *(args->self_status) = THREAD_READY
W_SetReady(w) ==
    /\ worker_pc[w] = "set_ready"
    /\ status' = [status EXCEPT ![w] = THREAD_READY]
    /\ Goto(w, "clear_bit")
    /\ UNCHANGED <<threads_status, client_fd, timestamp, args_lock, dstVars, connVars>>

W_ClearBit(w) ==
    /\ worker_pc[w] = "clear_bit"
    /\ threads_status' = set_bit(threads_status, w, FALSE)
    /\ Goto(w, "check")
    /\ UNCHANGED <<status, client_fd, timestamp, args_lock, dstVars, connVars>>

\* while (*(args->self_status) != THREAD_BUSY): wait, releasing the lock ...
W_Wait(w) ==
    /\ worker_pc[w] = "check"
    /\ status[w] # THREAD_BUSY
    /\ args_lock' = [args_lock EXCEPT ![w] = "free"]
    /\ Goto(w, "waiting")
    /\ UNCHANGED <<threads_status, status, client_fd, timestamp, dstVars, connVars>>

\* ... or leave the loop, still holding the lock.
W_LeaveWait(w) ==
    /\ worker_pc[w] = "check"
    /\ status[w] = THREAD_BUSY
    /\ Goto(w, "woken")
    /\ UNCHANGED <<listVars, dstVars, connVars>>

\* pthread_cond_wait() may return although nobody signalled.
W_Spurious(w) ==
    /\ worker_pc[w] = "waiting"
    /\ Goto(w, "signalled")
    /\ UNCHANGED <<listVars, dstVars, connVars>>

\* pthread_cond_wait() takes the lock again before it returns.
W_Reacquire(w) ==
    /\ worker_pc[w] = "signalled"
    /\ args_lock[w] = "free"
    /\ args_lock' = [args_lock EXCEPT ![w] = "worker"]
    /\ Goto(w, "check")
    /\ UNCHANGED <<threads_status, status, client_fd, timestamp, dstVars, connVars>>

\* pthread_mutex_unlock(&args->lock): the worker has a new client.
W_Resume(w) ==
    /\ worker_pc[w] = "woken"
    /\ args_lock' = [args_lock EXCEPT ![w] = "free"]
    /\ Goto(w, "serving")
    /\ UNCHANGED <<threads_status, status, client_fd, timestamp, dstVars, connVars>>

-----------------------------------------------------------------------------

\* The dst server's steps that do not wait for a client to connect.
DstStep ==
    \/ D_FindIdle \/ D_FindBusy \/ D_FindNone \/ D_Backoff \/ D_Dispatch
    \/ D_Init \/ D_InitBit \/ D_Create
    \/ D_Assert \/ D_WakeLock \/ D_WakeFd \/ D_WakeBit \/ D_WakeStamp

\* A worker's steps once it has lost its client.
WorkerStep(w) ==
    \/ W_Lock(w) \/ W_SetReady(w) \/ W_ClearBit(w) \/ W_Wait(w)
    \/ W_LeaveWait(w) \/ W_Reacquire(w) \/ W_Resume(w)

Next ==
    \/ \E c \in Clients : D_Accept(c)
    \/ \E ts \in Stamps : D_Stamp(ts)
    \/ DstStep
    \/ \E w \in Worker : W_Close(w) \/ W_Spurious(w) \/ WorkerStep(w)

Spec == Init /\ [][Next]_poolVars

\* Every thread is scheduled; a mutex that is free again and again is
\* eventually granted to each thread that waits for it.
Fairness ==
    /\ WF_poolVars(DstStep)
    /\ WF_poolVars(\E ts \in Stamps : D_Stamp(ts))
    /\ SF_poolVars(D_WakeLock)
    /\ \A w \in Worker : WF_poolVars(WorkerStep(w)) /\ SF_poolVars(W_Reacquire(w))

FairSpec == Spec /\ Fairness

-----------------------------------------------------------------------------

\* The dst server is still responsible for client c.
Held(c) == dst_pc \notin {"accept", "aborted"} /\ new_fd = c

\* The dst server is inside wake_up_thread(), between publishing a new client
\* to worker w and unlocking.
HandingOver(w) == dst_pc \in {"wake_bit", "wake_stamp"} /\ thread_index = w

\* Worker w has been given client c, whether or not it has noticed yet.
Owns(w, c) ==
    /\ client_fd[w] = c
    /\ \/ worker_pc[w] \in {"serving", "woken"}
       \/ worker_pc[w] \in {"check", "waiting", "signalled"} /\ status[w] = THREAD_BUSY

\* No client is lost between accept() and a worker: a connection the server has
\* not closed is in the dst server's hands or has a worker.  It fails when the
\* unlocked read of `status` reaches the `default: break` of the switch.
NoClientDropped ==
    \A c \in Clients :
        conn[c] = "open" => Held(c) \/ \E w \in Worker : Owns(w, c)

\* A worker that runs for a client uses an open descriptor that is its alone,
\* together with that same client's timestamp: the fields written piecemeal by
\* init_thread_info() and wake_up_thread() are never seen half-updated.
SoleOwner ==
    \A w \in Worker : worker_pc[w] = "serving" =>
        /\ conn[client_fd[w]] = "open"
        /\ timestamp[w] = accepted[client_fd[w]]
        /\ \A u \in Worker \ {w} : ~ Owns(u, client_fd[w])

\* A client that is held while some worker is idle gets a worker that runs for
\* it: neither the bitmask search nor the signal loses it.  Holds only while
\* each worker has a bit of its own (NumWorkers <= IntWidth): an idle worker whose
\* bit is set by another is not found, and the client may wait for ever.
ClientGetsWorker ==
    \A c \in Clients :
        Held(c) /\ (\E w \in Worker : status[w] # THREAD_BUSY)
            ~> \E w \in Worker : worker_pc[w] = "serving" /\ client_fd[w] = c

\* The dst server backs off only when, as the comment in find_idle_thread()
\* has it, "all threads are busy": no worker thread is still uncreated.
BacksOffOnlyWhenFull ==
    dst_pc = "backoff" => \A w \in Worker : status[w] # THREAD_AVAILABLE

-----------------------------------------------------------------------------

\* The client a worker serves as far as the rest of the system can tell: it is
\* the worker's from the moment the dst server lets go of it.
Serving(w) ==
    IF \E c \in Clients : Owns(w, c) /\ ~ HandingOver(w)
    THEN client_fd[w] ELSE NoFd

Service == INSTANCE ClientService WITH
    fresh <- {c \in Clients : conn[c] = "new"},
    held <- IF dst_pc \in {"accept", "aborted"} THEN NoFd ELSE new_fd,
    serving <- [w \in Worker |-> Serving(w)]

\* The pool implements ClientService: through all its masks, locks and signals
\* it accepts one client at a time and gives each to exactly one worker that
\* has none, which keeps it until it closes the connection.
ImplementsService == Service!Spec
=============================================================================
