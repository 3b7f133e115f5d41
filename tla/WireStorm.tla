----------------------------- MODULE WireStorm -----------------------------
(***************************************************************************)
(* The whole running server (ws_server.c, lib/msg_queue.c): the source     *)
(* thread that appends every valid message to a shared queue, the worker   *)
(* threads that each walk the queue for one destination client, the        *)
(* cleanup thread that frees the data of old messages, and the dst server  *)
(* and worker pool, which are the actions of WorkerPool.tla on the         *)
(* variables declared here.                                                *)
(*                                                                         *)
(* Queue entries are never unlinked, so an entry is named by its position  *)
(* and NULL is 0.  The workers read and write an entry's fields without    *)
(* `msg_lock`, the cleanup thread frees them under it.                     *)
(***************************************************************************)
EXTENDS Timestamp, Sequences

CONSTANTS
    IntWidth, MaskWidth, NumWorkers, Clients, NoFd, NoStamp, MaxDelay,
    TTL,        \* init_args.ttl, seconds
    MaxMsgs,    \* bound: valid messages the source sends
    FirstClock, \* the clock when the server starts
    MaxClock    \* bound: last value of the clock

ASSUME ServerAssumption ==
    /\ TTL \in 2 .. 10                      \* MIN_TTL, MAX_TTL
    /\ MaxMsgs \in Nat \ {0}
    /\ FirstClock \in Nat
    /\ MaxClock \in Nat /\ FirstClock <= MaxClock

VARIABLES
    threads_status, status, client_fd, timestamp, args_lock, worker_pc,
    dst_pc, new_fd, client_ts, thread_index, delay, conn, accepted,
    clock,       \* CLOCK_MONOTONIC
    msg_queue,   \* the entries, oldest first
    msg_waiters, \* threads in pthread_cond_wait(&msg_cond, &msg_lock)
    src_pc, src_ts,             \* source thread: entry made, not yet inserted
    step, current, prev, next,  \* run_dst_worker: place in the loop, locals
    send_failed,                \* run_dst_worker: bytes_sent < 0
    cl_pc, cl_current, cl_prev, \* run_cleanup_worker: place, locals
    gone,        \* clients whose end of the connection is closed or reset
    wire,        \* what each client still there has been sent
    crashed,     \* the process was killed by an invalid access
    bad_access   \* the entry whose freed data a worker used, or NULL

poolVars == <<threads_status, status, client_fd, timestamp, args_lock,
              worker_pc, dst_pc, new_fd, client_ts, thread_index, delay,
              conn, accepted>>
queueVars == <<msg_queue, msg_waiters>>
srcVars == <<src_pc, src_ts>>
loopVars == <<step, current, prev, next, send_failed>>
cleanVars == <<cl_pc, cl_current, cl_prev>>
faultVars == <<crashed, bad_access>>
netVars == <<gone, wire>>
vars == <<poolVars, clock, queueVars, srcVars, loopVars, cleanVars, netVars,
          faultVars>>

Clock == FirstClock .. MaxClock
Now == get_clock_time(clock)

\* What a timestamp may be.
Stamp == {get_clock_time(t) : t \in Clock}

ASSUME ServerPoolAssumption ==
    /\ IntWidth \in Nat \ {0}
    /\ MaskWidth \in Nat /\ IntWidth <= MaskWidth
    /\ NumWorkers \in 1 .. MaskWidth        \* MIN/MAX_NUM_WORKERS
    /\ NoFd \notin Clients
    /\ NoStamp \notin Stamp
    /\ MaxDelay \in Nat \ {0}

Pool == INSTANCE WorkerPool WITH Stamps <- Stamp

Worker == Pool!Worker
Cleaner == NumWorkers       \* the cleanup thread's name among the waiters
NULL == 0
Msg == 1 .. MaxMsgs

StepPC == {"get", "alive", "check", "header", "data", "mark", "next", "close",
           "reset", "reset_set"}

\* struct msg_entry; has_sent and has_msg say that the pointer is not NULL.
MsgEntry == [timestamp : Stamp, sent : SUBSET (0 .. MaskWidth - 1),
             has_sent : BOOLEAN, has_msg : BOOLEAN]

TypeOK ==
    /\ Pool!TypeOK
    /\ clock \in Clock
    /\ msg_queue \in Seq(MsgEntry) /\ Len(msg_queue) <= MaxMsgs
    /\ msg_waiters \subseteq Worker \cup {Cleaner}
    /\ src_pc \in {"read", "insert"}
    /\ src_ts \in Stamp \cup {NoStamp}
    /\ step \in [Worker -> StepPC]
    /\ current \in [Worker -> Msg \cup {NULL}]
    /\ prev \in [Worker -> Msg \cup {NULL}]
    /\ next \in [Worker -> Msg \cup {NULL}]
    /\ send_failed \in [Worker -> BOOLEAN]
    /\ cl_pc \in {"get", "check", "free_sent", "free_msg", "next"}
    /\ cl_current \in Msg \cup {NULL}
    /\ cl_prev \in Msg \cup {NULL}
    /\ gone \subseteq Clients
    /\ wire \in [Clients -> Seq([m : Msg, part : {"header", "data", "garbage"}])]
    /\ crashed \in BOOLEAN
    /\ bad_access \in Msg \cup {NULL}

Init ==
    /\ clock = FirstClock
    /\ Pool!Init
    /\ timestamp = [w \in Worker |-> Now]
    /\ msg_queue = <<>> /\ msg_waiters = {}
    /\ src_pc = "read" /\ src_ts = NoStamp
    /\ step = [w \in Worker |-> "get"]
    /\ current = [w \in Worker |-> NULL]
    /\ prev = [w \in Worker |-> NULL]
    /\ next = [w \in Worker |-> NULL]
    /\ send_failed = [w \in Worker |-> FALSE]
    /\ cl_pc = "get" /\ cl_current = NULL /\ cl_prev = NULL
    /\ gone = {}
    /\ wire = [c \in Clients |-> <<>>]
    /\ crashed = FALSE /\ bad_access = NULL

-----------------------------------------------------------------------------
(* lib/msg_queue.c                                                         *)

\* free_msg_data() is the only critical section of msg_lock longer than a step.
MsgLockFree == cl_pc # "free_msg"

\* TAILQ_NEXT that does not see the end of the queue.
TailqNext_NoEnd(m) == m + 1

\* TAILQ_NEXT(entry, entries)
TailqNext(m) == IF m < Len(msg_queue) THEN m + 1 ELSE NULL

\* get_msg_entry() need not wait: there is a current entry, or the entry it
\* waits for (the first one, or the one after prev) is in the queue.
EntryReady(cur, prv) ==
    \/ cur # NULL
    \/ IF prv = NULL THEN msg_queue # <<>> ELSE TailqNext(prv) # NULL

\* The cleanup thread does not return to the start of the queue.
get_msg_entry_AlwaysNext(cur, prv, to_start) ==
    IF cur # NULL THEN cur
    ELSE IF prv = NULL THEN 1 ELSE TailqNext(prv)

\* TAILQ_LAST where the code has TAILQ_NEXT.
get_msg_entry_Last(cur, prv, to_start) ==
    IF cur # NULL THEN cur
    ELSE IF prv = NULL \/ to_start THEN 1 ELSE Len(msg_queue)

\* The entry get_msg_entry() returns once it need not wait.
get_msg_entry(cur, prv, to_start) ==
    IF cur # NULL THEN cur
    ELSE IF prv = NULL \/ to_start THEN 1 ELSE TailqNext(prv)

\* can_forward(), second half: is_sent().  The first half guards the access.
is_sent(m, w) == Pool!is_set(msg_queue[m].sent, w)

\* can_forward(), first half: the message is newer than the client.
NewerThan(m, ts) == compare_times(ts, msg_queue[m].timestamp)

\* run_cleanup_worker(): the TTL of entry m has passed.
Expired(m) == compare_times(plus_seconds(msg_queue[m].timestamp, TTL), Now)

-----------------------------------------------------------------------------
(* run_src_server().  That a message was read and found valid, and the     *)
(* sender's connections, are the environment's choice here.                *)

\* ctmp_parse_func() returned a message; init_msg_entry() stamps its entry.
S_InitEntry ==
    /\ src_pc = "read"
    /\ Len(msg_queue) < MaxMsgs
    /\ src_ts' = Now
    /\ src_pc' = "insert"
    /\ UNCHANGED <<poolVars, clock, queueVars, loopVars, cleanVars, netVars, faultVars>>

\* S_Insert that wakes one waiting thread only (pthread_cond_signal).
S_Insert_SignalOne ==
    /\ src_pc = "insert"
    /\ MsgLockFree
    /\ msg_queue' = Append(msg_queue, [timestamp |-> src_ts, sent |-> {},
                                       has_sent |-> TRUE, has_msg |-> TRUE])
    /\ IF msg_waiters = {} THEN UNCHANGED msg_waiters
       ELSE \E t \in msg_waiters : msg_waiters' = msg_waiters \ {t}
    /\ src_pc' = "read" /\ src_ts' = NoStamp
    /\ UNCHANGED <<poolVars, clock, loopVars, cleanVars, netVars, faultVars>>

\* TAILQ_INSERT_TAIL and pthread_cond_broadcast under msg_lock.
S_Insert ==
    /\ src_pc = "insert"
    /\ MsgLockFree
    /\ msg_queue' = Append(msg_queue, [timestamp |-> src_ts, sent |-> {},
                                       has_sent |-> TRUE, has_msg |-> TRUE])
    /\ msg_waiters' = {}
    /\ src_pc' = "read" /\ src_ts' = NoStamp
    /\ UNCHANGED <<poolVars, clock, loopVars, cleanVars, netVars, faultVars>>

-----------------------------------------------------------------------------
(* run_dst_worker(): the loop over the queue.                              *)

At(w, s) == worker_pc[w] = "serving" /\ step[w] = s
GoTo(w, s) == step' = [step EXCEPT ![w] = s]

\* The cleanup thread frees data that a worker may be about to use, or have a
\* pointer to.  The worker then either finds NULL or unmapped memory, and the
\* process dies of it ...
Crash(m) ==
    /\ crashed' = TRUE
    /\ bad_access' = m
    /\ UNCHANGED <<poolVars, clock, queueVars, srcVars, loopVars, cleanVars, netVars>>

\* ... or it uses whatever is in that memory now, and goes on.  (What a write
\* there does to an unrelated object is not modelled.)
Touch(m, freed) == bad_access' = IF freed THEN m ELSE bad_access

set_sent(m, w, val) ==
    /\ msg_queue' = IF msg_queue[m].has_sent
                    THEN [msg_queue EXCEPT ![m].sent = Pool!set_bit(@, w, val)]
                    ELSE msg_queue
    /\ Touch(m, ~ msg_queue[m].has_sent)

\* get_msg_entry(): no need to wait.
W_Get(w) ==
    /\ At(w, "get") /\ w \notin msg_waiters
    /\ current[w] # NULL \/ MsgLockFree
    /\ EntryReady(current[w], prev[w])
    /\ current' = [current EXCEPT ![w] = get_msg_entry(@, prev[w], FALSE)]
    /\ GoTo(w, "alive")
    /\ UNCHANGED <<poolVars, clock, queueVars, srcVars, prev, next, send_failed,
                   cleanVars, netVars, faultVars>>

\* get_msg_entry(): pthread_cond_wait(), in either of its two loops.
W_AwaitMsg(w) ==
    /\ At(w, "get") /\ w \notin msg_waiters
    /\ MsgLockFree
    /\ ~ EntryReady(current[w], prev[w])
    /\ msg_waiters' = msg_waiters \cup {w}
    /\ UNCHANGED <<poolVars, clock, msg_queue, srcVars, loopVars, cleanVars, netVars, faultVars>>

\* is_alive() says yes.  It also does for a peer that is gone when the reset
\* is still unreported or unread input precedes the end of the stream.
W_Alive(w) ==
    /\ At(w, "alive")
    /\ GoTo(w, "check")
    /\ UNCHANGED <<poolVars, clock, queueVars, srcVars, current, prev, next,
                   send_failed, cleanVars, netVars, faultVars>>

\* is_alive() says no: goto conn_closed, where the descriptor is closed.
W_NotAlive(w) ==
    /\ At(w, "alive")
    /\ client_fd[w] \in gone
    /\ Pool!W_Close(w)
    /\ GoTo(w, "reset")
    /\ UNCHANGED <<clock, queueVars, srcVars, current, prev, next, send_failed,
                   cleanVars, netVars, faultVars>>

\* can_forward(): the bitmask is looked at only for a message newer than the
\* client; if it is freed, either answer may come out.
W_CanForward(w) ==
    /\ At(w, "check")
    /\ LET m == current[w]
           newer == NewerThan(m, timestamp[w])
       IN  /\ \E sent \in BOOLEAN :
                /\ msg_queue[m].has_sent => sent = is_sent(m, w)
                /\ GoTo(w, IF newer /\ ~ sent THEN "header" ELSE "next")
           /\ Touch(m, newer /\ ~ msg_queue[m].has_sent)
    /\ UNCHANGED <<poolVars, clock, queueVars, srcVars, current, prev, next,
                   send_failed, cleanVars, netVars, crashed>>

\* Bytes reach a client only while its end is there to take them.
Transmit(w, part) ==
    LET c == client_fd[w]
        freed == ~ msg_queue[current[w]].has_msg
        frame == [m |-> current[w], part |-> IF freed THEN "garbage" ELSE part]
    IN  /\ wire' = IF c \in gone THEN wire ELSE [wire EXCEPT ![c] = Append(@, frame)]
        /\ Touch(current[w], freed)

\* send_ctmp_msg(): the header goes out.
W_SendHeader(w) ==
    /\ At(w, "header")
    /\ Transmit(w, "header")
    /\ GoTo(w, "data")
    /\ UNCHANGED <<poolVars, clock, queueVars, srcVars, current, prev, next,
                   send_failed, cleanVars, gone, crashed>>

\* send_ctmp_msg(): the data goes out; bytes_sent = 0.
W_SendData(w) ==
    /\ At(w, "data")
    /\ Transmit(w, "data")
    /\ send_failed' = [send_failed EXCEPT ![w] = FALSE]
    /\ GoTo(w, "mark")
    /\ UNCHANGED <<poolVars, clock, queueVars, srcVars, current, prev, next,
                   cleanVars, gone, crashed>>

\* send_ctmp_msg() fails at the header or at the data because the peer is gone,
\* or because what is left of a freed message is a bad address (EFAULT).
W_SendFails(w) ==
    /\ At(w, "header") \/ At(w, "data")
    /\ client_fd[w] \in gone \/ ~ msg_queue[current[w]].has_msg
    /\ Touch(current[w], ~ msg_queue[current[w]].has_msg)
    /\ send_failed' = [send_failed EXCEPT ![w] = TRUE]
    /\ GoTo(w, "mark")
    /\ UNCHANGED <<poolVars, clock, queueVars, srcVars, current, prev, next,
                   cleanVars, netVars, crashed>>

\* set_sent(current, args->thread_index, true), whether or not send failed.
W_MarkSent(w) ==
    /\ At(w, "mark")
    /\ set_sent(current[w], w, TRUE)
    /\ GoTo(w, "next")
    /\ UNCHANGED <<poolVars, clock, msg_waiters, srcVars, current, prev,
                   next, send_failed, cleanVars, netVars, crashed>>

\* The worker dies of the bitmask or of the message it is about to use.
W_Dies(w) ==
    /\ \/ /\ \/ At(w, "check") /\ NewerThan(current[w], timestamp[w])
             \/ At(w, "mark")
             \/ worker_pc[w] = "woken" /\ step[w] = "reset_set"
          /\ ~ msg_queue[current[w]].has_sent
       \/ /\ At(w, "header") \/ At(w, "data")
          /\ ~ msg_queue[current[w]].has_msg
    /\ Crash(current[w])

\* Get the next entry; go round the loop unless bytes_sent < 0.  bytes_sent is
\* what the last send returned, be it in an earlier iteration.
W_Next(w) ==
    /\ At(w, "next")
    /\ MsgLockFree
    /\ next' = [next EXCEPT ![w] = TailqNext(current[w])]
    /\ IF send_failed[w]
       THEN GoTo(w, "close") /\ UNCHANGED <<current, prev>>
       ELSE /\ GoTo(w, "get")
            /\ prev' = [prev EXCEPT ![w] = current[w]]
            /\ current' = [current EXCEPT ![w] = next'[w]]
    /\ UNCHANGED <<poolVars, clock, queueVars, srcVars, send_failed, cleanVars,
                   netVars, faultVars>>

\* bytes_sent < 0: close(args->client_fd)
W_SendFailedClose(w) ==
    /\ At(w, "close")
    /\ Pool!W_Close(w)
    /\ GoTo(w, "reset")
    /\ UNCHANGED <<clock, queueVars, srcVars, current, prev, next, send_failed,
                   cleanVars, netVars, faultVars>>

\* Waiting for a new client, WorkerPool.tla.
W_BecomeReady(w) ==
    /\ \/ Pool!W_Lock(w) \/ Pool!W_SetReady(w) \/ Pool!W_ClearBit(w)
       \/ Pool!W_Wait(w) \/ Pool!W_LeaveWait(w) \/ Pool!W_Reacquire(w)
    /\ UNCHANGED <<clock, queueVars, srcVars, loopVars, cleanVars, netVars, faultVars>>

\* Unlock, and go on with the `next` found before the client was lost (or, if
\* is_alive() found it lost, in an even earlier iteration).
Resume(w) ==
    /\ Pool!W_Resume(w)
    /\ prev' = [prev EXCEPT ![w] = current[w]]
    /\ current' = [current EXCEPT ![w] = next[w]]
    /\ GoTo(w, "get")
    /\ UNCHANGED <<clock, msg_waiters, srcVars, next, send_failed, cleanVars,
                   netVars, crashed>>

\* if (current->sent), read without a lock ...
W_SeesSent(w) ==
    /\ worker_pc[w] = "woken" /\ step[w] = "reset"
    /\ msg_queue[current[w]].has_sent
    /\ GoTo(w, "reset_set")
    /\ UNCHANGED <<poolVars, clock, queueVars, srcVars, current, prev, next,
                   send_failed, cleanVars, netVars, faultVars>>

W_SeesNoSent(w) ==
    /\ worker_pc[w] = "woken" /\ step[w] = "reset"
    /\ ~ msg_queue[current[w]].has_sent
    /\ Resume(w)
    /\ UNCHANGED <<msg_queue, bad_access>>

\* ... then set_sent(current, args->thread_index, false).
W_ResetSent(w) ==
    /\ worker_pc[w] = "woken" /\ step[w] = "reset_set"
    /\ set_sent(current[w], w, FALSE)
    /\ Resume(w)

-----------------------------------------------------------------------------
(* run_cleanup_worker()                                                    *)

C_Get ==
    /\ cl_pc = "get" /\ Cleaner \notin msg_waiters
    /\ EntryReady(cl_current, cl_prev)
    /\ cl_current' = get_msg_entry(cl_current, cl_prev, TRUE)
    /\ cl_pc' = "check"
    /\ UNCHANGED <<poolVars, clock, queueVars, srcVars, loopVars, cl_prev, netVars, faultVars>>

C_AwaitMsg ==
    /\ cl_pc = "get" /\ Cleaner \notin msg_waiters
    /\ ~ EntryReady(cl_current, cl_prev)
    /\ msg_waiters' = msg_waiters \cup {Cleaner}
    /\ UNCHANGED <<poolVars, clock, msg_queue, srcVars, loopVars, cleanVars, netVars, faultVars>>

\* The cleanup thread frees a message whatever its age.
C_Check_AnyAge ==
    /\ cl_pc = "check"
    /\ cl_pc' = IF msg_queue[cl_current].has_msg THEN "free_sent" ELSE "next"
    /\ UNCHANGED <<poolVars, clock, queueVars, srcVars, loopVars, cl_current,
                   cl_prev, netVars, faultVars>>

\* Is there data, and is it past its TTL?
C_Check ==
    /\ cl_pc = "check"
    /\ cl_pc' = IF msg_queue[cl_current].has_msg /\ Expired(cl_current)
                THEN "free_sent" ELSE "next"
    /\ UNCHANGED <<poolVars, clock, queueVars, srcVars, loopVars, cl_current,
                   cl_prev, netVars, faultVars>>

\* free_msg_data(): lock, free the bitmask, sent = NULL ...
C_FreeSent ==
    /\ cl_pc = "free_sent"
    /\ msg_queue' = [msg_queue EXCEPT ![cl_current].has_sent = FALSE,
                                      ![cl_current].sent = {}]
    /\ cl_pc' = "free_msg"
    /\ UNCHANGED <<poolVars, clock, msg_waiters, srcVars, loopVars, cl_current,
                   cl_prev, netVars, faultVars>>

\* ... free the message, msg = NULL, unlock.
C_FreeMsg ==
    /\ cl_pc = "free_msg"
    /\ msg_queue' = [msg_queue EXCEPT ![cl_current].has_msg = FALSE]
    /\ cl_pc' = "next"
    /\ UNCHANGED <<poolVars, clock, msg_waiters, srcVars, loopVars, cl_current,
                   cl_prev, netVars, faultVars>>

C_Next ==
    /\ cl_pc = "next"
    /\ cl_prev' = cl_current
    /\ cl_current' = TailqNext(cl_current)
    /\ cl_pc' = "get"
    /\ UNCHANGED <<poolVars, clock, queueVars, srcVars, loopVars, netVars, faultVars>>

-----------------------------------------------------------------------------
(* The dst server, and the world around the server.                        *)

otherVars == <<clock, queueVars, srcVars, loopVars, cleanVars, netVars, faultVars>>

DstAccept(c) == Pool!D_Accept(c) /\ UNCHANGED otherVars
DstStep == (Pool!D_Stamp(Now) \/ Pool!DstStep) /\ UNCHANGED otherVars

\* A destination client closes its connection, or the network resets it.
PeerGone(c) ==
    /\ conn[c] = "open" /\ c \notin gone
    /\ gone' = gone \cup {c}
    /\ UNCHANGED <<poolVars, clock, queueVars, srcVars, loopVars, cleanVars, wire, faultVars>>

Tick ==
    /\ clock < MaxClock
    /\ clock' = clock + 1
    /\ UNCHANGED <<poolVars, queueVars, srcVars, loopVars, cleanVars, netVars, faultVars>>

\* pthread_cond_wait(&msg_cond) returns although nobody broadcast.
SpuriousMsgWakeup(t) ==
    /\ t \in msg_waiters
    /\ msg_waiters' = msg_waiters \ {t}
    /\ UNCHANGED <<poolVars, clock, msg_queue, srcVars, loopVars, cleanVars, netVars, faultVars>>

SpuriousFdWakeup(w) == Pool!W_Spurious(w) /\ UNCHANGED otherVars

Environment ==
    /\ ~ crashed
    /\ \/ Tick
       \/ S_InitEntry
       \/ \E c \in Clients : DstAccept(c) \/ PeerGone(c)
       \/ \E t \in Worker \cup {Cleaner} : SpuriousMsgWakeup(t)
       \/ \E w \in Worker : SpuriousFdWakeup(w)

SourceThread == ~ crashed /\ S_Insert
DstServerThread == ~ crashed /\ DstStep
CleanupThread ==
    /\ ~ crashed
    /\ C_Get \/ C_AwaitMsg \/ C_Check \/ C_FreeSent \/ C_FreeMsg \/ C_Next

WorkerThread(w) ==
    /\ ~ crashed
    /\ \/ W_Get(w) \/ W_AwaitMsg(w) \/ W_Alive(w) \/ W_NotAlive(w)
       \/ W_CanForward(w) \/ W_SendHeader(w) \/ W_SendData(w) \/ W_SendFails(w)
       \/ W_MarkSent(w) \/ W_Next(w) \/ W_SendFailedClose(w) \/ W_BecomeReady(w)
       \/ W_SeesSent(w) \/ W_SeesNoSent(w) \/ W_ResetSent(w) \/ W_Dies(w)

Next ==
    \/ Environment
    \/ SourceThread
    \/ DstServerThread
    \/ CleanupThread
    \/ \E w \in Worker : WorkerThread(w)

Spec == Init /\ [][Next]_vars

\* Every thread of the process is scheduled; a client that is there reads what
\* it is sent.  Nothing is assumed of the clock, of clients or of the source.
Fairness ==
    /\ WF_vars(SourceThread)
    /\ WF_vars(DstServerThread)
    /\ WF_vars(CleanupThread)
    /\ \A w \in Worker : WF_vars(WorkerThread(w))

FairSpec == Spec /\ Fairness

-----------------------------------------------------------------------------
(* Properties                                                              *)

\* The server hands the bytes of complete message m to client c.
Delivered(c, m) == \E i \in DOMAIN wire[c] : wire[c][i] = [m |-> m, part |-> "data"]

\* The cleanup thread has freed message m.
Freed(m) == m \in DOMAIN msg_queue /\ ~ msg_queue[m].has_msg

\* A worker runs for client c.
Running(w, c) == worker_pc[w] = "serving" /\ client_fd[w] = c

\* A client is never sent a message older than its own connection, whichever
\* clients the worker served before and however far behind it is (can_forward).
NoStaleDelivery ==
    \A c \in Clients : \A i \in DOMAIN wire[c] :
        Units(accepted[c]) < Units(msg_queue[wire[c][i].m].timestamp)

\* What a client is sent is whole messages in queue order, each header followed
\* by its own data, with no message repeated and none left out in between; only
\* the last one may be cut short.  Several threads, a reused worker and stale
\* loop variables could each break it; only the use of freed data does.
GaplessFrames ==
    bad_access = NULL => \A c \in Clients : \A i \in DOMAIN wire[c] :
        wire[c][i] = [m |-> wire[c][1].m + (i - 1) \div 2,
                      part |-> IF i % 2 = 1 THEN "header" ELSE "data"]

\* If a worker ever touches freed data (the cleanup thread takes no notice of
\* the workers), then that message is past its TTL: nothing younger is freed.
BadAccessOnlyPastTTL == bad_access # NULL => Expired(bad_access)

\* A message for which a client has a running worker when it is stamped reaches
\* that client, unless the client leaves, the worker closes the connection or
\* the process dies: no wake-up is lost and no cursor skips an entry.
NoLossOnceRunning ==
    \A c \in Clients, m \in Msg :
        /\ src_pc = "insert" /\ Len(msg_queue) = m - 1
        /\ \E w \in Worker : Running(w, c)
        /\ compare_times(accepted[c], src_ts)
        ~> Delivered(c, m) \/ c \in gone \/ conn[c] = "closed" \/ bad_access # NULL

\* Once the cleanup thread finds a new entry and starts again at the head of the
\* queue, every message expired by then is freed in that pass.
PassFreesExpired ==
    \A m \in Msg :
        /\ cl_pc = "get" /\ cl_current = NULL /\ cl_prev # NULL
        /\ EntryReady(cl_current, cl_prev)
        /\ m \in DOMAIN msg_queue /\ Expired(m)
        ~> crashed \/ Freed(m)

\* Client c has been accepted and get_clock_time() has been called for it.
Stamped(c) == conn[c] # "new" /\ ~ (dst_pc = "stamp" /\ new_fd = c)

\* What Broadcast.tla speaks of, in terms of the threads' variables: the times of
\* the messages, those of the clients, the clients whose descriptor is closed.
Published == [m \in DOMAIN msg_queue |-> Units(msg_queue[m].timestamp)]
JoinedAt == [c \in {d \in Clients : Stamped(d)} |-> Units(accepted[c])]
Closed == {c \in Clients : conn[c] = "closed"}

Cast == INSTANCE Broadcast WITH
    Time <- Clock,
    times <- Published,
    joined <- JoinedAt,
    left <- Closed,
    sent <- wire,
    broken <- bad_access # NULL

\* The whole server implements Broadcast: through every hand-over of a worker,
\* shared or stale sent bits, failed sends and expiry, each step of each thread
\* publishes a message, lets a client join or leave, sends a client the part that
\* is next for it, or changes none of this.
ImplementsBroadcast == Cast!Spec

\* The first entry that worker w is not done with, or will go on with when it
\* has a new client.
Due(w) ==
    IF step[w] \in {"reset", "reset_set"}
    THEN IF next[w] # NULL THEN next[w] ELSE current[w] + 1
    ELSE IF step[w] \in {"next", "close"} THEN current[w] + 1
    ELSE IF current[w] # NULL THEN current[w] ELSE prev[w] + 1

\* A step of the server moves a worker by one entry, or not at all.  It moves it
\* when it is done with a message, or not going to send it.
DueMove(w) ==
    \/ Due(w)' = Due(w)
    \/ /\ Due(w) = current[w] /\ Due(w)' = Due(w) + 1
       /\ W_MarkSent(w) \/ W_NotAlive(w) \/ (W_CanForward(w) /\ step'[w] = "next")

\* No worker ever skips an entry of the queue or goes back to one, whichever
\* clients come and go and however stale the `next` is with which it resumes.
NoEntrySkipped == [][\A w \in Worker : DueMove(w)]_vars

\* The comment in can_forward() on data "freed by the cleanup worker if the
\* message is past its TTL" takes the timestamp test to make the access safe.
NoBadAccess == bad_access = NULL

\* A worker closes a connection only because, as its comments have it, the
\* client connection is closed or the send failed: the client is gone.
ClosesOnlyGone ==
    [][\A c \in Clients : conn[c] = "open" /\ conn'[c] = "closed" => c \in gone]_vars

\* "A receiver can send a message iff it was sent after the receiver connected":
\* a running worker has sent its client every newer message it has gone past.
NoMissedMessage ==
    \A w \in Worker, m \in DOMAIN msg_queue :
        /\ At(w, "get") /\ client_fd[w] \notin gone
        /\ m <= prev[w] /\ (current[w] # NULL => m < current[w])
        /\ NewerThan(m, accepted[client_fd[w]])
        => Delivered(client_fd[w], m)
=============================================================================
