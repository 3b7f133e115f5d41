----------------------------- MODULE Acceptance -----------------------------
(***************************************************************************)
(* The acceptance tests (wire-storm-reloaded, tests.py with client.py and  *)
(* buffers.py) run against the server.  The tests decide by time: they     *)
(* wait half a second before they send, and take five seconds of silence   *)
(* for a dropped message.                                                  *)
(*                                                                         *)
(* The server is the one of SrcServer.tla and WireStorm.tla with their     *)
(* inner steps left out: a source is read as whole messages, a worker      *)
(* looks at an entry in one step, nothing is cleaned up.  Server and tests *)
(* are prompt: no time passes while one of them can take a step.           *)
(***************************************************************************)
EXTENDS Buffers, FiniteSets

CONSTANTS
    Tests,          \* the test cases in the order they run
    Backlog,
    NumWorkers,     \* bound: init_args.num_workers
    extended        \* init_args.extended

\* The buffers as sent, by name.
Buffer ==
    [t_small |-> t_small, t_large |-> t_large, t_basic |-> t_basic,
     t_basic_no_checksum |-> t_basic_no_checksum,
     t_invalid_checksum |-> t_invalid_checksum,
     t_invalid_header |-> t_invalid_header]

TestCase == [data : DOMAIN Buffer, thread_count : Nat \ {0}, expect_timeout : BOOLEAN]

ASSUME TestsAssumption ==
    /\ Tests \in Seq(TestCase) /\ Tests # <<>>
    /\ Backlog \in Nat \ {0}
    /\ NumWorkers \in Nat \ {0}
    /\ extended \in BOOLEAN

Test == DOMAIN Tests
Receivers(t) == {<<t, i>> : i \in 1 .. Tests[t].thread_count}
Receiver == UNION {Receivers(t) : t \in Test}
Sender(t) == <<t, 0>>
Sockets == Receiver \cup {Sender(t) : t \in Test}
ThreadId == {r[2] : r \in Receiver}
Worker == 1 .. NumWorkers
None == <<>>        \* no socket
NoTest == 0

VARIABLES
    listening, sock, port, timeout, timer, backlog,    \* Client.tla
    test, main_pc, main_timer,
    joining,            \* the receiver thread being joined
    data_received,      \* for each thread id the test whose message it got
    verdict,            \* of the tests that have run
    rcv_pc,             \* the receiver threads
    got, missing,       \* the message whose header came, recv() calls to go
    src,                \* run_src_server: the source being read
    unread,             \* whether what a test sent is still to be read
    entries,            \* the message queue
    num_workers,        \* init_args.num_workers
    held,               \* run_dst_server: accepted, waits for a worker
    delay, nap,         \* run_dst_server: seconds to sleep next, what is left of a sleep
    since,              \* for each receiver the entries older than it
    client_fd, cursor,  \* run_dst_worker: its client, entries behind it
    inbox,              \* what was sent to a receiver and not yet received
    \* Observed only:
    ready               \* tests all of whose receivers had a worker when they sent

INSTANCE Client

clientVars == <<listening, sock, port, timeout, timer, backlog>>
mainVars == <<test, main_pc, main_timer, joining, verdict, ready>>
rcvVars == <<rcv_pc, got, missing>>
srcVars == <<src, unread, entries>>
dstVars == <<num_workers, held, delay, nap, since, client_fd, cursor>>
vars == <<clientVars, mainVars, data_received, rcvVars, srcVars, dstVars, inbox>>

sleep_before_data_send_s == 1       \* 0.5 seconds
receiver_timeout_s == 10            \* 5 seconds
buffer_size == 1024
INITIAL_DELAY == 1

\* How many times recv() is called for the data of a message at least.
Pieces(b) == IF set_msg_length(Buffer[b].header) > buffer_size THEN 2 ELSE 1

Init ==
    /\ ClientInit
    /\ test = 1 /\ main_pc = "setUp" /\ main_timer = 0 /\ joining = 1
    /\ data_received = [i \in ThreadId |-> NoTest]
    /\ verdict = <<>>
    /\ rcv_pc = [r \in Receiver |-> "none"]
    /\ got = [r \in Receiver |-> NoTest]
    /\ missing = [r \in Receiver |-> 0]
    /\ src = None /\ unread = {} /\ entries = <<>>
    /\ num_workers \in 1 .. NumWorkers
    /\ held = None /\ delay = INITIAL_DELAY /\ nap = 0
    /\ since = [r \in Receiver |-> 0]
    /\ client_fd = [w \in Worker |-> None]
    /\ cursor = [w \in Worker |-> 0]
    /\ inbox = [r \in Receiver |-> <<>>]
    /\ ready = {}

-----------------------------------------------------------------------------
(* The main thread: setUp(), _test_case(), tearDown().                     *)

M_SetUp ==
    /\ main_pc = "setUp"
    /\ data_received' = [i \in ThreadId |-> NoTest]
    /\ create_sender(Sender(test), SEND_PORT)
    /\ main_pc' = "connect"
    /\ UNCHANGED <<test, main_timer, joining, verdict, ready, rcvVars, srcVars, dstVars, inbox>>

\* connect() returns; the receiver threads are started, and time.sleep() begins.
M_StartThreads ==
    /\ main_pc = "connect"
    /\ Connected(Sender(test))
    /\ rcv_pc' = [r \in Receiver |-> IF r \in Receivers(test) THEN "start" ELSE rcv_pc[r]]
    /\ main_timer' = sleep_before_data_send_s
    /\ main_pc' = "sleep"
    /\ UNCHANGED <<test, joining, verdict, ready, data_received, got, missing, srcVars, dstVars, inbox>>

\* After the sleep: sendall(), and the first thread is joined.
M_Send ==
    /\ main_pc = "sleep" /\ main_timer = 0
    /\ unread' = unread \cup {test}
    /\ ready' = IF \A r \in Receivers(test) : \E w \in Worker : client_fd[w] = r
                THEN ready \cup {test} ELSE ready
    /\ main_pc' = "join" /\ joining' = 1
    /\ main_timer' = receiver_timeout_s
    /\ UNCHANGED <<clientVars, test, verdict, data_received, rcvVars, src, entries, dstVars, inbox>>

\* thread.join() returns, because the thread has ended or the time is up.
M_Join ==
    /\ main_pc = "join"
    /\ rcv_pc[<<test, joining>>] = "done" \/ main_timer = 0
    /\ IF joining < Tests[test].thread_count
       THEN joining' = joining + 1 /\ main_timer' = receiver_timeout_s /\ UNCHANGED main_pc
       ELSE main_pc' = "assert" /\ main_timer' = 0 /\ UNCHANGED joining
    /\ UNCHANGED <<clientVars, test, verdict, ready, data_received, rcvVars, srcVars, dstVars, inbox>>

\* Thread i received what the test expects: its data, or nothing.
AsExpected(i) ==
    IF Tests[test].expect_timeout THEN data_received[i] = NoTest
    ELSE data_received[i] # NoTest /\ Tests[data_received[i]].data = Tests[test].data

\* The assertions; then tearDown() closes the sender and sleeps.
M_Assert ==
    /\ main_pc = "assert"
    /\ verdict' = Append(verdict,
          IF \A r \in Receivers(test) : AsExpected(r[2]) THEN "pass" ELSE "fail")
    /\ close(Sender(test))
    /\ main_timer' = sleep_before_data_send_s
    /\ main_pc' = "tearDown"
    /\ UNCHANGED <<test, joining, ready, data_received, rcvVars, srcVars, dstVars, inbox>>

\* setUp() raises: connect() was refused or timed out.  The test does not run.
M_SetUpRaises ==
    /\ main_pc = "connect" /\ Raises(Sender(test))
    /\ verdict' = Append(verdict, "error")
    /\ close(Sender(test))
    /\ main_timer' = 0
    /\ main_pc' = "tearDown"
    /\ UNCHANGED <<test, joining, ready, data_received, rcvVars, srcVars, dstVars, inbox>>

M_NextTest ==
    /\ main_pc = "tearDown" /\ main_timer = 0
    /\ IF test < Len(Tests) THEN test' = test + 1 /\ main_pc' = "setUp"
       ELSE main_pc' = "end" /\ UNCHANGED test
    /\ UNCHANGED <<clientVars, main_timer, joining, verdict, ready, data_received, rcvVars,
                   srcVars, dstVars, inbox>>

-----------------------------------------------------------------------------
(* receive_msg(), a thread per receiver.                                   *)

R_Create(r) ==
    /\ rcv_pc[r] = "start"
    /\ create_receiver(r)
    /\ rcv_pc' = [rcv_pc EXCEPT ![r] = "connect"]
    /\ UNCHANGED <<mainVars, data_received, got, missing, srcVars, dstVars, inbox>>

R_Connected(r) ==
    /\ rcv_pc[r] = "connect"
    /\ Connected(r)
    /\ rcv_pc' = [rcv_pc EXCEPT ![r] = "connected"]
    /\ UNCHANGED <<mainVars, data_received, got, missing, srcVars, dstVars, inbox>>

\* recv(HEADER_SIZE) is called.
R_AwaitHeader(r) ==
    /\ rcv_pc[r] = "connected"
    /\ rcv_pc' = [rcv_pc EXCEPT ![r] = "header"]
    /\ BeginRecv(r)
    /\ UNCHANGED <<mainVars, data_received, got, missing,
                   srcVars, dstVars, inbox>>

\* ... and returns the header, whose length field says how much is to follow.
R_Header(r) ==
    /\ rcv_pc[r] = "header" /\ inbox[r] # <<>>
    /\ got' = [got EXCEPT ![r] = Head(inbox[r])]
    /\ missing' = [missing EXCEPT ![r] = Pieces(Tests[Head(inbox[r])].data)]
    /\ inbox' = [inbox EXCEPT ![r] = Tail(@)]
    /\ rcv_pc' = [rcv_pc EXCEPT ![r] = "data"]
    /\ BeginRecv(r)
    /\ UNCHANGED <<mainVars, data_received, srcVars, dstVars>>

\* recv() returns a piece of the data and the loop goes on.
R_Data(r) ==
    /\ rcv_pc[r] = "data" /\ inbox[r] # <<>> /\ missing[r] > 1
    /\ missing' = [missing EXCEPT ![r] = @ - 1]
    /\ inbox' = [inbox EXCEPT ![r] = Tail(@)]
    /\ BeginRecv(r)
    /\ UNCHANGED <<mainVars, data_received, rcv_pc, got,
                   srcVars, dstVars>>

\* recv() returns the last piece: store the message under the thread's id.
R_LastData(r) ==
    /\ rcv_pc[r] = "data" /\ inbox[r] # <<>> /\ missing[r] = 1
    /\ missing' = [missing EXCEPT ![r] = 0]
    /\ inbox' = [inbox EXCEPT ![r] = Tail(@)]
    /\ data_received' = [data_received EXCEPT ![r[2]] = got[r]]
    /\ close(r)
    /\ rcv_pc' = [rcv_pc EXCEPT ![r] = "done"]
    /\ UNCHANGED <<mainVars, got, srcVars, dstVars>>

\* connect() or recv() raises; the thread ends with nothing stored.
R_Raises(r) ==
    /\ rcv_pc[r] \in {"connect", "header", "data"} /\ Raises(r)
    /\ close(r)
    /\ rcv_pc' = [rcv_pc EXCEPT ![r] = "done"]
    /\ UNCHANGED <<mainVars, data_received, got, missing, srcVars, dstVars, inbox>>

ReceiverThread(r) ==
    \/ R_Create(r) \/ R_Connected(r) \/ R_AwaitHeader(r) \/ R_Header(r)
    \/ R_Data(r) \/ R_LastData(r) \/ R_Raises(r)

MainThread ==
    \/ M_SetUp \/ M_StartThreads \/ M_Send \/ M_Join \/ M_Assert
    \/ M_SetUpRaises \/ M_NextTest

-----------------------------------------------------------------------------
(* The server.                                                             *)

S_Accept ==
    /\ src = None
    /\ accept(SEND_PORT)
    /\ src' = Head(backlog[SEND_PORT])
    /\ UNCHANGED <<mainVars, data_received, rcvVars, unread, entries, dstVars, inbox>>

\* What the parser in use makes of each buffer.
Forwarded ==
    [b \in DOMAIN Buffer |-> /\ valid_magic(Buffer[b].header)
                             /\ extended => valid_options(Buffer[b])]

\* The source's message is read to its end, and inserted if it is valid.
S_Read ==
    /\ \E t \in unread :
        /\ src = Sender(t)
        /\ entries' = IF Forwarded[Tests[t].data] THEN Append(entries, t) ELSE entries
        /\ unread' = unread \ {t}
    /\ UNCHANGED <<clientVars, mainVars, data_received, rcvVars, src, dstVars, inbox>>

\* The source has closed its end, and everything was read.
S_Close ==
    /\ src # None /\ sock[src] = "closed" /\ src[1] \notin unread
    /\ src' = None
    /\ UNCHANGED <<clientVars, mainVars, data_received, rcvVars, unread, entries,
                   dstVars, inbox>>

\* A receiver is accepted and stamped.
D_Accept ==
    /\ held = None
    /\ accept(RECV_PORT)
    /\ held' = Head(backlog[RECV_PORT])
    /\ since' = [since EXCEPT ![held'] = Len(entries)]
    /\ UNCHANGED <<mainVars, data_received, rcvVars, srcVars, num_workers, delay, nap,
                   client_fd, cursor, inbox>>

Idle(w) == w <= num_workers /\ client_fd[w] = None

\* It is given to the first idle worker.
D_Dispatch ==
    /\ held # None /\ nap = 0
    /\ \E w \in Worker :
        /\ Idle(w) /\ \A u \in 1 .. w - 1 : ~ Idle(u)
        /\ client_fd' = [client_fd EXCEPT ![w] = held]
    /\ held' = None
    /\ delay' = INITIAL_DELAY
    /\ UNCHANGED <<clientVars, mainVars, data_received, rcvVars, srcVars, num_workers, nap,
                   since, cursor, inbox>>

\* There is none: the server sleeps before it searches again, and longer each time.
D_Backoff ==
    /\ held # None /\ nap = 0
    /\ \A w \in Worker : ~ Idle(w)
    /\ nap' = 2 * delay            \* in half seconds
    /\ delay' = 2 * delay
    /\ UNCHANGED <<clientVars, mainVars, data_received, rcvVars, srcVars, num_workers, held,
                   since, client_fd, cursor, inbox>>

\* A worker and the entry it is at: the client is gone, and the worker is idle
\* again; or the entry is newer than the client, and is sent; or it is skipped.
W_Forward(w) ==
    LET c == client_fd[w]
        m == entries[cursor[w] + 1]
        n == 1 + Pieces(Tests[m].data)
    IN  /\ c # None /\ cursor[w] < Len(entries)
        /\ cursor' = [cursor EXCEPT ![w] = @ + 1]
        /\ client_fd' = [client_fd EXCEPT ![w] = IF sock[c] = "closed" THEN None ELSE c]
        /\ inbox' = IF sock[c] # "closed" /\ cursor[w] >= since[c]
                    THEN [inbox EXCEPT ![c] = @ \o [i \in 1 .. n |-> m]] ELSE inbox
        /\ UNCHANGED <<clientVars, mainVars, data_received, rcvVars, srcVars, num_workers, held,
                       delay, nap, since>>

Server ==
    \/ S_Accept \/ S_Read \/ S_Close \/ D_Accept \/ D_Dispatch \/ D_Backoff
    \/ \E w \in Worker : W_Forward(w)

-----------------------------------------------------------------------------

Prompt == MainThread \/ Server \/ \E r \in Receiver : ReceiverThread(r)

Less(n) == IF n > 0 THEN n - 1 ELSE n

\* Half a second passes: everybody waits for somebody's time to be up.  After
\* the tests the model stops, though the dst server may go on sleeping and searching.
Tick ==
    /\ ~ ENABLED Prompt
    /\ main_timer > 0 \/ \E c \in Sockets : timer[c] > 0
    /\ main_timer' = Less(main_timer)
    /\ timer' = [c \in Sockets |-> Less(timer[c])]
    /\ nap' = Less(nap)
    /\ UNCHANGED <<listening, sock, port, timeout, backlog, test, main_pc, joining, verdict, ready,
                   data_received, rcvVars, srcVars, num_workers, held, delay, since,
                   client_fd, cursor, inbox>>

End == main_pc = "end" /\ UNCHANGED vars

Next == Prompt \/ Tick \/ End

Spec == Init /\ [][Next]_vars

-----------------------------------------------------------------------------
(* Properties                                                              *)

\* The receivers that may hold a worker when test t sends: its own, and those of
\* earlier tests behind whom no message was forwarded, so that their workers have
\* not found them gone.
MayHold(t) ==
    {r \in Receiver : r[1] <= t /\ \A u \in r[1] + 1 .. t - 1 : ~ Forwarded[Tests[u].data]}

\* No test runs without a server.  With one, a test that expects silence passes,
\* and one that expects its message passes exactly if all its receivers have a
\* worker before the sender sends: no sooner, because a client that waits misses
\* the message that frees a worker, however soon the server's back-off ends.
\* They have one if there have been workers enough for this test and all before it.
VerdictsAreRight ==
    \A t \in DOMAIN verdict :
        /\ verdict[t] = IF ~ listening THEN "error"
                        ELSE IF Tests[t].expect_timeout \/ t \in ready THEN "pass" ELSE "fail"
        /\ listening /\ (\A u \in 1 .. t : Cardinality(MayHold(u)) <= num_workers) => t \in ready

\* "The senders/receivers are torn down between each test so they can be run in
\* isolation": no receiver thread outlives its test, to take the next test's
\* message or to store its own under an id that the next test uses.
TestsAreIsolated ==
    /\ main_pc = "setUp" => \A r \in Receiver : rcv_pc[r] \in {"none", "done"}
    /\ \A r \in Receiver : got[r] \in {NoTest, r[1]}
=============================================================================
