------------------------------- MODULE Client -------------------------------
(***************************************************************************)
(* The test client's sockets (wire-storm-reloaded, client.py).  A socket   *)
(* connects once its port's queue of connections has room; every call that *)
(* blocks is given up when the socket's timeout has passed.  Time is       *)
(* counted in half seconds, the shortest time the tests wait for.          *)
(***************************************************************************)
EXTENDS Integers, Sequences

CONSTANTS
    Sockets,
    Backlog     \* init_args.backlog

VARIABLES
    listening,  \* whether the server runs
    sock,       \* each socket: "none", "connecting", "open", "closed"
    port,       \* the port it connects to
    timeout,    \* what settimeout() was given
    timer,      \* what is left of it for the call in progress
    backlog     \* for each port the connections not yet accepted

SEND_PORT == 33333
RECV_PORT == 44444
timeout_s == 10         \* 5.0 seconds
Blocking == -1          \* the timeout of a socket that has none set

ClientInit ==
    /\ listening \in BOOLEAN
    /\ sock = [c \in Sockets |-> "none"]
    /\ port = [c \in Sockets |-> 0]
    /\ timeout = [c \in Sockets |-> Blocking]
    /\ timer = [c \in Sockets |-> Blocking]
    /\ backlog = [p \in {SEND_PORT, RECV_PORT} |-> <<>>]

\* create_sender() without settimeout().
create_sender_NoTimeout(c, p) ==
    /\ sock[c] = "none"
    /\ sock' = [sock EXCEPT ![c] = "connecting"]
    /\ port' = [port EXCEPT ![c] = p]
    /\ UNCHANGED <<listening, timeout, timer, backlog>>

\* create_sender(): socket(), settimeout(), and connect() begins.
create_sender(c, p) ==
    /\ sock[c] = "none"
    /\ sock' = [sock EXCEPT ![c] = "connecting"]
    /\ port' = [port EXCEPT ![c] = p]
    /\ timeout' = [timeout EXCEPT ![c] = timeout_s]
    /\ timer' = [timer EXCEPT ![c] = timeout_s]
    /\ UNCHANGED <<listening, backlog>>

\* create_receiver() that connects to the default port of create_sender().
create_receiver_DefaultPort(c) == create_sender(c, SEND_PORT)

create_receiver(c) == create_sender(c, RECV_PORT)

\* connect() succeeds, whether or not the server accepts the connection yet.
Connected(c) ==
    /\ sock[c] = "connecting" /\ listening
    /\ Len(backlog[port[c]]) < Backlog
    /\ sock' = [sock EXCEPT ![c] = "open"]
    /\ timer' = [timer EXCEPT ![c] = Blocking]
    /\ backlog' = [backlog EXCEPT ![port[c]] = Append(@, c)]
    /\ UNCHANGED <<listening, port, timeout>>

\* The call in progress raises: connect() is refused, or its time has passed.
Raises(c) == timer[c] = 0 \/ (sock[c] = "connecting" /\ ~ listening)

\* recv() is called; it blocks for as long as the timeout allows.
BeginRecv(c) ==
    /\ timer' = [timer EXCEPT ![c] = timeout[c]]
    /\ UNCHANGED <<listening, sock, port, timeout, backlog>>

close(c) ==
    /\ sock' = [sock EXCEPT ![c] = "closed"]
    /\ timer' = [timer EXCEPT ![c] = Blocking]
    /\ UNCHANGED <<listening, port, timeout, backlog>>

\* The server takes the next connection to port p.
accept(p) ==
    /\ backlog[p] # <<>>
    /\ backlog' = [backlog EXCEPT ![p] = Tail(@)]
    /\ UNCHANGED <<listening, sock, port, timeout, timer>>
=============================================================================
