----------------------------- MODULE Broadcast -----------------------------
(***************************************************************************)
(* What the server promises its destination clients, without threads,      *)
(* locks, queue or bit masks: messages are published one after another, a  *)
(* client joins at some time and leaves, and from its first message on it  *)
(* is sent every one, in order and whole, none from before it joined.      *)
(* That is all that is promised once the server has used freed data, but   *)
(* for the order and the contents of what it sends.                        *)
(***************************************************************************)
EXTENDS Naturals, Sequences

CONSTANTS
    Clients,
    Time    \* the times there are

VARIABLES
    times,    \* when each message was stamped, in the order of the queue
    joined,   \* when each client that has joined was
    left,     \* the clients whose connection is closed
    sent,     \* the parts of messages that each client was sent
    broken    \* freed data was used

castVars == <<times, joined, left, sent, broken>>

Init ==
    /\ times = <<>>
    /\ joined = [c \in {} |-> 0]
    /\ left = {}
    /\ sent = [c \in Clients |-> <<>>]
    /\ broken = FALSE

\* A message becomes available.  It was stamped no earlier than the one before,
\* but maybe earlier than clients that have joined by now.
Publish(t) ==
    /\ \A m \in DOMAIN times : times[m] <= t
    /\ times' = Append(times, t)
    /\ UNCHANGED <<joined, left, sent, broken>>

Join(c, t) ==
    /\ c \notin DOMAIN joined
    /\ \A m \in DOMAIN times : times[m] <= t
    /\ joined' = [d \in DOMAIN joined \cup {c} |-> IF d = c THEN t ELSE joined[d]]
    /\ UNCHANGED <<times, left, sent, broken>>

Present(c) == c \in DOMAIN joined /\ c \notin left

Leave(c) ==
    /\ Present(c)
    /\ left' = left \cup {c}
    /\ UNCHANGED <<times, joined, sent, broken>>

\* Part p of message m comes next for client c: the header follows the data of
\* the message before, the data its own header.
IsNext(c, m, p) ==
    LET before == IF p = "header" THEN [m |-> m - 1, part |-> "data"]
                                  ELSE [m |-> m, part |-> "header"]
    IN  IF sent[c] = <<>> THEN p = "header" ELSE sent[c][Len(sent[c])] = before

Send(c, m, p) ==
    /\ Present(c)
    /\ m \in DOMAIN times /\ joined[c] < times[m]
    /\ broken => broken'
    /\ ~ broken' => IsNext(c, m, p)
    /\ sent' = [sent EXCEPT ![c] = Append(@, [m |-> m, part |-> p])]
    /\ UNCHANGED <<times, joined, left>>

Break ==
    /\ broken' = TRUE
    /\ UNCHANGED <<times, joined, left, sent>>

Next ==
    \/ \E t \in Time : Publish(t)
    \/ \E c \in Clients :
         \/ \E t \in Time : Join(c, t)
         \/ Leave(c)
         \/ \E m \in DOMAIN times, p \in {"header", "data", "garbage"} : Send(c, m, p)
    \/ Break

Spec == Init /\ [][Next]_castVars
=============================================================================
