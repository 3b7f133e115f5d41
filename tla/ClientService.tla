--------------------------- MODULE ClientService ---------------------------
(***************************************************************************)
(* What the worker pool promises, without masks, locks or signals: clients *)
(* are accepted one at a time, each accepted client is given to one worker *)
(* that has no client, and is served by that worker until it is released.  *)
(***************************************************************************)
CONSTANTS Worker, Clients, NoFd

VARIABLES
    fresh,    \* clients that have not connected yet
    held,     \* the accepted client that has no worker yet, or NoFd
    serving   \* the client of each worker, or NoFd

serviceVars == <<fresh, held, serving>>

Init ==
    /\ fresh = Clients
    /\ held = NoFd
    /\ serving = [w \in Worker |-> NoFd]

Accept(c) ==
    /\ held = NoFd
    /\ c \in fresh
    /\ held' = c
    /\ fresh' = fresh \ {c}
    /\ UNCHANGED serving

Assign(w) ==
    /\ held # NoFd
    /\ serving[w] = NoFd
    /\ serving' = [serving EXCEPT ![w] = held]
    /\ held' = NoFd
    /\ UNCHANGED fresh

Release(w) ==
    /\ serving[w] # NoFd
    /\ serving' = [serving EXCEPT ![w] = NoFd]
    /\ UNCHANGED <<fresh, held>>

Next ==
    \/ \E c \in Clients : Accept(c)
    \/ \E w \in Worker : Assign(w) \/ Release(w)

Spec == Init /\ [][Next]_serviceVars
=============================================================================
