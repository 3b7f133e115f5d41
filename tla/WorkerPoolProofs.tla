-------------------------- MODULE WorkerPoolProofs --------------------------
(***************************************************************************)
(* Proofs about WorkerPool for every number of workers up to MaskWidth,    *)
(* every set of clients and every width of an int.  In particular the      *)
(* workers whose bits coincide because an int shift wraps are included.    *)
(***************************************************************************)
EXTENDS WorkerPool, TLAPS

-----------------------------------------------------------------------------
(* The inductive invariant.  The mask is what the dst server searches, the *)
(* status fields are what it then trusts: the invariant ties the two to    *)
(* the program counters.                                                   *)

InWait == {"check", "waiting", "signalled"}

\* Worker w is the reason why its bit is set: it has a client, or has just lost
\* one, and its bit has been published and not yet cleared.
Occupied(w) ==
    \/ worker_pc[w] \in {"serving", "lock", "set_ready", "clear_bit", "woken"}
    \/ /\ worker_pc[w] \in InWait
       /\ status[w] = THREAD_BUSY
       /\ ~ (dst_pc = "wake_bit" /\ thread_index = w)
    \/ worker_pc[w] = "none" /\ dst_pc = "create" /\ thread_index = w

\* A bit is set exactly when an occupied worker has it.
MaskMeansOccupied ==
    \A p \in Worker :
        is_set(threads_status, p)
            <=> \E w \in Worker : Occupied(w) /\ ShiftCount(w) = ShiftCount(p)

\* Two workers that share a bit are never occupied together ...
OneOccupantPerBit ==
    \A u, w \in Worker :
        Occupied(u) /\ Occupied(w) /\ ShiftCount(u) = ShiftCount(w) => u = w

\* ... and the worker the dst server has chosen shares its bit with none.
ChosenIsFree ==
    dst_pc \in {"dispatch", "init", "init_bit", "assert", "wake_lock",
                "wake_fd", "wake_bit"}
        => \A w \in Worker :
               Occupied(w) => ShiftCount(w) # ShiftCount(thread_index)

\* The status field as a function of where the worker and the dst server are.
StatusByPlace ==
    \A w \in Worker :
        /\ worker_pc[w] = "none" =>
             status[w] = IF dst_pc \in {"init_bit", "create"} /\ thread_index = w
                         THEN THREAD_BUSY ELSE THREAD_AVAILABLE
        /\ worker_pc[w] \in {"serving", "lock", "set_ready", "woken"} =>
             status[w] = THREAD_BUSY
        /\ worker_pc[w] = "clear_bit" => status[w] = THREAD_READY
        /\ worker_pc[w] \in InWait => status[w] \in {THREAD_BUSY, THREAD_READY}

\* What the dst server may rely on about the worker it has chosen.
ChosenPlace ==
    /\ dst_pc # "aborted"
    /\ dst_pc \in {"init", "init_bit", "create"} => worker_pc[thread_index] = "none"
    /\ dst_pc \in {"assert", "wake_lock", "wake_fd"} =>
         /\ worker_pc[thread_index] \in InWait
         /\ status[thread_index] = THREAD_READY
    /\ dst_pc \in {"wake_bit", "wake_stamp"} =>
         /\ worker_pc[thread_index] \in {"waiting", "signalled"}
         /\ status[thread_index] = THREAD_BUSY

\* Who holds a worker's lock.
LockByPlace ==
    \A w \in Worker :
        /\ args_lock[w] = "dst" <=>
             dst_pc \in {"wake_fd", "wake_bit", "wake_stamp"} /\ thread_index = w
        /\ args_lock[w] = "worker" <=>
             worker_pc[w] \in {"set_ready", "clear_bit", "check", "woken"}

\* The client in the dst server's hands.
HeldIsOpen ==
    dst_pc # "accept" =>
        /\ new_fd \in Clients
        /\ conn[new_fd] = "open"
        /\ dst_pc # "stamp" => client_ts = accepted[new_fd]
        /\ dst_pc \in {"init_bit", "create", "wake_bit", "wake_stamp"} =>
             client_fd[thread_index] = new_fd

\* Worker w has a client.
HasClient(w) ==
    \/ worker_pc[w] \in {"serving", "woken"}
    \/ worker_pc[w] \in InWait /\ status[w] = THREAD_BUSY

\* A worker's client is open, stamped, and no longer the dst server's, unless
\* wake_up_thread() is still writing the worker's fields.
ClientOfWorker ==
    \A w \in Worker : HasClient(w) =>
        /\ client_fd[w] \in Clients
        /\ conn[client_fd[w]] = "open"
        /\ ~ HandingOver(w) =>
             /\ timestamp[w] = accepted[client_fd[w]]
             /\ ~ Held(client_fd[w])

\* No two workers have the same client.
ClientsDistinct ==
    \A u, w \in Worker :
        HasClient(u) /\ HasClient(w) /\ client_fd[u] = client_fd[w] => u = w

BitInv == MaskMeansOccupied /\ OneOccupantPerBit /\ ChosenIsFree
PlaceInv == StatusByPlace /\ ChosenPlace /\ LockByPlace
ClientInv == HeldIsOpen /\ ClientOfWorker /\ ClientsDistinct /\ NoClientDropped

IInv == TypeOK /\ BitInv /\ PlaceInv /\ ClientInv

-----------------------------------------------------------------------------
(* Bits.                                                                   *)

\* A shift lands on a bit of an int.
LEMMA ShiftCountRange ==
    ASSUME NEW p \in Nat
    PROVE  ShiftCount(p) \in 0 .. IntWidth - 1
BY WidthAssumption DEF ShiftCount

\* The bits of a position: never none, inside the mask, the same for two
\* positions that shift alike and disjoint for two that do not.
LEMMA BitsOfFacts ==
    ASSUME NEW p \in Nat, NEW q \in Nat
    PROVE  /\ BitsOf(p) # {}
           /\ BitsOf(p) \subseteq 0 .. MaskWidth - 1
           /\ ShiftCount(p) = ShiftCount(q) => BitsOf(p) = BitsOf(q)
           /\ ShiftCount(p) # ShiftCount(q) => BitsOf(p) \cap BitsOf(q) = {}
<1> DEFINE a == ShiftCount(p)
           b == ShiftCount(q)
<1>1. a \in 0 .. IntWidth - 1 /\ b \in 0 .. IntWidth - 1
  BY ShiftCountRange
<1>2. BitsOf(p) = IF a = IntWidth - 1 THEN (IntWidth - 1) .. (MaskWidth - 1) ELSE {a}
  BY DEF BitsOf
<1>3. BitsOf(q) = IF b = IntWidth - 1 THEN (IntWidth - 1) .. (MaskWidth - 1) ELSE {b}
  BY DEF BitsOf
<1> HIDE DEF a, b
<1>4. a \in BitsOf(p)
  BY <1>1, <1>2, WidthAssumption
<1>5. BitsOf(p) \subseteq 0 .. MaskWidth - 1
  BY <1>1, <1>2, WidthAssumption
<1>6. a = b => BitsOf(p) = BitsOf(q)
  BY <1>2, <1>3
<1>7. a # b => BitsOf(p) \cap BitsOf(q) = {}
  BY <1>1, <1>2, <1>3, WidthAssumption
<1>8. QED
  BY <1>4, <1>5, <1>6, <1>7 DEF a, b

\* set_bit() changes the answer of is_set() for exactly the positions that
\* shift like the one it was called with.
LEMMA SetBitFacts ==
    ASSUME NEW m \in Mask, NEW p \in Nat, NEW q \in Nat
    PROVE  /\ is_set(set_bit(m, p, TRUE), q)
                <=> ShiftCount(p) = ShiftCount(q) \/ is_set(m, q)
           /\ is_set(set_bit(m, p, FALSE), q)
                <=> ShiftCount(p) # ShiftCount(q) /\ is_set(m, q)
BY BitsOfFacts DEF is_set, set_bit

\* set_bit() stays inside the mask, even with the sign bit extended.
LEMMA SetBitType ==
    ASSUME NEW m \in Mask, NEW p \in Nat, NEW val \in BOOLEAN
    PROVE  set_bit(m, p, val) \in Mask
BY BitsOfFacts DEF set_bit, Mask

-----------------------------------------------------------------------------
(* Types.                                                                  *)

\* Workers are numbered from 0.
LEMMA WorkerFacts ==
    /\ 0 \in Worker
    /\ Worker \subseteq Nat
BY PoolAssumption, WidthAssumption DEF Worker

\* init_workers() leaves the pool well-typed.
LEMMA InitTypeOK == Init => TypeOK
BY PoolAssumption, WorkerFacts
DEF Init, TypeOK, Mask, DstPC, WorkerPC, INITIAL_DELAY, THREAD_AVAILABLE

\* Every step of every thread keeps the types.
LEMMA NextTypeOK == TypeOK /\ [Next]_poolVars => TypeOK'
<1> SUFFICES ASSUME TypeOK, [Next]_poolVars PROVE TypeOK'
  OBVIOUS
<1> USE DEF listVars, dstVars, connVars
<1>1. ASSUME NEW c \in Clients, D_Accept(c) PROVE TypeOK'
  BY <1>1 DEF TypeOK, D_Accept, DstPC
<1>2. ASSUME NEW ts \in Stamps, D_Stamp(ts) PROVE TypeOK'
  BY <1>2, WorkerFacts DEF TypeOK, D_Stamp, DstPC
<1>3. CASE D_FindIdle \/ D_FindBusy \/ D_FindNone \/ D_Backoff
  BY <1>3, WorkerFacts, PoolAssumption
  DEF TypeOK, D_FindIdle, D_FindBusy, D_FindNone, D_Backoff, DstPC,
      INITIAL_DELAY, Worker
<1>4. CASE D_Dispatch \/ D_Assert
  BY <1>4 DEF TypeOK, D_Dispatch, D_Assert, DstPC
<1>5. CASE D_InitBit \/ D_WakeBit
  BY <1>5, SetBitType, WorkerFacts DEF TypeOK, D_InitBit, D_WakeBit, DstPC
<1>6. CASE D_Init \/ D_WakeLock \/ D_WakeFd
  BY <1>6 DEF TypeOK, D_Init, D_WakeLock, D_WakeFd, DstPC, THREAD_BUSY
<1>7. CASE D_Create \/ D_WakeStamp
  BY <1>7 DEF TypeOK, D_Create, D_WakeStamp, Signal, DstPC, WorkerPC
<1>8. ASSUME NEW w \in Worker, W_Close(w) \/ W_Spurious(w) \/ WorkerStep(w)
      PROVE  TypeOK'
  <2>1. CASE W_Close(w)
    BY <2>1 DEF TypeOK, W_Close, Goto, WorkerPC
  <2>2. CASE W_ClearBit(w)
    BY <2>2, SetBitType, WorkerFacts DEF TypeOK, W_ClearBit, Goto, WorkerPC
  <2>3. CASE W_Lock(w) \/ W_SetReady(w) \/ W_Reacquire(w) \/ W_Resume(w)
    BY <2>3 DEF TypeOK, W_Lock, W_SetReady, W_Reacquire, W_Resume, Goto,
                WorkerPC, THREAD_READY
  <2>4. CASE W_Wait(w) \/ W_LeaveWait(w) \/ W_Spurious(w)
    BY <2>4 DEF TypeOK, W_Wait, W_LeaveWait, W_Spurious, Goto, WorkerPC
  <2>5. QED
    BY <1>8, <2>1, <2>2, <2>3, <2>4 DEF WorkerStep
<1>9. CASE UNCHANGED poolVars
  BY <1>9 DEF TypeOK, poolVars
<1>10. QED
  BY <1>1, <1>2, <1>3, <1>4, <1>5, <1>6, <1>7, <1>8, <1>9 DEF Next, DstStep

\* The shared fields never leave their domains; in particular the search of
\* find_idle_thread() never indexes past the worker array and the bitmask
\* operations never leave the 64 bits, whatever the number of workers.
THEOREM TypeCorrect == Spec => []TypeOK
BY InitTypeOK, NextTypeOK, PTL DEF Spec

-----------------------------------------------------------------------------
(* The invariant is inductive.                                             *)

\* No worker is occupied and no bit is set when the dst server starts.
LEMMA InitIInv == Init => IInv
<1> SUFFICES ASSUME Init PROVE IInv
  OBVIOUS
<1>1. TypeOK
  BY InitTypeOK
<1>2. \A p \in Worker : ~ is_set(threads_status, p) /\ ~ Occupied(p)
  BY DEF Init, is_set, Occupied, InWait
<1>3. BitInv
  BY <1>2 DEF Init, BitInv, MaskMeansOccupied, OneOccupantPerBit, ChosenIsFree
<1>4. PlaceInv
  BY DEF Init, PlaceInv, StatusByPlace, ChosenPlace, LockByPlace, InWait
<1>5. ClientInv
  BY DEF Init, ClientInv, HeldIsOpen, ClientOfWorker, ClientsDistinct,
         NoClientDropped, HasClient, InWait
<1>6. QED
  BY <1>1, <1>3, <1>4, <1>5 DEF IInv

\* The dst server reads the status of the worker it found without a lock, and
\* still never finds it busy, or about to clear its bit.
LEMMA DispatchFindsIdle ==
    IInv /\ dst_pc = "dispatch" =>
        /\ status[thread_index] \in {THREAD_AVAILABLE, THREAD_READY}
        /\ worker_pc[thread_index] # "clear_bit"
BY DEF IInv, TypeOK, WorkerPC, BitInv, ChosenIsFree, Occupied, PlaceInv,
       StatusByPlace, InWait, THREAD_AVAILABLE, THREAD_BUSY, THREAD_READY

\* Every step of the dst server and of every worker preserves the invariant.
LEMMA NextIInv == IInv /\ [Next]_poolVars => IInv'
<1> SUFFICES ASSUME IInv, [Next]_poolVars PROVE IInv'
  OBVIOUS
<1>0. TypeOK /\ TypeOK' /\ BitInv /\ PlaceInv /\ ClientInv
  BY NextTypeOK DEF IInv
<1> USE DEF listVars, dstVars, connVars, THREAD_AVAILABLE, THREAD_BUSY,
            THREAD_READY, InWait
<1>1. ASSUME NEW c \in Clients, D_Accept(c) PROVE IInv'
  <2>1. \A u \in Worker : Occupied(u)' <=> Occupied(u)
    BY <1>1 DEF D_Accept, Occupied
  <2>2. BitInv'
    BY <1>1, <1>0, <2>1
    DEF D_Accept, BitInv, MaskMeansOccupied, OneOccupantPerBit, ChosenIsFree
  <2>3. PlaceInv'
    BY <1>1, <1>0
    DEF D_Accept, PlaceInv, StatusByPlace, ChosenPlace, LockByPlace
  <2>4. ClientInv'
    BY <1>1, <1>0
    DEF TypeOK, D_Accept, ClientInv, HeldIsOpen, ClientOfWorker,
        ClientsDistinct, NoClientDropped, HasClient, Held, HandingOver, Owns
  <2> QED
    BY <1>0, <2>2, <2>3, <2>4 DEF IInv
<1>2. ASSUME NEW ts \in Stamps, D_Stamp(ts) PROVE IInv'
  <2>1. \A u \in Worker : Occupied(u)' <=> Occupied(u)
    BY <1>2 DEF D_Stamp, Occupied
  <2>2. BitInv'
    BY <1>2, <1>0, <2>1
    DEF D_Stamp, BitInv, MaskMeansOccupied, OneOccupantPerBit, ChosenIsFree
  <2>3. PlaceInv'
    BY <1>2, <1>0
    DEF D_Stamp, PlaceInv, StatusByPlace, ChosenPlace, LockByPlace
  <2>4. ClientInv'
    BY <1>2, <1>0
    DEF TypeOK, D_Stamp, ClientInv, HeldIsOpen, ClientOfWorker,
        ClientsDistinct, NoClientDropped, HasClient, Held, HandingOver, Owns
  <2> QED
    BY <1>0, <2>2, <2>3, <2>4 DEF IInv
<1>3. CASE D_FindIdle
  <2>1. \A u \in Worker : Occupied(u)' <=> Occupied(u)
    BY <1>3 DEF D_FindIdle, Occupied
  <2>2. BitInv'
    BY <1>3, <1>0, <2>1
    DEF TypeOK, D_FindIdle, BitInv, MaskMeansOccupied, OneOccupantPerBit,
        ChosenIsFree
  <2>3. PlaceInv'
    BY <1>3, <1>0
    DEF D_FindIdle, PlaceInv, StatusByPlace, ChosenPlace, LockByPlace
  <2>4. ClientInv'
    BY <1>3, <1>0
    DEF D_FindIdle, ClientInv, HeldIsOpen, ClientOfWorker, ClientsDistinct,
        NoClientDropped, HasClient, Held, HandingOver, Owns
  <2> QED
    BY <1>0, <2>2, <2>3, <2>4 DEF IInv
<1>4. CASE D_FindBusy
  <2>1. \A u \in Worker : Occupied(u)' <=> Occupied(u)
    BY <1>4 DEF D_FindBusy, Occupied
  <2>2. BitInv'
    BY <1>4, <1>0, <2>1
    DEF D_FindBusy, BitInv, MaskMeansOccupied, OneOccupantPerBit,
        ChosenIsFree
  <2>3. PlaceInv'
    BY <1>4, <1>0
    DEF D_FindBusy, PlaceInv, StatusByPlace, ChosenPlace, LockByPlace
  <2>4. ClientInv'
    BY <1>4, <1>0
    DEF D_FindBusy, ClientInv, HeldIsOpen, ClientOfWorker, ClientsDistinct,
        NoClientDropped, HasClient, Held, HandingOver, Owns
  <2> QED
    BY <1>0, <2>2, <2>3, <2>4 DEF IInv
<1>5. CASE D_FindNone
  <2>1. \A u \in Worker : Occupied(u)' <=> Occupied(u)
    BY <1>5 DEF D_FindNone, Occupied
  <2>2. BitInv'
    BY <1>5, <1>0, <2>1
    DEF D_FindNone, BitInv, MaskMeansOccupied, OneOccupantPerBit,
        ChosenIsFree
  <2>3. PlaceInv'
    BY <1>5, <1>0
    DEF D_FindNone, PlaceInv, StatusByPlace, ChosenPlace, LockByPlace
  <2>4. ClientInv'
    BY <1>5, <1>0
    DEF D_FindNone, ClientInv, HeldIsOpen, ClientOfWorker, ClientsDistinct,
        NoClientDropped, HasClient, Held, HandingOver, Owns
  <2> QED
    BY <1>0, <2>2, <2>3, <2>4 DEF IInv
<1>6. CASE D_Backoff
  <2>1. \A u \in Worker : Occupied(u)' <=> Occupied(u)
    BY <1>6 DEF D_Backoff, Occupied
  <2>2. BitInv'
    BY <1>6, <1>0, <2>1
    DEF D_Backoff, BitInv, MaskMeansOccupied, OneOccupantPerBit,
        ChosenIsFree
  <2>3. PlaceInv'
    BY <1>6, <1>0
    DEF D_Backoff, PlaceInv, StatusByPlace, ChosenPlace, LockByPlace
  <2>4. ClientInv'
    BY <1>6, <1>0
    DEF D_Backoff, ClientInv, HeldIsOpen, ClientOfWorker, ClientsDistinct,
        NoClientDropped, HasClient, Held, HandingOver, Owns
  <2> QED
    BY <1>0, <2>2, <2>3, <2>4 DEF IInv
<1>7. CASE D_Dispatch
  <2>1. \A u \in Worker : Occupied(u)' <=> Occupied(u)
    BY <1>7 DEF D_Dispatch, Occupied
  <2>2. BitInv'
    BY <1>7, <1>0, <2>1
    DEF D_Dispatch, BitInv, MaskMeansOccupied, OneOccupantPerBit,
        ChosenIsFree
  <2>3. PlaceInv'
    BY <1>7, <1>0, DispatchFindsIdle
    DEF TypeOK, WorkerPC, D_Dispatch, PlaceInv, StatusByPlace, ChosenPlace,
        LockByPlace
  <2>4. ClientInv'
    BY <1>7, <1>0, DispatchFindsIdle
    DEF TypeOK, D_Dispatch, ClientInv, HeldIsOpen, ClientOfWorker,
        ClientsDistinct, NoClientDropped, HasClient, Held, HandingOver, Owns
  <2> QED
    BY <1>0, <2>2, <2>3, <2>4 DEF IInv
<1>8. CASE D_Init
  <2>1. \A u \in Worker : Occupied(u)' <=> Occupied(u)
    BY <1>8, <1>0 DEF D_Init, Occupied, PlaceInv, ChosenPlace
  <2>2. BitInv'
    BY <1>8, <1>0, <2>1
    DEF D_Init, BitInv, MaskMeansOccupied, OneOccupantPerBit, ChosenIsFree
  <2>3. PlaceInv'
    BY <1>8, <1>0
    DEF TypeOK, D_Init, PlaceInv, StatusByPlace, ChosenPlace, LockByPlace
  <2>4. ClientInv'
    BY <1>8, <1>0
    DEF TypeOK, D_Init, PlaceInv, ChosenPlace, ClientInv, HeldIsOpen,
        ClientOfWorker, ClientsDistinct, NoClientDropped, HasClient, Held,
        HandingOver, Owns
  <2> QED
    BY <1>0, <2>2, <2>3, <2>4 DEF IInv
<1>9. CASE D_InitBit
  <2>1. \A u \in Worker : Occupied(u)' <=> Occupied(u) \/ u = thread_index
    BY <1>9, <1>0 DEF D_InitBit, Occupied, PlaceInv, ChosenPlace
  <2>2. \A p \in Worker :
          is_set(threads_status', p) <=> is_set(threads_status, p) \/ ShiftCount(thread_index) = ShiftCount(p)
    BY <1>9, <1>0, SetBitFacts, WorkerFacts DEF TypeOK, D_InitBit
  <2>3. BitInv'
    BY <1>9, <1>0, <2>1, <2>2
    DEF TypeOK, D_InitBit, BitInv, MaskMeansOccupied, OneOccupantPerBit,
        ChosenIsFree
  <2>4. PlaceInv'
    BY <1>9, <1>0
    DEF D_InitBit, PlaceInv, StatusByPlace, ChosenPlace, LockByPlace
  <2>5. ClientInv'
    BY <1>9, <1>0
    DEF D_InitBit, ClientInv, HeldIsOpen, ClientOfWorker, ClientsDistinct,
        NoClientDropped, HasClient, Held, HandingOver, Owns
  <2> QED
    BY <1>0, <2>3, <2>4, <2>5 DEF IInv
<1>10. CASE D_Create
  <2>1. \A u \in Worker : Occupied(u)' <=> Occupied(u)
    BY <1>10, <1>0 DEF TypeOK, D_Create, Occupied, PlaceInv, ChosenPlace
  <2>2. BitInv'
    BY <1>10, <1>0, <2>1
    DEF D_Create, BitInv, MaskMeansOccupied, OneOccupantPerBit, ChosenIsFree
  <2>3. PlaceInv'
    BY <1>10, <1>0
    DEF TypeOK, D_Create, PlaceInv, StatusByPlace, ChosenPlace, LockByPlace
  <2>4. ClientInv'
    BY <1>10, <1>0
    DEF TypeOK, D_Create, ClientInv, HeldIsOpen, ClientOfWorker,
        ClientsDistinct, NoClientDropped, HasClient, Held, HandingOver, Owns
  <2> QED
    BY <1>0, <2>2, <2>3, <2>4 DEF IInv
<1>11. CASE D_Assert
  <2>1. \A u \in Worker : Occupied(u)' <=> Occupied(u)
    BY <1>11 DEF D_Assert, Occupied
  <2>2. BitInv'
    BY <1>11, <1>0, <2>1
    DEF D_Assert, BitInv, MaskMeansOccupied, OneOccupantPerBit, ChosenIsFree
  <2>3. PlaceInv'
    BY <1>11, <1>0
    DEF D_Assert, PlaceInv, StatusByPlace, ChosenPlace, LockByPlace
  <2>4. ClientInv'
    BY <1>11, <1>0
    DEF D_Assert, PlaceInv, ChosenPlace, ClientInv, HeldIsOpen,
        ClientOfWorker, ClientsDistinct, NoClientDropped, HasClient, Held,
        HandingOver, Owns
  <2> QED
    BY <1>0, <2>2, <2>3, <2>4 DEF IInv
<1>12. CASE D_WakeLock
  <2>1. \A u \in Worker : Occupied(u)' <=> Occupied(u)
    BY <1>12 DEF D_WakeLock, Occupied
  <2>2. BitInv'
    BY <1>12, <1>0, <2>1
    DEF D_WakeLock, BitInv, MaskMeansOccupied, OneOccupantPerBit,
        ChosenIsFree
  <2>3. PlaceInv'
    BY <1>12, <1>0
    DEF TypeOK, D_WakeLock, PlaceInv, StatusByPlace, ChosenPlace,
        LockByPlace
  <2>4. ClientInv'
    BY <1>12, <1>0
    DEF D_WakeLock, ClientInv, HeldIsOpen, ClientOfWorker, ClientsDistinct,
        NoClientDropped, HasClient, Held, HandingOver, Owns
  <2> QED
    BY <1>0, <2>2, <2>3, <2>4 DEF IInv
<1>13. CASE D_WakeFd
  <2>1. \A u \in Worker : Occupied(u)' <=> Occupied(u)
    BY <1>13, <1>0 DEF D_WakeFd, Occupied, PlaceInv, ChosenPlace
  <2>2. BitInv'
    BY <1>13, <1>0, <2>1
    DEF D_WakeFd, BitInv, MaskMeansOccupied, OneOccupantPerBit, ChosenIsFree
  <2>3. PlaceInv'
    BY <1>13, <1>0
    DEF TypeOK, D_WakeFd, PlaceInv, StatusByPlace, ChosenPlace, LockByPlace
  <2>4. ClientInv'
    BY <1>13, <1>0
    DEF TypeOK, D_WakeFd, PlaceInv, ChosenPlace, ClientInv, HeldIsOpen,
        ClientOfWorker, ClientsDistinct, NoClientDropped, HasClient, Held,
        HandingOver, Owns
  <2> QED
    BY <1>0, <2>2, <2>3, <2>4 DEF IInv
<1>14. CASE D_WakeBit
  <2>1. \A u \in Worker : Occupied(u)' <=> Occupied(u) \/ u = thread_index
    BY <1>14, <1>0 DEF D_WakeBit, Occupied, PlaceInv, ChosenPlace
  <2>2. \A p \in Worker :
          is_set(threads_status', p) <=> is_set(threads_status, p) \/ ShiftCount(thread_index) = ShiftCount(p)
    BY <1>14, <1>0, SetBitFacts, WorkerFacts DEF TypeOK, D_WakeBit
  <2>3. BitInv'
    BY <1>14, <1>0, <2>1, <2>2
    DEF TypeOK, D_WakeBit, BitInv, MaskMeansOccupied, OneOccupantPerBit,
        ChosenIsFree
  <2>4. PlaceInv'
    BY <1>14, <1>0
    DEF D_WakeBit, PlaceInv, StatusByPlace, ChosenPlace, LockByPlace
  <2>5. ClientInv'
    BY <1>14, <1>0
    DEF D_WakeBit, ClientInv, HeldIsOpen, ClientOfWorker, ClientsDistinct,
        NoClientDropped, HasClient, Held, HandingOver, Owns
  <2> QED
    BY <1>0, <2>3, <2>4, <2>5 DEF IInv
<1>15. CASE D_WakeStamp
  <2>1. \A u \in Worker : Occupied(u)' <=> Occupied(u)
    BY <1>15 DEF D_WakeStamp, Signal, Occupied
  <2>2. BitInv'
    BY <1>15, <1>0, <2>1
    DEF D_WakeStamp, BitInv, MaskMeansOccupied, OneOccupantPerBit,
        ChosenIsFree
  <2>3. PlaceInv'
    BY <1>15, <1>0
    DEF TypeOK, D_WakeStamp, Signal, PlaceInv, StatusByPlace, ChosenPlace,
        LockByPlace
  <2>4. ClientInv'
    BY <1>15, <1>0
    DEF TypeOK, D_WakeStamp, Signal, PlaceInv, ChosenPlace, ClientInv,
        HeldIsOpen, ClientOfWorker, ClientsDistinct, NoClientDropped,
        HasClient, Held, HandingOver, Owns
  <2> QED
    BY <1>0, <2>2, <2>3, <2>4 DEF IInv
<1>16. ASSUME NEW w \in Worker, W_Close(w) PROVE IInv'
  <2>1. \A u \in Worker : Occupied(u)' <=> Occupied(u)
    BY <1>16 DEF W_Close, Goto, Occupied
  <2>2. BitInv'
    BY <1>16, <1>0, <2>1
    DEF W_Close, BitInv, MaskMeansOccupied, OneOccupantPerBit, ChosenIsFree
  <2>3. PlaceInv'
    BY <1>16, <1>0
    DEF W_Close, Goto, PlaceInv, StatusByPlace, ChosenPlace, LockByPlace
  <2>4. ClientInv'
    BY <1>16, <1>0
    DEF TypeOK, W_Close, Goto, PlaceInv, ChosenPlace, ClientInv, HeldIsOpen,
        ClientOfWorker, ClientsDistinct, NoClientDropped, HasClient, Held,
        HandingOver, Owns
  <2> QED
    BY <1>0, <2>2, <2>3, <2>4 DEF IInv
<1>17. ASSUME NEW w \in Worker, W_Lock(w) PROVE IInv'
  <2>1. \A u \in Worker : Occupied(u)' <=> Occupied(u)
    BY <1>17 DEF W_Lock, Goto, Occupied
  <2>2. BitInv'
    BY <1>17, <1>0, <2>1
    DEF W_Lock, BitInv, MaskMeansOccupied, OneOccupantPerBit, ChosenIsFree
  <2>3. PlaceInv'
    BY <1>17, <1>0
    DEF TypeOK, W_Lock, Goto, PlaceInv, StatusByPlace, ChosenPlace,
        LockByPlace
  <2>4. ClientInv'
    BY <1>17, <1>0
    DEF W_Lock, Goto, ClientInv, HeldIsOpen, ClientOfWorker,
        ClientsDistinct, NoClientDropped, HasClient, Held, HandingOver, Owns
  <2> QED
    BY <1>0, <2>2, <2>3, <2>4 DEF IInv
<1>18. ASSUME NEW w \in Worker, W_SetReady(w) PROVE IInv'
  <2>1. \A u \in Worker : Occupied(u)' <=> Occupied(u)
    BY <1>18 DEF W_SetReady, Goto, Occupied
  <2>2. BitInv'
    BY <1>18, <1>0, <2>1
    DEF W_SetReady, BitInv, MaskMeansOccupied, OneOccupantPerBit,
        ChosenIsFree
  <2>3. PlaceInv'
    BY <1>18, <1>0
    DEF TypeOK, W_SetReady, Goto, PlaceInv, StatusByPlace, ChosenPlace,
        LockByPlace
  <2>4. ClientInv'
    BY <1>18, <1>0
    DEF W_SetReady, Goto, ClientInv, HeldIsOpen, ClientOfWorker,
        ClientsDistinct, NoClientDropped, HasClient, Held, HandingOver, Owns
  <2> QED
    BY <1>0, <2>2, <2>3, <2>4 DEF IInv
<1>19. ASSUME NEW w \in Worker, W_ClearBit(w) PROVE IInv'
  <2>1. \A u \in Worker : Occupied(u)' <=> Occupied(u) /\ u # w
    BY <1>19, <1>0
    DEF TypeOK, W_ClearBit, Goto, Occupied, PlaceInv, StatusByPlace
  <2>2. \A p \in Worker :
          is_set(threads_status', p) <=> is_set(threads_status, p) /\ ShiftCount(w) # ShiftCount(p)
    BY <1>19, <1>0, SetBitFacts, WorkerFacts DEF TypeOK, W_ClearBit
  <2>3. Occupied(w)
    BY <1>19 DEF Occupied, W_ClearBit
  <2>4. MaskMeansOccupied'
    <3> SUFFICES ASSUME NEW p \in Worker
                 PROVE  is_set(threads_status', p) <=>
                          \E u \in Worker : Occupied(u)' /\ ShiftCount(u) = ShiftCount(p)
      BY DEF MaskMeansOccupied
    <3>1. CASE ShiftCount(w) = ShiftCount(p)
      BY <3>1, <1>0, <2>1, <2>2, <2>3 DEF BitInv, OneOccupantPerBit
    <3>2. CASE ShiftCount(w) # ShiftCount(p)
      BY <3>2, <1>0, <2>1, <2>2 DEF BitInv, MaskMeansOccupied
    <3> QED
      BY <3>1, <3>2
  <2>5. BitInv'
    BY <1>19, <1>0, <2>1, <2>4
    DEF W_ClearBit, BitInv, OneOccupantPerBit, ChosenIsFree
  <2>6. PlaceInv'
    BY <1>19, <1>0
    DEF W_ClearBit, Goto, PlaceInv, StatusByPlace, ChosenPlace, LockByPlace
  <2>7. ClientInv'
    BY <1>19, <1>0
    DEF W_ClearBit, Goto, PlaceInv, StatusByPlace, ClientInv, HeldIsOpen,
        ClientOfWorker, ClientsDistinct, NoClientDropped, HasClient, Held,
        HandingOver, Owns
  <2> QED
    BY <1>0, <2>5, <2>6, <2>7 DEF IInv
<1>20. ASSUME NEW w \in Worker, W_Wait(w) PROVE IInv'
  <2>1. \A u \in Worker : Occupied(u)' <=> Occupied(u)
    BY <1>20 DEF W_Wait, Goto, Occupied
  <2>2. BitInv'
    BY <1>20, <1>0, <2>1
    DEF W_Wait, BitInv, MaskMeansOccupied, OneOccupantPerBit, ChosenIsFree
  <2>3. PlaceInv'
    BY <1>20, <1>0
    DEF TypeOK, W_Wait, Goto, PlaceInv, StatusByPlace, ChosenPlace,
        LockByPlace
  <2>4. ClientInv'
    BY <1>20, <1>0
    DEF W_Wait, Goto, ClientInv, HeldIsOpen, ClientOfWorker,
        ClientsDistinct, NoClientDropped, HasClient, Held, HandingOver, Owns
  <2> QED
    BY <1>0, <2>2, <2>3, <2>4 DEF IInv
<1>21. ASSUME NEW w \in Worker, W_LeaveWait(w) PROVE IInv'
  <2>1. \A u \in Worker : Occupied(u)' <=> Occupied(u)
    BY <1>21, <1>0 DEF W_LeaveWait, Goto, Occupied, PlaceInv, LockByPlace
  <2>2. BitInv'
    BY <1>21, <1>0, <2>1
    DEF W_LeaveWait, BitInv, MaskMeansOccupied, OneOccupantPerBit,
        ChosenIsFree
  <2>3. PlaceInv'
    BY <1>21, <1>0
    DEF W_LeaveWait, Goto, PlaceInv, StatusByPlace, ChosenPlace, LockByPlace
  <2>4. ClientInv'
    BY <1>21, <1>0
    DEF W_LeaveWait, Goto, ClientInv, HeldIsOpen, ClientOfWorker,
        ClientsDistinct, NoClientDropped, HasClient, Held, HandingOver, Owns
  <2> QED
    BY <1>0, <2>2, <2>3, <2>4 DEF IInv
<1>22. ASSUME NEW w \in Worker, W_Spurious(w) PROVE IInv'
  <2>1. \A u \in Worker : Occupied(u)' <=> Occupied(u)
    BY <1>22 DEF W_Spurious, Goto, Occupied
  <2>2. BitInv'
    BY <1>22, <1>0, <2>1
    DEF W_Spurious, BitInv, MaskMeansOccupied, OneOccupantPerBit,
        ChosenIsFree
  <2>3. PlaceInv'
    BY <1>22, <1>0
    DEF W_Spurious, Goto, PlaceInv, StatusByPlace, ChosenPlace, LockByPlace
  <2>4. ClientInv'
    BY <1>22, <1>0
    DEF W_Spurious, Goto, ClientInv, HeldIsOpen, ClientOfWorker,
        ClientsDistinct, NoClientDropped, HasClient, Held, HandingOver, Owns
  <2> QED
    BY <1>0, <2>2, <2>3, <2>4 DEF IInv
<1>23. ASSUME NEW w \in Worker, W_Reacquire(w) PROVE IInv'
  <2>1. \A u \in Worker : Occupied(u)' <=> Occupied(u)
    BY <1>23 DEF W_Reacquire, Goto, Occupied
  <2>2. BitInv'
    BY <1>23, <1>0, <2>1
    DEF W_Reacquire, BitInv, MaskMeansOccupied, OneOccupantPerBit,
        ChosenIsFree
  <2>3. PlaceInv'
    BY <1>23, <1>0
    DEF TypeOK, W_Reacquire, Goto, PlaceInv, StatusByPlace, ChosenPlace,
        LockByPlace
  <2>4. ClientInv'
    BY <1>23, <1>0
    DEF W_Reacquire, Goto, ClientInv, HeldIsOpen, ClientOfWorker,
        ClientsDistinct, NoClientDropped, HasClient, Held, HandingOver, Owns
  <2> QED
    BY <1>0, <2>2, <2>3, <2>4 DEF IInv
<1>24. ASSUME NEW w \in Worker, W_Resume(w) PROVE IInv'
  <2>1. \A u \in Worker : Occupied(u)' <=> Occupied(u)
    BY <1>24 DEF W_Resume, Goto, Occupied
  <2>2. BitInv'
    BY <1>24, <1>0, <2>1
    DEF W_Resume, BitInv, MaskMeansOccupied, OneOccupantPerBit, ChosenIsFree
  <2>3. PlaceInv'
    BY <1>24, <1>0
    DEF TypeOK, W_Resume, Goto, PlaceInv, StatusByPlace, ChosenPlace,
        LockByPlace
  <2>4. ClientInv'
    BY <1>24, <1>0
    DEF W_Resume, Goto, ClientInv, HeldIsOpen, ClientOfWorker,
        ClientsDistinct, NoClientDropped, HasClient, Held, HandingOver, Owns
  <2> QED
    BY <1>0, <2>2, <2>3, <2>4 DEF IInv
<1>25. CASE UNCHANGED poolVars
  BY <1>25, <1>0
  DEF poolVars, IInv, BitInv, MaskMeansOccupied, OneOccupantPerBit,
      ChosenIsFree, PlaceInv, StatusByPlace, ChosenPlace, LockByPlace,
      ClientInv, HeldIsOpen, ClientOfWorker, ClientsDistinct,
      NoClientDropped, HasClient, Held, HandingOver, Owns, Occupied
<1>26. QED
  BY <1>1, <1>2, <1>3, <1>4, <1>5, <1>6, <1>7, <1>8, <1>9, <1>10, <1>11,
  <1>12, <1>13, <1>14, <1>15, <1>16, <1>17, <1>18, <1>19, <1>20, <1>21,
  <1>22, <1>23, <1>24, <1>25
  DEF Next, DstStep, WorkerStep

\* The invariant holds in every reachable state.
THEOREM InvariantHolds == Spec => []IInv
BY InitIInv, NextIInv, PTL DEF Spec

\* No accepted client is ever lost on its way to a worker: the unlocked read of
\* `status` in run_dst_server() never falls through to `default: break`.
THEOREM ClientsAreKept == Spec => []NoClientDropped
<1>1. IInv => NoClientDropped
  BY DEF IInv, ClientInv
<1>2. QED
  BY <1>1, InvariantHolds, PTL

\* The invariant says who owns what a running worker uses.
LEMMA IInvSoleOwner == IInv => SoleOwner
<1> SUFFICES ASSUME IInv, NEW w \in Worker, worker_pc[w] = "serving"
             PROVE  /\ conn[client_fd[w]] = "open"
                    /\ timestamp[w] = accepted[client_fd[w]]
                    /\ \A u \in Worker \ {w} : ~ Owns(u, client_fd[w])
  BY DEF SoleOwner
<1>1. HasClient(w) /\ ~ HandingOver(w)
  BY DEF IInv, PlaceInv, ChosenPlace, HasClient, HandingOver
<1>2. \A u \in Worker : Owns(u, client_fd[w]) => HasClient(u) /\ client_fd[u] = client_fd[w]
  BY DEF Owns, HasClient, InWait
<1> QED
  BY <1>1, <1>2 DEF IInv, ClientInv, ClientOfWorker, ClientsDistinct

\* A worker that runs for a client has that client's descriptor and timestamp to
\* itself, although the dst server writes its fields one by one.
THEOREM OwnersAreSole == Spec => []SoleOwner
BY IInvSoleOwner, InvariantHolds, PTL

\* assert(thread->status == THREAD_READY) in wake_up_thread() has not failed.
NeverAborts == dst_pc # "aborted"

\* The assertion in wake_up_thread(), which reads the status before it takes the
\* worker's lock, never fails.
THEOREM AssertHolds == Spec => []NeverAborts
<1>1. IInv => NeverAborts
  BY DEF IInv, PlaceInv, ChosenPlace, NeverAborts
<1>2. QED
  BY <1>1, InvariantHolds, PTL

-----------------------------------------------------------------------------
(* WorkerPool implements ClientService under the mapping `Service`:        *)
(* accept() is Accept, the end of pthread_create() or of wake_up_thread()  *)
(* is Assign, close() is Release, and every other step of the threads      *)
(* changes nothing a client could see.                                     *)

\* Worker w has a client for the rest of the system to see.
Serves(w) == HasClient(w) /\ ~ HandingOver(w)

\* The refinement mapping in the terms of the invariant.
ServingMeans ==
    \A w \in Worker :
        /\ Serving(w) = IF Serves(w) THEN client_fd[w] ELSE NoFd
        /\ Serves(w) => client_fd[w] \in Clients

\* ServingMeans follows from the invariant of the pool.
LEMMA ServingFacts == IInv => ServingMeans
<1> SUFFICES ASSUME IInv, NEW w \in Worker
             PROVE  /\ Serving(w) = IF Serves(w) THEN client_fd[w] ELSE NoFd
                    /\ Serves(w) => client_fd[w] \in Clients
  BY DEF ServingMeans
<1>1. HasClient(w) => client_fd[w] \in Clients
  BY DEF IInv, ClientInv, ClientOfWorker
<1>2. \A c \in Clients : Owns(w, c) <=> HasClient(w) /\ client_fd[w] = c
  BY DEF Owns, HasClient, InWait
<1> QED
  BY <1>1, <1>2 DEF Serving, Serves

\* The abstract variables, as the mapping defines them.
fresh == {c \in Clients : conn[c] = "new"}
held == IF dst_pc \in {"accept", "aborted"} THEN NoFd ELSE new_fd
serving == [w \in Worker |-> Serving(w)]

\* At the start every client is fresh and no worker has one.
LEMMA InitRefines == Init => Service!Init
<1> SUFFICES ASSUME Init PROVE Service!Init
  OBVIOUS
<1>1. fresh = Clients /\ held = NoFd
  BY DEF Init, fresh, held
<1>2. \A w \in Worker : Serving(w) = NoFd
  BY DEF Init, Serving, Owns
<1> QED
  BY <1>1, <1>2 DEF Service!Init, fresh, held

\* A step that leaves the connections, the dst server's client and every served
\* client alone is a stutter of the service.
LEMMA Stutter ==
    ASSUME ServingMeans, ServingMeans', UNCHANGED fresh, UNCHANGED held,
           \A w \in Worker : /\ Serves(w)' <=> Serves(w)
                             /\ Serves(w) => client_fd'[w] = client_fd[w]
    PROVE  UNCHANGED Service!serviceVars
<1>1. \A w \in Worker : Serving(w)' = Serving(w)
  BY DEF ServingMeans
<1>2. serving' = serving
  BY <1>1 DEF serving
<1> QED
  BY <1>2 DEF Service!serviceVars, fresh, held, serving

\* Every step of the threads is a step of the service or a stutter.
LEMMA NextRefines ==
    IInv /\ IInv' /\ ServingMeans /\ ServingMeans' /\ [Next]_poolVars
        => [Service!Next]_(Service!serviceVars)
<1> SUFFICES ASSUME IInv, IInv', ServingMeans, ServingMeans', [Next]_poolVars
             PROVE  [Service!Next]_(Service!serviceVars)
  OBVIOUS
<1>0. TypeOK /\ PlaceInv /\ ClientInv /\ TypeOK' /\ PlaceInv' /\ ClientInv'
  BY DEF IInv
<1> USE DEF listVars, dstVars, connVars, THREAD_AVAILABLE, THREAD_BUSY,
            THREAD_READY, InWait
<1>1. ASSUME NEW c \in Clients, D_Accept(c) PROVE Service!Accept(c)
  <2>1. held = NoFd /\ c \in fresh /\ held' = c /\ fresh' = fresh \ {c}
    BY <1>1, <1>0 DEF TypeOK, D_Accept, fresh, held
  <2>2. \A w \in Worker : Serving(w)' = Serving(w)
    BY <1>1 DEF ServingMeans, Serves, HasClient, HandingOver, D_Accept
  <2> QED
    BY <2>1, <2>2 DEF Service!Accept, fresh, held
<1>2. CASE D_Create \/ D_WakeStamp
  <2> PICK t \in Worker : t = thread_index
    BY <1>0 DEF TypeOK
  <2>1. held # NoFd /\ held' = NoFd /\ held = new_fd /\ fresh' = fresh
    BY <1>2, <1>0, PoolAssumption
    DEF ClientInv, HeldIsOpen, D_Create, D_WakeStamp, held, fresh
  <2>2. ~ Serves(t) /\ Serves(t)' /\ client_fd'[t] = new_fd
    BY <1>2, <1>0 DEF TypeOK, PlaceInv, ChosenPlace, StatusByPlace, ClientInv,
       HeldIsOpen, D_Create, D_WakeStamp, Signal, Serves, HasClient, HandingOver
  <2>3. \A w \in Worker : w # t =>
           (Serves(w)' <=> Serves(w)) /\ client_fd'[w] = client_fd[w]
    BY <1>2, <1>0 DEF TypeOK, D_Create, D_WakeStamp, Signal, Serves, HasClient,
       HandingOver
  <2>4. Serving(t) = NoFd /\ Serving(t)' = new_fd
    BY <2>2 DEF ServingMeans
  <2>5. \A w \in Worker : w # t => Serving(w)' = Serving(w)
    BY <2>3 DEF ServingMeans
  <2>6. serving' = [serving EXCEPT ![t] = held]
    BY <2>1, <2>4, <2>5 DEF serving
  <2>7. Service!Assign(t)
    BY <2>1, <2>4, <2>6 DEF Service!Assign, fresh, held, serving
  <2> QED
    BY <2>7 DEF Service!Next
<1>3. ASSUME NEW w \in Worker, W_Close(w) PROVE Service!Release(w)
  <2>1. held' = held /\ fresh' = fresh
    BY <1>3, <1>0 DEF TypeOK, ClientInv, ClientOfWorker, HasClient, W_Close, held, fresh
  <2>2. Serves(w) /\ ~ Serves(w)'
    BY <1>3, <1>0 DEF TypeOK, PlaceInv, ChosenPlace, W_Close, Goto, Serves,
       HasClient, HandingOver
  <2>3. \A u \in Worker : u # w =>
           (Serves(u)' <=> Serves(u)) /\ client_fd'[u] = client_fd[u]
    BY <1>3, <1>0 DEF TypeOK, W_Close, Goto, Serves, HasClient, HandingOver
  <2>4. Serving(w) # NoFd /\ Serving(w)' = NoFd
    BY <2>2, PoolAssumption DEF ServingMeans
  <2>5. \A u \in Worker : u # w => Serving(u)' = Serving(u)
    BY <2>3 DEF ServingMeans
  <2>6. serving' = [serving EXCEPT ![w] = NoFd]
    BY <2>4, <2>5 DEF serving
  <2> QED
    BY <2>1, <2>4, <2>6 DEF Service!Release, fresh, held, serving
<1>4. ASSUME NEW ts \in Stamps, D_Stamp(ts) PROVE UNCHANGED Service!serviceVars
  <2>1. UNCHANGED fresh /\ UNCHANGED held
    BY <1>4 DEF D_Stamp, fresh, held
  <2>2. \A w \in Worker : (Serves(w)' <=> Serves(w)) /\ client_fd'[w] = client_fd[w]
    BY <1>4 DEF D_Stamp, Serves, HasClient, HandingOver
  <2> QED
    BY <2>1, <2>2, Stutter
<1>5. CASE D_FindIdle \/ D_FindBusy \/ D_FindNone \/ D_Backoff \/ D_InitBit
           \/ D_WakeLock \/ D_WakeBit
  <2>1. UNCHANGED fresh /\ UNCHANGED held
    BY <1>5 DEF D_FindIdle, D_FindBusy, D_FindNone, D_Backoff, D_InitBit,
       D_WakeLock, D_WakeBit, fresh, held
  <2>2. \A w \in Worker : (Serves(w)' <=> Serves(w)) /\ client_fd'[w] = client_fd[w]
    BY <1>5 DEF D_FindIdle, D_FindBusy, D_FindNone, D_Backoff, D_InitBit,
       D_WakeLock, D_WakeBit, Serves, HasClient, HandingOver
  <2> QED
    BY <2>1, <2>2, Stutter
<1>6. CASE D_Dispatch \/ D_Assert
  <2>1. dst_pc' \notin {"accept", "aborted"}
    BY <1>6, <1>0, DispatchFindsIdle DEF PlaceInv, ChosenPlace, D_Dispatch, D_Assert
  <2>2. UNCHANGED fresh /\ UNCHANGED held
    BY <1>6, <2>1 DEF D_Dispatch, D_Assert, fresh, held
  <2>3. \A w \in Worker : (Serves(w)' <=> Serves(w)) /\ client_fd'[w] = client_fd[w]
    BY <1>6 DEF D_Dispatch, D_Assert, Serves, HasClient, HandingOver
  <2> QED
    BY <2>2, <2>3, Stutter
<1>7. CASE D_Init \/ D_WakeFd
  <2>1. UNCHANGED fresh /\ UNCHANGED held
    BY <1>7 DEF D_Init, D_WakeFd, fresh, held
  <2>2. \A w \in Worker : /\ Serves(w)' <=> Serves(w)
                          /\ Serves(w) => client_fd'[w] = client_fd[w]
    BY <1>7, <1>0 DEF TypeOK, PlaceInv, ChosenPlace, D_Init, D_WakeFd, Serves,
       HasClient, HandingOver
  <2> QED
    BY <2>1, <2>2, Stutter
<1>8. ASSUME NEW w \in Worker, W_Spurious(w) \/ WorkerStep(w)
      PROVE  UNCHANGED Service!serviceVars
  <2>1. UNCHANGED fresh /\ UNCHANGED held
    BY <1>8 DEF W_Spurious, WorkerStep, W_Lock, W_SetReady, W_ClearBit, W_Wait,
       W_LeaveWait, W_Reacquire, W_Resume, fresh, held
  <2>2. ASSUME NEW u \in Worker
        PROVE  (Serves(u)' <=> Serves(u)) /\ client_fd'[u] = client_fd[u]
    <3>1. CASE W_Spurious(w) \/ W_LeaveWait(w) \/ W_Resume(w)
      BY <3>1, <1>0 DEF TypeOK, PlaceInv, StatusByPlace, W_Spurious, W_LeaveWait,
         W_Resume, Goto, Serves, HasClient, HandingOver
    <3>2. CASE W_Lock(w) \/ W_SetReady(w)
      BY <3>2, <1>0 DEF TypeOK, W_Lock, W_SetReady, Goto, Serves, HasClient,
         HandingOver
    <3>4. CASE W_ClearBit(w)
      BY <3>4, <1>0 DEF TypeOK, PlaceInv, StatusByPlace, W_ClearBit, Goto,
         Serves, HasClient, HandingOver
    <3>3. CASE W_Wait(w) \/ W_Reacquire(w)
      BY <3>3, <1>0 DEF TypeOK, W_Wait, W_Reacquire, Goto, Serves, HasClient,
         HandingOver
    <3> QED
      BY <1>8, <3>1, <3>2, <3>3, <3>4 DEF WorkerStep
  <2> QED
    BY <2>1, <2>2, Stutter
<1>9. CASE UNCHANGED poolVars
  <2>1. UNCHANGED fresh /\ UNCHANGED held
    BY <1>9 DEF poolVars, fresh, held
  <2>2. \A w \in Worker : (Serves(w)' <=> Serves(w)) /\ client_fd'[w] = client_fd[w]
    BY <1>9 DEF poolVars, Serves, HasClient, HandingOver
  <2> QED
    BY <2>1, <2>2, Stutter
<1> QED
  BY <1>1, <1>2, <1>3, <1>4, <1>5, <1>6, <1>7, <1>8, <1>9
  DEF Next, DstStep, Service!Next

\* The pool's masks, locks and signals implement the service: each accepted
\* client goes to exactly one worker that has none, and stays there until it is
\* closed.
THEOREM PoolImplementsService == Spec => ImplementsService
<1>1. Spec => []ServingMeans
  BY InvariantHolds, ServingFacts, PTL
<1>2. QED
  BY <1>1, InvariantHolds, InitRefines, NextRefines, PTL
  DEF Spec, ImplementsService, Service!Spec
=============================================================================
