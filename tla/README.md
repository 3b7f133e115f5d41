# wire-storm: a TLA+ model of the CTMP proxy

`ws_server` accepts one source client on port 33333, reads CTMP messages from
it, and forwards every valid message to all destination clients connected to
port 44444. It is a multi-threaded C program; most of what can go wrong in it
happens between threads. These modules model the threads, the state they share
and the steps between two shared accesses, at the granularity of the source; the
reading of messages byte by byte; and the acceptance tests that come with the
protocol, run against the server.

Paths below are relative to the repository (`src/` in `PROJECT.json`).

## 1. Inventory

| Component | State | Operations | Talks to |
|---|---|---|---|
| dst server thread (`ws_server.c`, `run_dst_server`) | `new_fd`, `client_ts`, `thread_index`, `delay` | accept, stamp, search for an idle worker, back off, dispatch | worker pool, sockets |
| worker pool (`lib/thread.c`) | `threads_status` (mask under a mutex), per worker `status` and `args` (descriptor, timestamp, lock, condition) | `init_workers`, `find_idle_thread`, `init_thread_info`, `wake_up_thread` | dst server and workers share it |
| dst workers (`run_dst_worker`) | `current`, `prev`, `next`, `bytes_sent` | walk the queue, check the connection, send, mark as sent, close, wait for the next client | queue, pool, sockets |
| message queue (`lib/msg_queue.c`) | list of entries: timestamp, message, `sent` mask | insert, wait for the next entry, `is_sent`/`set_sent`, `can_forward`, `free_msg_data` | source, workers, cleanup |
| source server (`run_src_server`) | one connection, the message being read | accept, check the connection, parse, insert and broadcast | queue, CTMP parser, sockets |
| cleanup worker (`run_cleanup_worker`) | `current`, `prev` | walk the queue, free the data of entries past their TTL, start again at the head | queue |
| CTMP messages (`lib/ctmp.c`) | none of its own | read and validate a message (plain and extended), checksum, send header and data | sockets |
| bitmask, timestamps (`lib/bitmask.c`, `lib/timestamp.c`) | none | set and test a bit, compare two times | everything above |
| acceptance tests (`wire-storm-reloaded-1.0.0/`: `tests.py`, `client.py`, `buffers.py`) | a sender, receiver threads, `data_received` shared by all tests | connect, send a buffer, receive one message per thread, join, compare | the server, through both ports |
| sockets, arguments, logging (`lib/socket.c`, `args.c`, `log.c`) | none kept | start-up, accept, `is_alive`, parsing options, output | everything above |

What is hard here:

* The dst server chooses a worker by the mask, then trusts that worker's
  `status`, which it reads without a lock, while the worker updates both.
* `wake_up_thread()` writes a worker's fields one by one; only the worker's own
  lock keeps the worker from seeing half of them.
* Workers use an entry's `sent` mask and message without `msg_lock`; the cleanup
  thread frees both under it. A worker is delayed for as long as a client
  blocks its `send()`.
* A worker is reused: its loop variables and `bytes_sent` outlive its client.
* All waiting for messages goes through one condition variable.
* Bits are computed with an `int` shift in a 64-bit mask.
* A stream has no marks: a parser that reads a byte too few or too many, after a
  short read, a refused message or a source that breaks off, misreads all that
  follows.
* `is_alive()` and `read()` are the only ways to notice that a source has left,
  and an error is reported to whichever is called first, once.
* The tests take silence for a dropped message and half a second for "everybody is
  connected"; threads of several tests store their results in one dictionary.

The `hazards` of `PROJECT.json` list these at their lines, each with the
properties that would catch it going wrong.

## 2. Modules

```
Bitmask ---- WorkerPool ---- MCWorkerPool
                 | \-------- WorkerPoolProofs                        (TLAPS)
                 | refines
                 |   ClientService
                 | INSTANCE
Timestamp -- WireStorm ----- MCWireStorm
                 | \-------- WireStormProofs -- WireStormDelivery    (TLAPS)
                 | refines       -- WireStormMarks -- WireStormFrames
                 |   Broadcast

Ctmp ------- SrcServer ----- MCSrcServer
  |  |           \---------- SrcServerProofs                         (TLAPS)
  |  |                              \
  |  \---------------------- CtmpProofs -- SrcServerFraming          (TLAPS)
  \--------- Buffers ------- Acceptance --- MCAcceptance
                               | INSTANCE
                             Client
```

**Bitmask** is `lib/bitmask.c`. A mask is the set of its 1 bits; `BitsOf(pos)` is
what `(uint64_t) (1 << pos)` really is: the shift count is taken modulo the
width of an int (the position is a run-time value, so the compiled code is the
machine's shift instruction) and the sign bit extends to the top of the mask.

**Timestamp** is `lib/timestamp.c`: `timespec` records, `compare_times`, adding
the TTL. `NsecPerSec` is scaled down for TLC.

**WorkerPool** is the dst server, `lib/thread.c` and the block of `run_dst_worker`
after the label `conn_closed`. Variables carry the source's names. A critical
section of `threads_status.lock` has a single access in it and is one step;
`args.lock` is a variable with its holder, because `wake_up_thread()` and the
worker hold it across several steps. `pthread_cond_wait` is three places:
`waiting` (lock released), `signalled` (woken, by a signal or spuriously, and
competing for the lock) and `check` (lock held again, loop condition next). Each
element of `Clients` is one connection, so a descriptor is never reused; the
kernel's reuse of descriptor numbers after `close()` makes no difference, since
the worker does not touch its descriptor between `close()` and the hand-over.
In this module a worker may lose its client at any time.

**ClientService** is the promise of the pool without its mechanism: one client is
accepted at a time and given to one worker without a client, which keeps it
until it releases it. `WorkerPool!Service` is the refinement mapping; a client is
the worker's from the moment `wake_up_thread()` unlocks.

**WireStorm** is the whole process: the source thread's insertion, the workers'
loop, the cleanup thread, the dst server (the actions of `WorkerPool`, instantiated
on the same variables), the monotonic clock and the clients that leave. A queue
entry is its position, which is sound because entries are never unlinked. An
entry's payload is abstracted; what a client is sent is a sequence of headers and
data parts. When a worker uses data that has been freed, which is undefined
behaviour, the model takes each outcome: the process dies (NULL or unmapped
memory), or the worker goes on with whatever is there, so that the mask gives
either answer, garbage is sent, or `send()` fails with a bad address.
`bad_access` records it. What a write into freed memory does to unrelated
objects is not modelled.

**Broadcast** is the promise of the server to its destination clients without threads,
queue cursors, sent bits, hand-overs or expiry: messages are published in the order of
their times, clients join at a time and leave, and each client is sent, from its first
message on, every one, whole, in order, once, and none from before it joined. When a
client's first message is, is left open: the code promises nothing there (the violated
`NoMissedMessage`, and a client that waits for a worker). Once freed data was used
(`broken`), what is left of the promise is that only a client that is there, and only for
a message newer than it, is sent anything. `WireStorm!Cast` is the refinement mapping:
the times of the queue's entries (`Published`), the times of the clients that were stamped
(`JoinedAt`), the closed connections (`Closed`), `wire`, and `bad_access # NULL`.

**Ctmp** is the part of `lib/ctmp.c` that computes: magic byte, length, options and
the checksum, over headers and data as sequences of bytes. `calc_checksum` sums
16-bit words in the byte order of the host (little-endian), as the code does.
`NetChecksum` and `ProtocolValid` are the reference, written from the protocol
(network order, sum modulo 2^16 - 1). `valid_padding()` is left out: it tests
`header[i] & 0x00`, is always true, and its result is only logged.

**SrcServer** is `run_src_server()` with `read_msg()` and the two parsers, over the
bytes of the connections. Where `WireStorm` lets a valid message arrive
(`S_InitEntry`), this module says which messages those are. A stream is all the bytes
its source has put into the connection, less those that a leaving source keeps back,
with a read position; `read()` returns any part of what is
wanted and left (`S_Read`), nothing at the end of the stream or when nothing is
wanted (`S_ReadNone`), or an error after a reset (`S_ReadFails`). A reset is
reported once, to `recv()` in `is_alive()` or to `read()`, and is an end of stream
from then on. `served`, `sent` (each message a source has sent, with the place in the
stream where it ends) and the fields `src` and `end` of an entry are history, kept for the
properties.

**Client** is `client.py`: what `create_sender()` and `create_receiver()` do to a
socket, and how long each call of it may block. **Buffers** is what the constants of
`buffers.py` decode to, byte for byte (the large message too).

**Acceptance** is `tests.py` composed with the server: `setUp`, the receiver threads,
the sleep, `sendall`, `join` with its limit, the assertions and `tearDown`, for a
whole suite. Time is in half seconds. The server's inner steps are left out: a
message is read whole and a worker handles an entry in one step; what these steps
can do to each other is the business of the other modules. The server still
decides with the `Ctmp` operators which buffer it forwards, a worker still notices
a gone client only at an entry, and still does not offer that entry to its next
client. When no worker is idle the dst server sleeps before it searches again
(`D_Backoff`; `nap` counts down with the tests' own timers), one second at first and
twice as long each time, and accepts nobody meanwhile. `listening` says whether there is
a server at all, `num_workers` how it was started; both are open in the initial states.
`ready` is history: the tests whose receivers all had a worker when the sender sent.

## 3. Runs

The pool's runs and the acceptance run check deadlock as well. `WireStorm`
and `SrcServer` runs do not: messages, clients and the clock are bounded, sources
may fall silent and the process may die, so their behaviours end.

| Run | Instance | Result |
|---|---|---|
| `pool_safety` | 3 workers, 4 clients, int of 2 bits in a mask of 4 | `TypeOK`, `NoClientDropped`, `SoleOwner` hold |
| `pool_service` | 2 workers with a bit each, 3 clients, fair | `ClientGetsWorker`, `ImplementsService` hold |
| `pool_wide` | 3 workers, int of 2 bits | `BacksOffOnlyWhenFull` is violated |
| `frames` | 1 worker, 2 clients, 3 messages, seconds of 2 units, the clock passes the end of one | `NoStaleDelivery`, `GaplessFrames`, `NoEntrySkipped`, `ImplementsBroadcast` hold |
| `expiry` | 1 worker, 2 clients, 1 message, clock past the TTL | `TypeOK`, `BadAccessOnlyPastTTL` hold |
| `delivery` | 1 worker, 1 client, 2 messages, clock past the TTL, fair | `NoLossOnceRunning`, `PassFreesExpired` hold |
| `source_frames` | 2 sources, 2 messages of 6 kinds, both modes, fair | `TypeOK`, `FramesWhatWasSent`, `EntryIsPiece`, `NextSourceServed` hold |
| `acceptance` | the 7 tests, 1 to 5 workers, extended mode | `VerdictsAreRight`, `TestsAreIsolated` hold |
| `use_after_free` | 1 worker, 1 client, 1 message | `NoBadAccess` is violated |
| `wrong_close` | 1 worker, 2 clients, 2 messages | `ClosesOnlyGone` is violated |
| `missed` | 1 worker, 2 clients, 1 message | `NoMissedMessage` is violated |
| `desync` | 1 source, 2 messages | `ForwardsValidMessages` is violated |

### Bounds

* `IntWidth`, `MaskWidth`: 32 and 64 in the code. The pool runs scale them to 2
  and 4, so that three workers meet an ordinary bit, the sign bit and a wrapped
  shift. The `WireStorm` runs use the real widths.
* `NumWorkers`: one worker is enough for every hazard of reuse, and with the
  cleanup thread for a broadcast to several waiters; three for workers that share
  a bit.
* `Clients`: always more than the workers in at least one run of each module, so
  that the back-off path is taken and workers are reused.
* `MaxMsgs`: two messages order the queue, three are the fewest that can have a
  gap in between.
* `FirstClock`, `MaxClock`, `TTL`: the smallest TTL the program accepts, 2 seconds.
  `MaxClock` 3 lets a message stamped at 0 expire, 4 also one that is newer than a
  client. `frames` starts at the last unit of a second and ends in the next. In
  `frames`, `wrong_close` and `missed` nothing expires: expiry has runs of its own.
* `MaxSent` (`SrcServer`): two messages, so that one follows every kind of message,
  from the same source or from the next one. The kinds: plain, sensitive with a
  word and a leftover byte, wrong checksum, unknown options, no data, wrong magic
  byte; they are short, but each is read in every way a stream can be cut.
  `MaxLost` 1 cuts a message off inside its data, or, when it has none, inside its
  header. `Backlog` is the program's; 2 is enough for both sources.
* `Acceptance`: the tests, their order (unittest's, by name), waits and limits are
  the real ones; `test_multiple_receivers` has 4 receivers for 20. The server has 1 to 5
  workers. `VerdictsAreRight` says exactly which tests pass: those that expect silence, and
  those whose receivers all had a worker when the sender sent; and all have one as long
  as there are workers for the test's own receivers and for those of earlier tests that
  no worker has found gone yet (`MayHold`). That takes 5 workers here and, by the same
  count, 21 for the real suite (20 receivers and the gone receiver of the test before). With
  4 the receiver of the fourth test waits behind four gone ones and misses the message
  that frees their workers: the flaw of `missed`, seen from outside; yet the seventh test
  passes again. `Backlog` 11 takes every receiver of the suite, as the default of 32 does
  for the 27 of the real one. With a smaller backlog and fewer workers than the suite
  needs, a receiver may spend its five seconds once in `connect()` and once more in
  `recv()` and outlive its test: `TestsAreIsolated` is not a promise of the tests alone.
* `MaxDelay`: the doubling of the back-off delay saturates; no property of the pool
  depends on how long a sleep takes. (`Acceptance` does not bound it.)

### Fairness

In the pool: weak fairness of each thread's steps, i.e. the scheduler runs every
thread, and strong fairness of taking a mutex (`D_WakeLock`, `W_Reacquire`),
because a waiter of a mutex that is released again and again obtains it
eventually. Connections, the loss of a client and spurious wake-ups are not fair.
In the server: weak fairness of the source's insertion, the dst server, the
cleanup thread and each worker. This includes that `send()` returns: a client
that is still there takes what it is sent. The clock, the source, the clients'
leaving and spurious wake-ups are not fair.
In the source server: weak fairness of the source thread. That sources leave at
some time is not assumed but the hypothesis of `NextSourceServed`, since one that
stays keeps the server to itself by design.
`Acceptance` has no fairness. It is synchronous in time instead: no time passes
while the tests or the server can take a step. That is the assumption the tests
themselves make when they sleep for half a second, and it is why their verdicts
are about the logic of server and tests and not about the load of the machine.

### What the violated properties show

1. **Only 32 workers.** With `--num-workers` above 32 (the manual says 1 to 64)
   the bits of workers 32 and up coincide with those of 0 to 31. The server
   refuses clients with workers to spare, and `ClientGetsWorker` holds only up to 32.
   It stays safe (section 4).
2. **Use after free.** The order of tests in `can_forward()` protects against
   freed data only when the message is older than the client. A worker held up
   by a slow client for longer than the TTL reaches an expired message that is
   newer, or is inside `send_ctmp_msg()` when it expires.
3. **Wrong close.** `bytes_sent` is not reset for a new client; if that client's
   first entry is one it is not entitled to, it is disconnected.
4. **Missed message.** When a worker finds its client gone, its next client is not
   offered the entry the worker was at, even if the client had connected before
   that message came in (it waited for a worker).
5. **Lost step.** A message refused for its magic byte leaves its body in the
   stream. It is read as headers, and the messages behind it are cut at the wrong
   places; a valid one is not forwarded. The tests do not see it, because each of
   them closes its connection after one message. Refused options and checksums do
   no such harm, since they are tested after the data was read.

Seen on the way, and not stated as properties: the cleanup thread waits for a new
message before it looks at the queue again, so the data of the last messages stays
past its TTL while the source is silent; padding is never really tested; a message
without data is taken for the end of the stream and never forwarded
(`FramesWhatWasSent` says that this costs nothing else).

`BadAccessOnlyPastTTL`, `NoLossOnceRunning`, `ImplementsBroadcast`, `PassFreesExpired`,
`FramesWhatWasSent` and `EntryIsPiece` are the strongest statements we found that do hold
next to these.

## 4. Proofs

Checked by TLAPS, for every value of the constants:

| Module | Theorem | Statement |
|---|---|---|
| `WorkerPoolProofs` | `TypeCorrect` | `Spec => []TypeOK` |
| | `ClientsAreKept` | `Spec => []NoClientDropped` |
| | `OwnersAreSole` | `Spec => []SoleOwner` |
| | `AssertHolds` | the `assert` in `wake_up_thread()` never fails |
| | `PoolImplementsService` | `Spec => ImplementsService`, the pool refines `ClientService` |
| `WireStormProofs` | `ComparisonIsClockOrder` | `compare_times` is the order of the clock |
| | `ServerKeepsClients` | the pool's `NoClientDropped` and `SoleOwner`, in the server |
| | `ServerTypes` | `Spec => []TypeOK` |
| `WireStormDelivery` | `FreesOnlyExpired` | `Spec => []BadAccessOnlyPastTTL` |
| | `NothingStaleIsSent` | `Spec => []NoStaleDelivery` |
| `WireStormMarks` | `QueueInOrder` | the queue is in the order of its timestamps |
| | `WorkersNeverSkip` | `Spec => NoEntrySkipped`, an action property: no worker skips an entry or goes back |
| | `MarksHold` | the pattern of the `sent` bits ahead of a worker |
| `WireStormFrames` | `FramesAreGapless` | `Spec => []GaplessFrames` |
| | `ServerImplementsBroadcast` | `Spec => ImplementsBroadcast`, the whole server refines `Broadcast` |
| `SrcServerProofs` | `SrcTypes` | `Spec => []TypeOK` |
| | `EntriesArePieces` | `Spec => []EntryIsPiece` |
| `CtmpProofs` | `ChecksumIsTheProtocols` | the host-order checksum test accepts exactly what the protocol's checksum accepts |
| `SrcServerFraming` | `QueueIsFramed` | `Spec => []FramesWhatWasSent` |

### Assumptions

`WidthAssumption` (an int is not wider than a mask and has at least one bit),
`PoolAssumption` and, for the server, `ServerPoolAssumption` (the range of
`--num-workers`, and that the "nothing" values are not clients or stamps),
`ServerAssumption` (the range of the TTL; the bounds are numbers), `NsecAssumption`
(a second has at least one unit) and `SrcAssumption` (messages have a header of eight
bytes and the data it announces). TLC evaluates all of them in the runs. The
proofs hold for every bound (`MaxMsgs`, `MaxClock`, `MaxSent`, `MaxLost`, `Backlog`), so
the bounds of section 3 limit the runs only. Every invariant below was an invariant of a
TLC run before it was proved.

### The worker pool

None of the properties is inductive. The invariant `IInv` has four parts:

* `TypeOK`;
* `BitInv`: a bit of the mask is set exactly when some *occupied* worker has it;
  two workers that share a bit are never occupied together; the worker the dst
  server has chosen shares its bit with no occupied worker;
* `PlaceInv`: the `status` field and the holder of the lock as functions of where
  the worker and the dst server are;
* `ClientInv`: the held client is open and stamped, a worker's client is open,
  stamped, its alone and no longer the dst server's (except inside
  `wake_up_thread()`), and no client is dropped.

`Occupied(w)` is the key notion: the worker has a client or has just lost one, and
its bit is published and not yet cleared. The dst server's unlocked read is safe
because a worker sets `status` before it clears its bit, so a clear bit
(`BitInv`) excludes every place in which `status` is `THREAD_BUSY` (`PlaceInv`).
The lemma `SetBitFacts` is all the proof needs to know of the int shift: `set_bit`
changes `is_set` for exactly the positions that shift alike. That is why the
result covers more than 32 workers: sharing a bit costs capacity, not safety.

The refinement needs the same invariant: under it a worker's abstract client is
its descriptor whenever it has one and is not being handed one (`ServingMeans`).
`accept()` is then `Accept`, the end of `pthread_create()` or `wake_up_thread()`
is `Assign`, `close()` is `Release`, and every other step is a stutter; that the
dispatch is one rests on `DispatchFindsIdle`.

### The server, layer by layer

Each module takes the invariants of the ones before as given and adds its own.

1. **The pool in the server** (`WireStormProofs`). Each step of each thread is a step
   of `WorkerPool` or leaves the pool's variables alone (`PoolStep`, one case per
   action); this is how `WireStorm` is composed, and what makes the pool's results
   usable here. The invariant it takes is `ClockOK`: the clock stays within its bounds, so
   that it stamps one of the pool's stamps. So the pool's `IInv` holds in the server
   (`PoolInvHolds`); `PoolFacts` is what the rest uses of it.
2. **Places in the queue** (`WireStormProofs`). `CursorInv`: every thread's cursor is
   `NULL` or an entry that is in the queue, and is one where the code dereferences it.
   With it the types are inductive.
3. **Expiry** (`WireStormDelivery`). `FreedInv`: what is freed, or behind the cleanup
   thread's test, is past its TTL, and so is what a worker touched freed. Time goes on
   and timestamps never change (`EntriesStay`), so it remains so.
4. **Delivery** (`WireStormDelivery`). `DeliveryInv`: a worker between `can_forward()`
   and its sends is at an entry newer than its client; whatever was sent is newer than
   the client it was sent to. It holds whether or not freed data is used, because the
   timestamp is in the entry and is never freed.
5. **Order, places and bits** (`WireStormMarks`). The queue is in the order of its
   timestamps (`OrderInv`), because the source is one thread. `Due(w)` is the first entry
   that worker `w` is not done with. The stale `next` is at most one entry off
   (`NextInv`), and hence `Due(w)` moves by one entry or not at all.
   `MarksInv` is the heart of it. A worker finds bits of its own that earlier clients
   left, or that a worker with the same bit (32 or more apart) set, and is to send
   exactly the messages without them. Its client's stream has no gap because, among the
   messages newer than the client from `Due(w)` on, the set bits come first
   (`SentFirst`); and the one bit that is reset for a new client is the last of
   them, or belongs to an older message (`ResetIsLast`). For this to be so when a client gets its
   worker, it must be so for every worker that the client may get, while it is in the
   dst server's hands (`HeldSentFirst`, `HeldResetIsLast`). That in turn needs what is
   known of the workers that have clients at that time: theirs are older, and the
   messages newer than the held client that they are done with are exactly those
   with their bit set (`GivenBefore`, `GivenMarks`).
6. **Frames** (`WireStormFrames`). `FramesInv`: a worker that has begun to send finds no
   bit set ahead (`NothingSentAhead`), so it leaves nothing out; a client that was sent
   something keeps its worker until it is closed (`OneServer`), and what that worker
   is due to send is what follows in the stream (`DueIsNext`): the data after the header,
   the next message after the data.
7. **Broadcast** (`WireStormFrames`). For each variable of `Broadcast` there is a lemma that
   says which steps of the server change its image and how: a time is added by
   `S_Insert` only, and it is no earlier than the ones before (`PublishedStep`, with
   `OrderInv`); a client joins when the dst server stamps it, and then the clock is past all
   stamps in the queue (`JoinedStep`); it leaves when its worker closes it (`ClosedStep`);
   `wire` grows by `send_ctmp_msg()` only (`SendStep`), and there the client is present and
   older than the message (`SenderFacts`, from `DeliveryInv`) and the part is the next one
   (`SenderInTurn`, from `DueIsNext` and `GaplessFrames`). No step changes two of these four.
   A step that uses freed data is `Break`, or a `Send` that sets `broken`, after which the
   order is no longer promised. Every other step is a stutter.

### The source server

`SrcServerProofs` takes `PlaceInv` (the buffers by where the thread is) with the types,
and `PieceInv`: the bytes in the buffers are the piece of the stream that ends at the read
position, and all entries of that source end before it (`ReadingPiece`); entries lie
within what was read (`EntriesRead`). What was read never changes, although a stream
grows and a source that breaks off takes its end away (`ReadIsKept`). The lemmas on
pieces (`PieceKept`, `PieceGrows`) are all that is used of sequences.

`SrcServerFraming` relates the queue to the messages sent. Its invariant `FramingInv` has:

* `StreamInv`: the bytes of a stream are the messages its source has sent, one behind the
  other, the last of them maybe cut off (`Laid`);
* `TurnsInv` and `ServingInv`: sources are served one after another, and only the one
  being served, or served before, has entries or has been read from;
* `Order`: the entries are in the order of the sources' turns and, within a stream, of the
  places where they end;
* and, as long as the magic bytes sent are valid (`AllMagic`, the hypothesis of
  `FramesWhatWasSent`, without which `desync` shows the parser to lose step): `InStep`, the
  parser is between two messages, or inside one whose header is the one in its buffer;
  `Complete`, each message read to its end that the protocol wants forwarded is in the
  queue; `Sound`, each entry is such a message.

The parser is in step because a refused message is refused either after its data
was read or when it has none (`ReadCompletes`), and a source that breaks off is at the
end of its stream. `VerdictIsTheProtocols` is where the checksum comes in.

### The checksum

`calc_checksum()` adds the words of header and data as the host reads them, with a
leftover byte as the low byte of a word, folds the carries and complements; the protocol
adds network-order words and takes the sum modulo 2^16 - 1. Swapping the bytes of a word is
multiplying by 256 modulo 2^16 - 1 (`SwapWord`), so the two sums correspond for words of any
number (`SwappedSum`), and folding preserves the residue (`FoldValue`). The sums are
recursive functions over the data and need induction, of which the library's theorems
take an operator as a parameter; `StrongInduction` and `InductionTo` state it instead for
sets of numbers, which follows from the well-foundedness of `<` on the natural numbers,
and the value of a recursive function is got by showing that its equation has a
solution (`PartialSumsExist`).

### Only model-checked

* Liveness (`ClientGetsWorker`, `NoLossOnceRunning`, `PassFreesExpired`,
  `NextSourceServed`): fairness is out of the prover's reach.
* `Acceptance`: its statements are about one given suite of tests, which TLC explores
  completely; `Tick` is defined with `ENABLED`, which the prover does not reason about.

## 5. Not modelled

* A big-endian host: words are little-endian, and `ntohs()` swaps.
* Failure of `malloc` and `pthread_create` (the process exits), start-up, options,
  logging, and `server_close()`, which nothing calls.
* Weak memory: the unlocked accesses to `status`, `sent` and `msg` are steps in
  some order.
* A split of a header or of a data part: `send_msg()` retries until all of it is
  sent or the connection fails, and a failed part is the last one.
* In the acceptance tests: a `recv()` that returns part of a header, a server that
  stops while the suite runs, the banners, and the decoding of the buffers by
  `getb()`, of which only the results are used.
* The command line: one pass over the options at start-up, whose limits are the
  assumptions on `NumWorkers`, `TTL` and `Backlog`.

## 6. Plan

Done: all components that have behaviour are modelled; every safety invariant, every
action property and every refinement that the runs of the pool, the server and the source
server check is proved. What is left:

1. `SrcServer` and `WireStorm` together: the source thread of `WireStorm` is an
   abstraction of `SrcServer`'s (`S_InitEntry` stands for a message read to its end);
   state it as a refinement of a small common specification of the queue's writer.
2. Action properties that no run states yet: an entry is freed at most once; a byte of a
   stream is read once.
