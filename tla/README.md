# muMuduo in TLA+

muMuduo is a small C++ network library after muduo: one event loop per thread,
non-blocking sockets, callbacks. This directory holds TLA+ modules that model
its core, TLC configurations that check them, and TLAPS proofs about them.
`PROJECT.json` lists components, runs, findings, hazards and theorems, and maps
every definition to the lines it models.

    tlc -workers 2 -config MCEventLoop.cfg MCEventLoop.tla
    tlapm EventLoopProofs.tla

## The system

| part | state | operations | talks to |
|---|---|---|---|
| `EventLoop` | `quit_`, `pendingFunctors_`, `callingPendFunctors_`, an eventfd, the active channels | `loop`, `quit`, `runInLoop`, `queueInLoop`, `wakeup` | any thread, through the functor queue and the eventfd; its poller; handlers |
| `Channel`, `EPollPoller` | `events_`, `index_`, `channels_`, the kernel's interest list | `enable…`/`disable…`, `remove`, `poll`, `handleEvent` | owners' callbacks; epoll |
| `Buffer` | a vector and two indices | `append`, `readFd`, `writeFd`, `retrieve…` | sockets |
| `TcpConnection` | `state_`, two buffers, a channel, a socket | `send`, `shutdown`, `connectEstablished`, `connectDestroyed`, four handlers | its loop, user callbacks, `TcpServer` |
| `TcpServer`, `Acceptor` | `connections_`, `nextConnId_`; the listening channel | `start`, `listen`, `handleRead`, `newConnection`, `removeConnection`, destructors | base loop, pool, connections |
| `EventLoopThreadPool`, `EventLoopThread`, `Thread` | `loops_`, `next_`; `loop_`, a mutex and a condition; the thread | `setThreadNum`, `start`, `getNextLoop`, destructors | loop threads |
| `Socket`, `InetAddress`, `Logger`, `Timestamp`, `CurrentThread`, `DefaultPoller` | little or none | wrappers and formatting | – |

What is hard: functors and `quit` handed over between threads (lost wake-ups,
lost quits, order), raw pointers in queued functors, a connection closing while
it is sending, shutting down or being destroyed, its way from the acceptor's
thread to its own and back, pollers that hold bare pointers to channels over
reused descriptors, the start-up and tear-down
handshake of loop threads, and the arithmetic of a buffer that grows or moves.
The list, line by line, is under `hazards`.

### isInLoopThread

`EventLoop::isInLoopThread()` (EventLoop.h:47) evaluates a comparison and has no
`return`, which leaves its result undefined. The library committed in `lib/` was
built by GCC 7.3.1 with `-g` and no optimisation (`build/CMakeCache.txt`). Its
machine code leaves the result of `CurrentThread::tid()` in the return register,
and callers test the low byte of it: `if(isInLoopThread())` holds when the byte
is not 0, and `if(!isInLoopThread())`, which flips the lowest bit first, holds
when it is not 1. The loop asked does not matter, only the id of the calling
thread. The models take these outcomes: `EventLoop.tla` chooses thread ids in
its initial state, `TcpConnection.tla` a Boolean `inLoop`, `TcpServer.tla` a
Boolean for each thread. So for 255 thread ids
in 256 `runInLoop` executes at once, in any thread, and for one in 256 it
queues, even in the loop's own thread.

## Modules

* `FunctorQueue` – what `queueInLoop` promises: a queue of functors, each
  executed once, in order, and in the end. `EventLoop` implements it.
* `EventLoop` – one loop, its owner and the threads that call it. `at` is where
  the owner is in `loop()`, `call` where each thread is in a call; a call is cut
  wherever another thread can come in between (push and unlock, test, write to
  the eventfd). User code runs before `loop()`, in handlers and in functors.
* `ByteQueue`, `Buffer` – the byte queue a buffer is meant to be, and the vector
  with its indices. The functions are operators from a buffer to a buffer; the
  actions call them with fresh, numbered bytes.
* `EventLoopThreadPool` – the user of a pool (`main`) and its threads
  (`worker`): `Thread::start`'s semaphore, the condition in `startLoop`, the
  callback, `getNextLoop`, `setThreadNum` at any time, quitting, and the
  destructors, which join or detach.
* `Channel` – operators on one channel's record: its events and index, the
  poller's map, and what epoll knows of the descriptor.
* `TcpConnection` – a connection, its channel (by `Channel`'s operators), the
  loop around it and the kernel's side of its socket, for a server without pool
  threads. `user` is the callback in which user code runs, so `send` and
  `shutdown` occur in the middle of handlers, where the code lets them.
  `sendInLoop` is cut between its write and the rest. Another thread may call
  `shutdown`, cut at its test and its assignment.
* `Stream` – what a connection promises its user: what is given goes out, the
  FIN after all of it, the end is reported. `TcpConnection` implements it
  (`Promise`) where `runInLoop` finds the loop's thread and no other thread calls
  `shutdown`; otherwise `handleWrite` may find the buffer empty and send the FIN
  with a `sendInLoop` still queued, and `shutdown_elsewhere` shows the other case.
* `Sessions` – what a server promises: clients are accepted in the order in
  which they came, no more at a time than there are descriptors; the user hears
  of each one up, then of its messages, then down; only then is it let go.
* `TcpServer` – a server, its acceptor, its base loop and the loops of its pool
  with a poller each, and several connections. A handler or functor is cut into
  its accesses to what threads share (`connections_`, `channels_`) and the user
  callbacks; `todo` lists those a thread still has to make. `Alive` follows the
  shared_ptrs: the map, functors in a queue, functors of the drain under way
  (which are destroyed together at its end), local variables and the guard of
  `handleEvent`. `active` is the active list of bare channel pointers. When two
  threads are in one container the state is `Undefined`, and the model stops.
  `TcpServer` implements `Sessions` unless the base loop's `isInLoopThread()`
  holds and there is a pool (`Elsewhere`): then `connectEstablished` runs in the
  acceptor's thread. Bytes are in `TcpConnection`, wake-ups in `EventLoop`.
* `MC…` – the instances for TLC. `EventLoopProofs`, `BufferProofs`,
  `EventLoopThreadPoolProofs`, `TcpConnectionProofs`, `StreamProofs`,
  `TcpServerProofs`, `SessionsProofs` – theorems; `ChannelProofs` – lemmas about
  the operators of `Channel` that the last four share.

Each module's head names its *seeded faults*: variants of an operator with one
plausible mistake in them, not part of the specification. A property is worth
its place only if TLC finds it violated with a fault put in (`mutants`).

## Runs

| run | shows | bounds |
|---|---|---|
| `event_loop` | no lost wake-up, no lost quit, the queue's promise, `quit` stops a running loop | owner and one thread, two calls each, ids with low bytes 0, 1, 2 and 2: 791,158 states |
| `quit_before_loop` | a `quit` before `loop` is forgotten | one call each |
| `run_in_caller` | `runInLoop` executes in the caller's thread | one call each |
| `buffer` | a byte queue up to the first overrun; an overrun is at most the reserved front | front 2, vector 3, extrabuf 3, nine bytes: 16,044 states |
| `buffer_overrun` | `append` can pass the end of the vector | the same |
| `loop_thread_pool` | complete loops, round robin, destruction, `start` and destruction end | up to three threads, each loop given out twice: 82,891 states |
| `tcp_connection` | order of bytes, `Stream`, registration, callbacks, back-pressure, no dangling `this`; `shutdown`, close and a pause end | three bytes in sends of one or two, send buffer of one, high-water mark 2, one arrival: 840,349 states |
| `shutdown_elsewhere` | FIN ahead of data | the same |
| `send_later` | a queued `send` reads freed memory | the same |
| `down_unreported` | the user is not told of the end | the same |
| `tcp_server` | `Sessions`; no dangling active channel without `~TcpServer`, pollers and kernel agree, threads keep to their own; the backlog empties, closed connections are released | up to two pool threads, two clients, one of whom talks, one or two descriptors, an event list of one: 232,975 states |
| `destroyed_in_use` | `~TcpServer` in a handler frees channels in the base loop's own active list | no pool threads, otherwise the same |

The bounds suffice for what can go wrong. Two calls of a thread reach every
pair of a call and a loop step, and a call made in a functor or a handler; one
byte of each kind of thread id stands for all, as nothing else of an id is used.
The buffer grows, moves and empties several times within nine bytes, and its
sizes put every comparison on both sides; the proofs are for all sizes. Three
threads make round robin and destruction in order more than a swap. With a send
buffer of one byte, every message of two is cut, one of one may go straight
through, and a third byte can overtake. Two clients are two channels in one
poller or one in each of two; with one descriptor the second waits for the
first's and reuses it; a list of one event is full with the acceptor alone, so
that it must grow for the others to be seen.

Deadlock is not checked: a stopped loop, a destroyed pool, a destroyed
connection and a full byte budget are ends.

### Findings

* `quit()` before `loop()` is overwritten (`EventLoop.cc:76`).
* `runInLoop` executes elsewhere (`EventLoop.h:47`).
* `makeSpace` counts the reserved front as room, so `append` writes up to eight
  bytes past the vector (`Buffer.h:111`).
* `shutdown` in another thread overtakes data (`TcpConnection.cc:126`).
* `send` queues a pointer into a string it does not own (`TcpConnection.cc:50`).
* The end of a connection goes unreported (`TcpConnection.cc:151`).
* `~TcpServer` in a handler destroys channels that the loop is about to call
  (`TcpServer.cc:46`). The run has no pool, so that the connections are in the
  active list of the very loop whose handler it is. With one, and an
  `isInLoopThread()` that holds in the base loop's thread, that thread frees
  channels in the lists of the pool's loops just as well.

Exceptions that properties name are findings of the runs, too. `Unannounced`
(`EventLoop`): functors whose wake-up the code does not send, because the low
byte of the thread's id is 1; the poll's timeout makes good for them. `MayRevive`
(`TcpConnection`): `shutdown` in another thread tests `state_` and then sets it,
so that it can overwrite `kDisconnected`; a `sendInLoop` still in the queue then
writes, registers the channel that was taken out, and the hang-up it reports
closes the connection again, with a second call of both callbacks.
`MissedLoop` (`EventLoopThreadPool`): `startLoop` waits for `loop_`, which
`threadFunc` resets when its loop ends; a loop that its callback has told to quit
may come and go before `startLoop` looks (`EventLoopThread.cc:31`). `Undefined`
and `Elsewhere` (`TcpServer`): with an `isInLoopThread()` that holds in other
threads, pool threads meet in `connections_`, and the acceptor's thread
establishes connections of other loops; `InOwnThread` and `Promise` say that
nothing of the kind happens where it does not hold. And a server with pool
threads never gets past the end of its destructor: nobody tells their loops to
quit before they are joined.

### Fairness

Threads that can run, run, and user code returns: weak fairness of the loop,
of each thread inside a call, of each pool thread. `epoll_wait` returns within
`kPollTimeMs`, so a poll is always a step the loop can take. `main` is fair
inside `start` and the destructor only. A peer that is there goes on reading,
without which no `shutdown` could end. In `TcpServer` each loop is fair, unless
it has nothing to do or the state is `Undefined`; which ready channels
`epoll_wait` leaves out when its list is full is up to it. Nothing makes anyone
call, send, quit, close, reset or destroy, and spurious wake-ups are never
required.

### Assumptions on the environment

In `TcpConnection`, a connection's loop is its server's own, and where
`runInLoop` queues, the server outlives the connection. Threads other than the
loop's call only `shutdown`, and their ids have a low byte other than 0. SIGPIPE is ignored. `retriveAsString` is
given no more than is readable, as all its callers do. After an overrun nothing
is said of a buffer. In `TcpServer`, user callbacks only return (what they may
call is in `TcpConnection`), `start` is called before the base loop's `loop()`,
and what the base loop does after a destruction is left out.

## Proofs

`EventLoopProofs`, for any set of threads, ids and number of calls:

* `TypeCorrect` – `TypeOK` is inductive once it ties `callingPendFunctors_` and
  `functors` to the point in `dopendingFunctors`.
* `NoWakeupIsLost` – `NoLostWakeup` speaks of the loop asleep only, so it is not
  inductive. `WakeInv` says of every functor in the queue, at every point of the
  loop, that it is announced: its call is still before its test or its write,
  the eventfd is not 0, the loop is at a point before the next swap, or it is one
  that the code never announces.
* `NoQuitIsLost` – `NoLostQuit` is inductive with `TypeOK`.
* `QueueIsImplemented` – the safety part of `FunctorQueue`: the mapping joins
  the batch and the queue, so the swap is a stutter.

`BufferProofs`, for all sizes: `TypeCorrect` and `OverrunIsBounded` from an
invariant that orders the indices, bounds the overrun and says what is
readable; `BufferIsQueue`, step by step, from lemmas on what each function does
to the readable part.

`EventLoopThreadPoolProofs`, for any number of threads and calls: `TypeCorrect`,
`LoopsComplete`, `Fair` and `DestroyedAfter`. None of the last three is
inductive. `Inv` adds where `start()` and the destructor are (`Progress`), which
threads exist then (`Made`), whose `loop_` is set (`Published`) – which is what
makes the destructor join rather than detach – and, for fairness, that the loops
up to `next_` have been given once more than the last one (`Turn`).

`TcpConnectionProofs`, for any number of bytes, message length, send buffer and
high-water mark, with the other thread's `shutdown` and whatever `runInLoop`
does: `TypeCorrect`, `Interest`, `Told`, `NoDangling`, `BackPressure` and
`InOrder`. The invariant says of each phase of a connection (not yet up, up,
closing, gone from the server, destroyed) which functors may be in the queue,
which callback the user can be in, and what of the channel is registered; that
nothing bound to `this` is queued behind
`connectDestroyed` or the functor that leads to it (`Ordered`); and that the
wire, `outputBuffer_` and what `sendInLoop` has not yet put there are, together,
what `send()` took (`Line`). Where `runInLoop` queues, a part of that is in the
queue as well, and any byte of it may be garbage: `LineLater` gives every queued
functor the place in the stream where its data begins, from the last byte in hand
to the last one taken, as long as the connection can still write.

`StreamProofs`: `ConnectionIsStream`, that `TcpConnection` implements `Stream`
under the same conditions as `Promise` states. It takes one more invariant,
`Sound`: in the loop's thread alone no more is on the wire than `send()` took,
and the FIN is out only when the connection is no longer connected. Each step is
then a `Send`, a `Close`, a move of the phase, or invisible.

`TcpServerProofs`, for any number of threads, clients, descriptors and events
per poll, and whatever `isInLoopThread()` says in each thread: `TypeCorrect`,
`NoFreedChannelActive`, `FreedHasLeftPoller`, `EverythingInItsThread`, and
`NoContainerIsShared`: where `runInLoop` queues from other threads, no state is
`Undefined`, so that the guard of `Next` cuts nothing off. None of them is
inductive: whether a freed channel can be in an active list depends on calls
that are still in a queue of another thread. `Inv` therefore says

* what a thread can have in hand at each place of its loop (`Types`, `Where`),
  and of which connection it holds a reference meanwhile;
* in which thread, queue and active list what concerns a connection can be
  (`Placed`);
* how a connection lives (`Lives`): it is put into `connections_`, enabled and
  removed in this order, each once (`Fresh`, `Begun`, `Once`), `connectDestroyed`
  never overtakes `connectEstablished` in the queue of its loop, and as long as
  the poller has its channel somebody is left who will remove it (`Kept`): the
  map, a queued functor or a handler under way, each of which keeps it alive;
* the same of a channel in an active list, unless the destructor executes
  `connectDestroyed` on the spot (`Reached`), and that poller and kernel agree
  (`Agreed`).

`SessionsProofs`: `ServerIsService`, that `TcpServer` implements `Sessions`
unless `Elsewhere`. It takes one more invariant, `Served`: what the user was told
of a connection is what its state says, but for the callback in progress (`Heard`);
its channel has events exactly while it is up (`Watched`); one that was accepted
is on its way to `connectEstablished` (`Awaited`); and a loop that is about to
handle an event of a connection, or has begun, finds it up (`EventsFit`,
`TaskFits`), which is what keeps `handleClose` and `connectDestroyed` from both
reporting its end. A step then is a callback, an `accept`, an arrival, or it only
hands references on: `HandsOn` says that nobody gets hold of a connection that
was let go, so what is let go is a set of connections that are down.

The assumptions are the modules' named `ASSUME`s. Liveness (`QuitStops`, the
fairness part of `EventLoop`'s `Promise`, `StartReturns`, `DestroyEnds`,
`ShutdownEnds`, `PeerCloseEnds`, `PressureEnds`, `EveryoneAccepted`,
`ClosedAreReleased`) is model-checked only, as temporal reasoning with fairness
is out of the prover's reach. Every invariant and every refinement's safety part
that a passing run checks is proved.

## Not modelled

`send` in other threads (a data race on `outputBuffer_`; `run_in_caller` shows
its cause). User code that calls `send` or `shutdown` on one connection in a callback of
another. What a
base loop does after its server was destroyed in a handler, where its memory is
gone. `TcpConnection::connected()`, which lacks its `return` like
`isInLoopThread()` and is called nowhere. Names and addresses, socket options,
logging (the level that `setLogLevel` stores decides only a log line's wording),
`Timestamp`, `DefaultPoller`, `CurrentThread` but for what callers make of the id.

## Plan

1. `FunctorQueue`, `EventLoop`, `ByteQueue`, `Buffer`, `EventLoopThreadPool`,
   `Channel`, `TcpConnection` with their runs; proofs for the first four. Done.
2. `TcpServer` with `Acceptor`, several channels in a poller, several loops;
   `Sessions`. Done.
3. `Stream`, and back-pressure. Done.
4. Theorems about the pool and the connection. Done.
5. Theorems about the server; `TcpConnection` implements `Stream` and `TcpServer`
   implements `Sessions`, for all constants. Done.
6. Left: `send` in other threads, with `Buffer`'s operators cut at their
   assignments.
