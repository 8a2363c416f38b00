# myhttp: a TLA+ verification development

`myhttp` is a C++ HTTP framework built on a fiber scheduler: an N:M scheduler
runs fibers on worker threads, an epoll loop and a timer queue wake fibers up,
and hooks turn blocking system calls into event registrations. On top of that sit
sockets, streams, an HTTP server and client, configuration and logging.

The concurrency core (scheduler, event table, timer queue, hooked calls) is
where several threads meet under several locks, where a wrong order is silent,
and what everything else rests on. Above it, the byte-level parsers, the
connection pool, the server and three library parts (byte array, servlet
dispatch, logging configuration) are modelled too.

## Inventory

| Component | State | Operations | Interacts with | Hard behaviour | Correct when |
|---|---|---|---|---|---|
| Timer queue (`timer.*`) | `m_timers` (a set ordered by deadline), `m_tickled`, `m_previouseTime`; per timer callback, period, deadline | `addTimer`, `cancel`, `refresh`, `reset`, `getNextTimer`, `listExpiredCb` | called by hooks and users; polled by `IOManager::idle`; calls back `onTimerInsertedAtFront` | keys changed in place; read lock then write lock; suppressed notifications; out-of-order clock readings | the set matches the callbacks; once, not early, not after cancel; no wake-up missed |
| Fiber scheduler (`scheduler.*`) | queue `m_fibers`, two thread counts, two stop flags; `run()`'s locals | `schedule`, `start`, `stop`, `run` | switches fibers; idle fiber is `IOManager::idle` | counts read without the lock, fibers taken while they are still leaving a thread, stopping | a task runs on one thread at a time, none is lost, `stop` drains and returns |
| Fiber (`fiber.*`) | `m_state`, context | `swapIn`, `swapOut`, `YieldToReady`, `YieldToHold`, `reset` | scheduler, hooks | the state is set before the context is saved | one thread per fiber |
| Event table (`iomanager.*`) | `m_fdContexts`, `events` per descriptor, `m_pendingEventCount`, the kernel's epoll entries | `addEvent`, `delEvent`, `cancelEvent`, `cancelAll`, `idle` | kernel, scheduler, close hook | edge-triggered reports handled late, table growth, close and reuse of descriptors | table, count and kernel agree; every registration is triggered once; no edge lost |
| Hooks (`hook.*`) | `tinfo` per call | `do_io`, `connect_with_timeout`, `sleep`, `close`, `fcntl` | all of the above | timeout against late event, retries | a call with a timeout returns; a timeout is not reported early |
| Descriptor table (`fd_manager.*`) | `m_datas`, per descriptor flags and timeouts | `get`, `del` | hooks | reuse of numbers, fixed size | a hooked socket is non-blocking in the kernel |
| Scanners (`http11_parser.rl.cc`, `httpclient_parser.rl.cc`, `uri.rl.cc`) and callbacks (`http_parser.cpp`) | the scanner's state, offsets into the buffer, the message being built | `execute`, `Uri::Create`, the callbacks | session and client feed them buffers | a buffer may end anywhere; the state survives it, the offsets do not | callbacks in one order; elements whole |
| HTTP client (`http_connection.cpp`), streams | buffer, body being received | `recvResponse`, `readFixSize`, `writeFixSize` | scanners, sockets | chunks cut anywhere; failed reads in a `size_t` | the body is what was sent |
| HTTP connection pool (`http/http_connection.*`) | `m_conns`, `m_total`; per connection its use | `getConnection`, `ReleasePtr`, `doRequest` | sockets, timeouts | bare pointers shared by threads; reuse after a timeout; counts outside the lock | one owner; count exact; a response answers its request |
| TCP and HTTP server, session | `m_isStop`, `m_socks`; sockets and their descriptors | `bind`, `start`, `stop`, `startAccept`, `handleClient`, `recvRequest` | scheduler, sockets, descriptor table | stop against accept; numbers freed and reused | one socket per number; loops end after stop |
| Servlet dispatch | exact and pattern tables | `addServlet`, `addGlobServlet`, deletions, `getMatchedServlet` | HTTP server | order after replacements | the oldest live match wins |
| ByteArray | block list, position, size | write, read, `setPosition`, `clear`, buffers for sockets | streams | block boundaries, growth | equals a byte sequence |
| Config, log | variables and listeners; loggers | `setValue`; the listener `LogIniter` | listeners reconfigure loggers | overlapping changes | loggers follow the stored value |
| Daemon, application, environment, addresses, utilities | process and start-up state | | | restart loop | |

`PROJECT.json` lists every component with its status, and under `hazards` the
places where something hard to test can go wrong.

## Modules

| Module | Models | State and steps |
|---|---|---|
| `TimerManager` | `timer.cpp`, and the sleeping and listing half of `IOManager::idle` | A step is what runs under one acquisition of `m_mutex`, or unlocked between two. `NewTimer` is the unlocked constructor, `AddTimer` the locked insertion, `Notify` the callback after the unlock (with `tickle()`); `ResetTest` the unlocked test of `reset`, `Reset` its locked half; `GetNextTimer`, `Wake`, `CheckEmpty` (read lock), `ListExpiredCb` (write lock) and `Schedule` are one round of `idle`. `m_timers` holds pairs of the key at insertion and the timer, so a key that changes under the set is visible. The wall clock may be set back. |
| `TimerManagerProofs` | theorems about `TimerManager` | see below |
| `Scheduler` | `scheduler.cpp`, the switches of `fiber.cpp`, `stopping()` and the waking of `iomanager.cpp` | `pc[w]` is the place of worker `w` in `run()` or in the idle fiber. `Pick` is the scan under the lock, `SwapInFiber`, `SwapInCb` and `RunIdle` the three branches, `Decrement` and `Settle` what follows `swapIn`; `SwapOut` is separate from the assignment of the state before it. `IOManager::stopping()` is two steps, because its two halves are read at different moments. |
| `TaskPool` | what the scheduler promises | a task is new, ready, running or done; the pool closes only when nothing is left |
| `SchedulerProofs` | theorems about `Scheduler`; that it implements `TaskPool` | see below |
| `IOManager` | `FdContext`, `addEvent`, `delEvent`, `cancelEvent`, `cancelAll`, the event half of `idle`, and the `close` hook | `addEvent` is `Lookup` (read lock), `Resize` (write lock) and `AddEvent` (lock of the `FdContext`); `close` is `CloseCancels` and `CloseSystem`. epoll is the environment: `interest`, `owner`, and `armed` for the pending edge. A waiter is the user of one event of one descriptor. |
| `IOManagerProofs` | theorems about `IOManager` | see below |
| `HookIO` | `do_io`, `connect_with_timeout`, `sleep` and its relatives in `hook.cpp` | One fiber makes calls one after the other; `pc` is its place in the call. `TryIo` and `TryConnect` are the system call, `Arm` the timer, `AddEvent` or `AddEventFails` the registration, `Resume` and `Woken` what follows the yield, `CheckError` the question for `SO_ERROR`. The callback is `TimeoutCb` (it locks `tinfo` and sets `cancelled`) and then `CancelEvent`, so the call may return in between. Timers and events are used by what `TimerManager` and `IOManager` promise (`OneShotOnce`, `NotEarly`, `WaiterAccounted`). Time is relative, so the state space is finite without a bound on the number of calls. |
| `HookIOProofs` | theorems about `HookIO` | see below |
| `Scanner` | what the three Ragel scanners share | a scanner is the set of its edges, by state and class of bytes, each with the actions it runs; a missing edge is `goto st0` |
| `RequestScanner`, `ResponseScanner`, `UriScanner` | `http11_parser.rl.cc`, `httpclient_parser.rl.cc`, `uri.rl.cc` | one definition per piece of the grammar, with the state numbers of the generated `case` labels. Bytes that no state tells apart are one class. The copies of the authority that the generated code has for the socket form of a request and for a URI after a scheme are obtained by shifting states, as in the generated code. |
| `HttpExchange` | `Uri::Create`, `HttpSession::recvRequest`, `HttpConnection::recvResponse`, `Stream::readFixSize`, the parsers' callbacks | One exchange, byte by byte: `UriByte`, `UriEnd`; `Read`, `RequestByte`, `BufferEnd`; `ResponseByte`; the body by its length (`ReadFix`, `ReadFixEof`, `ReadFixError`) or by chunks (`ChunkRead`, `ChunkByte`, `HeaderCut`, `ChunkHeader`, `ChunkLeft`). What a callback is given is whole, or was cut by the reset of the offsets. The chunked body that the peer sends is a constant, `Stream`, with `Chunks` saying where its chunks are: size lines of any number of digits, with extensions. A byte carries what `strtol` makes of the digits from it on, and its number in the body. |
| `HttpExchangeProofs` | theorems about `HttpExchange` | see below |
| `HttpConnectionPool` | the pool and `doRequest` | one step per lock acquisition or access to shared state: `TakeFromPool`, `DeleteInvalid`, `CountInvalid`, `Connect`, `CountCreated`, `Send`, `SendWaits`, `SendSpins`, `ReceivePart`, `ReceiveHead`, `Receive`, `ReceiveFails`, `ReleaseDeletes`, `CountDeleted`, `ReleaseKeeps`, `PushBack`; a connection is a stream of requests asked and answers coming |
| `HttpConnectionPoolProofs` | theorems about `HttpConnectionPool` | see below |
| `HttpServer` | `TcpServer`, `HttpServer::handleClient`, ownership of sockets, `FdManager` | `Bind`, `Start`, `Stop`; the close task (`CloseBegins` .. `CloseEnds`); per accept loop `Test`, `Accepts`, `NoConnection`, `AddEvent`, `Ready`; per client `ClientBegins`, `RecvRequest`, `Handle`, `SendResponse` .. `SessionDestroyed`. The kernel gives out the lowest free number. Close task, loops and clients run on the `Threads` of one `IOManager`, which worker and accept worker are by default (`tcp_server.h:34-35`); a servlet and a system call that blocks keep their thread (`OnThread`, `FreeThread`). |
| `HttpServerProofs` | theorems about `HttpServer` | see below |
| `ByteArray` | `bytearray.cpp` and the `SocketStream` calls on it | the blocks as one memory, with the number of the current block (or none), against a flat buffer |
| `ServletDispatch` | `servlet.cpp` | both tables; `fnmatch` is a constant relation |
| `LogConfig` | `ConfigVar::setValue` and `LogIniter` | `SetValue` (read lock), the listener logger by logger, `Store` (write lock) |
| `LibraryProofs` | theorems about `ByteArray`, `ServletDispatch` and `LogConfig`, as `MCLibrary` instantiates them | see below |
| `MCTimer`, `MCScheduler`, `MCIOManager`, `MCHookIO`, `MCHttpExchange`, `MCHttpConnectionPool`, `MCHttpServer`, `MCLibrary` | the instances TLC checks | `MCLibrary` instantiates `ByteArray`, `ServletDispatch` and `LogConfig`, which share no state, and checks one at a time |

Abstractions. Timers, tasks and fibers are small sets; a timer's address is a
number because the set orders equal deadlines by address. What a task does
between two switches is reduced to what the scheduler sees: it schedules, yields,
waits or ends. Readiness of a socket is a set of events. Failed assertions and
undefined behaviour end a behaviour with `fault` set, because the program aborts
or may do anything afterwards; the properties about faults say when that happens.

Left out of the modelled files: `Scheduler::idle` of the base class (IOManager
overrides it), `use_caller`, which only lowers the number of threads, stacks and
`ucontext`, names, logging, `dump` functions; formatting and accessors of
messages; the static `DoRequest` and the wrappers of the pool, which build a
request and make the calls that are modelled; `getReadBuffers` with a position,
`writeToFile` and `readFromFile`; the typed codecs of `ByteArray`. `hasTimer` only reads. The exit of
a poller through `stopping()` is in `Scheduler`, not in `TimerManager`.

## Runs

All bounds are constants of the modules and are set in the `.cfg` files.

| Run | Instance | Checks |
|---|---|---|
| `timer_pollers` | 1 timer, 2 users, 2 pollers, periods 0 and 2, clock 1..2, set back once | `OneShotOnce`, `NoEraseEnd`, `NotEarly` |
| `timer_live` | 2 timers, 1 user, 1 poller, periods 0 and 2, fair | `TypeOK`, `QueueMatchesCallbacks`, `NoMissedWakeup`, `OverdueHandled` |
| `sched_pool` | 2 workers, 2 callbacks, 1 fiber, one yield each | `CountsExact`, `FiberOnOneThread`, `PoolSpec` (refinement of `TaskPool`) |
| `sched_live` | 1 worker, 2 callbacks, 1 fiber that may wait, pinned tasks, 2 starts, fair | `NoTaskLost`, `StopDrains`, `StopReturns`, `TaskEnds` |
| `sched_race` | 2 workers, a callback that waits | violates `FiberOnOneThread` |
| `io_events` | 1 descriptor beyond the table, both events, 2 pollers, 2 opens, fair | `PendingExact`, `KernelAgrees`, `WaiterAccounted`, `NoLostEdge`, `ClosedFdQuiet`, `ReadyWaiterResumes` |
| `hook_calls` | 2 timers, timeout 2, 2 cancellations from outside per call, all kinds of calls, any number of them, fair | `ScheduledOnce`, `NotBeforeTime`, `ConnectTruthful`, `CallReturns` |
| `http_exchange` | all bytes, bodies up to 2 bytes, one failed read; chunks of 16 and 2 bytes with the size lines `10;a=1` CR LF, `2` LF and `0` CR LF, in a buffer of 32 | `UriParts`, `CallbackOrder`, `HeadWhole`, `BodyExact`, `ChunkedBody` |
| `http_pool` | 2 users with 2 requests each, 2 connections that are reused once, fair | `OneOwner`, `TotalExact`, `AnswerIsMine`, `EveryRequestReturns` |
| `server` | 2 descriptor numbers, 2 listeners, 2 loops, 2 clients that are kept alive, 2 threads, 2 calls each of `bind`, `start` and `stop`, fair | `OneSocketPerFd`, `BlockingOnlyIfReused`, `LoopsOnlyOnOpen`, `StopEndsAccepting` |
| `library` | blocks of 2 bytes, 3 blocks, calls of up to 4 bytes; 2 paths, 2 patterns, 5 edits; 2 threads, 2 loggers, 3 settings | `BytesExact`, `Routes`, `LoggersFollow` |
| `byte_write` | as `library` | violates `WriteFits` |

Why the bounds are enough. The timer properties are about one timer and the threads that
race for it, or about two timers of which one comes first; the clock needs two values
for a reading to be stale, and the "hour" of `detectClockRollover` and the three seconds
of `idle` are scaled to 1 and 3. The theorems below remove the bounds of the timer,
scheduler, event table, hook, pool, server and library runs, for their safety
properties, and those of the bodies in `http_exchange`. A race of the scheduler needs
two workers and a task that yields once; stopping needs a task that is unfinished at
that moment. The event table needs one descriptor with both events, since events of
different descriptors share only the table's size, the count and the pollers. A hooked
call meets at most the late callback of one earlier call or attempt and its own timer,
hence two timers. The scanners have finitely many states and are explored completely,
for every sequence of bytes and every place where a buffer may end; only the bodies
behind the heads are bounded, and there a body of two bytes already has a beginning, an
end and a byte in between two reads. Two chunks are needed for what one leaves behind to
meet the next, and a size of two digits for a read to end between them. A connection
changes hands between two users and is reused once before it is spent. A server needs
two numbers and two rounds of `bind`, `start` and `stop` for a number to come back with
somebody else's state, and two threads for one of them to be held while the other goes
on. A client that is not kept alive does nothing that one that is kept alive does not do
when its next receive fails. Three blocks of two bytes have a first, a middle and a last
border, and four bytes can start and end inside blocks with one in between. A pattern
needs one rival to be overtaken by, a logger one neighbour.

Deadlock is not checked: users need not act, tasks are finite, and a stopped
scheduler or a process that has aborted takes no step.

Fairness. Timers: a poller's wait ends when its timeout has passed or the pipe
is readable (not merely because a notification was requested), threads finish
what they began, time passes. Scheduler: threads run, tasks end, an awaited event occurs
and is reported by some worker that keeps polling (strong fairness, as other
events may be served first), `stop` keeps polling. Event table: reports are
handled, and the kernel's ready list serves every descriptor. Hooks: the fiber
runs when it can, workers run the callbacks of expired timers, reports are
handled and time passes; a peer need not answer. Pool: every user takes its
own steps, and the wait of one read for the head of a response is ended by the receive
timeout that `doRequest` sets; as that timeout holds for each read, a user that goes
from one read to the next for ever need not leave the loop (`recv` and `more` are one
place in the code, and each has its own fairness condition). Nothing is assumed of the
peer, neither that it reads nor that it answers. Server: the close task and an accept
loop run when a thread is free for them again and again (strong fairness: `run()` takes
from the front of `m_fibers`, and everybody appends to its end); nothing is assumed while
all threads are held, nor of clients, servlets, new connections or the threads that call
`bind`, `start` and `stop`.

Every property of a passing run has a mutant of the model in `PROJECT.json`: a
plausible mistake in the code (an event left registered, a count not
decremented, a key changed before the lookup) that the run rejects.

## Where the code and its documents disagree

* `sched_race`: a fiber that waits can be swapped in by a second worker before
  the first has saved its context.
* `byte_write`: `addCapacity` compares the remainder of its division with the
  capacity that was left instead of zero, adds a block too few, and `write` and
  `getWriteBuffers` follow a null pointer.

The passing runs are set up outside these cases, and within that set-up no other
violation of their properties was found: `sched_pool` has no waiting tasks and no
pinned ones (a task that yields across `stop` may schedule for a thread that has
left), `sched_live` has one worker, `io_events` no retry during `close`
(`RetryOnClosing`); `LoggersFollow` excepts overlapping calls of `setValue`.

Further divergences are seen in the models but have no run of their own. In the
concurrency core:

* between the read lock and the write lock of `listExpiredCb` another thread can
  empty the set, and `*m_timers.begin()` is then read (fault `deref_empty`);
* `tickle()` does nothing when there are idle threads, which are the only ones it
  could wake; a new first timer waits up to three seconds. `NoMissedWakeup` shows
  that the timer queue does ask for the wake-up;
* with two workers and a task that waits, or that is pinned to a thread, `stop` can
  return while a task is unfinished: `stopping()` is not one atomic test, the active
  count is decremented before the task is rescheduled, and a worker whose idle
  fiber has ended may still take a task. `DrainCorrect` shows that
  without waiting and pinned tasks it cannot happen;
* a hang-up triggers an unregistered event and fails the assertion of
  `triggerEvent` (action `HandleEvent`);
* an event registered between the `cancelAll` of `close` and the system call is
  never triggered (`IOManager` with `RetryOnClosing`; exception `late` of
  `StopEndsAccepting`);

* a period whose low 32 bits are negative as an `int` escapes the bound of `idle`
  (operator `ToInt`; the theorem `WakeupCorrect` assumes `ShortDurations`);
* a fiber that yields READY loses its thread (action `Settle`);
* a fiber scheduled twice that ends in its first turn leaves
  `m_activeThreadCount` too high, and `stop` never returns (`Scheduler` with
  `MaxSchedule = 2` violates `StopReturns`);
* two descriptors that are both beyond the table may resize it to the smaller
  size last (action `Resize`);
* a timeout callback that runs before `addEvent` finds nothing to cancel, and the
  call then waits without a timeout, because later timers of the call see
  `cancelled` set; the second disjunct of `CallReturns` is this case;
* after a failed `addEvent`, or when its event is cancelled by another thread or
  by the late callback of an earlier call, `connect_with_timeout` returns 0 while
  the connection is still in progress; `ConnectTruthful` excepts these cases.

In the parsers and streams:

* a head that comes in several buffers may lose the beginning of its path, query,
  version, reason or of a header's name, because `http_parser_execute` sets the
  offsets to 0 and keeps the state; what it never loses is the beginning of a
  header's value, which becomes error 1002 (`HeadWhole`). `query_start` is not
  reset and may make `std::string` throw;
* `6( h16 ":" )` in `http11_parser.rl` is the byte 6 followed by one group, so the
  IPv6 literals of RFC 3986 are rejected, and `(0 - 31)` is the set difference, so
  `HTTP_CTL` is only 0 and 127 (`RequestScanner`);
* `Uri::Create` throws on a colon without a port before the path (`UriParts`);
* after the last header of a response the scanner may stop in states 121 to 123,
  which `httpclient_parser_is_finished` does not accept, so that `recvResponse`
  goes on reading; and a chunk header is accepted as the head of a response;
* the chunk loop is exact only when every chunk is in the buffer with its CR LF, and
  nothing else, when its size line has been scanned (`ChunkedBody`). A size line that a
  read cuts is dropped up to there (`http_connection.cpp:93-97`) and its rest is scanned
  as a new one: `1` and `0` CR LF in two reads are the size 0 and not 16, and the body
  up to there is returned as if it were complete. A cut before a byte with which no size
  line begins makes the scanner fail; any other one is the exception `cut` of
  `ChunkedBody`;
* a failed read inside `readFixSize` is taken for a length of 2^64 - 1: the rest
  of the body is moved by a byte (`BodyExact`), no timeout ends the loop, and a
  failed write makes `writeFixSize` loop for ever (`SendSpins`);
* `doRequest` sets a timeout for reads and none for writes, and the one for reads begins
  again with each read: a peer that does not read, or one that sends its head byte by
  byte without end, keeps the caller (`SendWaits`, `ReceivePart`). These, `SendSpins` and
  the body that never ends are the exceptions of `EveryRequestReturns`.

In the client and the server:

* a connection whose response timed out goes back to the pool, and the late
  response answers the next request on it (`AnswerIsMine`); `m_maxSize` is never
  compared with anything; `m_createTime` is never set, so no connection is ever
  too old;
* `FdManager::del` forgets nothing: a reused number keeps its `FdCtx`, the new
  socket is not made non-blocking, and `accept` or `recv` on it blocks the thread
  (`BlockingOnlyIfReused`, exception `blocked` of `StopEndsAccepting`). When as many
  sockets block as the `IOManager` has threads, the close task of `stop` does not run
  and the loops that do not block do not end either (last disjunct of
  `StopEndsAccepting`; TLC finds the behaviour when it is left out);
* `bind` or `start` that overtakes the close task of `stop` leaves an accept loop
  on a closed listener or two loops on one; a failed `bind` on a running server drops
  every listener bound before, so that `stop` finds none to close and the loops wait on
  (`hasty` in `LoopsOnlyOnOpen` and `StopEndsAccepting`). `bind` while the close task
  goes through `m_socks` is a data race on the vector and the only call excluded
  (`MayBind`);
* `handleClient` goes on after a request that asked to close, when the server keeps
  connections alive.

In the library:

* a definition that a new configuration leaves as it was makes `LogIniter` use a
  null logger (`crashed` in `LogConfig`; the comment at `log.cpp:805` asks for a
  `continue`); a formatter that a definition no longer names stays; overlapping
  `setValue` calls can leave the loggers different from the stored value;
* `ByteArray::read` of nothing at the end of the last block uses a null `m_cur`
  (fault `read`).

## Proofs

### Timer queue

`TimerManagerProofs` proves, for any finite or infinite set of timers, users and
pollers, all periods and any bounds that satisfy `TimerConstants`:

| Theorem | States |
|---|---|
| `TypeCorrect` | `Spec => []TypeOK` |
| `QueueCorrect` | `Spec => []QueueMatchesCallbacks` |
| `CancelFindsNode` | `Spec => []NoEraseEnd` |
| `OneShotCorrect` | `Spec => []OneShotOnce` |
| `NeverEarly` | `Spec => NotEarly` |
| `WakeupCorrect` | `Spec => []NoMissedWakeup`, if periods fit an `int` |

None of the invariants is inductive alone. The inductive invariant has layers:

1. `TypeInv`: types, and every period is at most its deadline, without which
   `m_next - m_ms` of `reset` would wrap.
2. `QueueInv`: each node carries the current deadline of its timer; a timer with
   a callback is in the set or is being inserted by exactly one thread; threads
   in the middle of `reset` hold a handle. `QueueMatchesCallbacks` and
   `NoEraseEnd` follow.
3. `ShotInv`: the callback of a one-shot timer is in exactly one place: with the
   timer, in the list of one poller, scheduled, or cancelled.
4. `TimeInv`: readings are not from the future and not older than `MaxLag`,
   which must not exceed the hour of `detectClockRollover`: that is the
   assumption under which out-of-order readings do not look like a rollover.
5. `PeriodInv`: no timer is further away than its period.
6. `WakeInv`: when `m_tickled` is set, somebody is about to compute a new
   timeout; otherwise every timer is covered by a wait that ends in time. The
   existence of a first node (`FrontExists`) rests on the well-foundedness of the
   natural numbers.

Assumptions (`TimerConstants`): addresses and times are natural numbers,
`Hour <= StartClock` (the subtraction in `detectClockRollover` does not wrap),
`MaxLag <= Hour`, and `MAX_TIMEOUT` fits an `int`. TLC evaluates them in every
timer run.

### Hooked calls

`HookIOProofs` proves, for any set of timers, any timeout and any number of
cancellations (`HookIOConstants`):

| Theorem | States |
|---|---|
| `TypeCorrect` | `Spec => []TypeOK` |
| `WokenOnce` | `Spec => []ScheduledOnce` |
| `TimeoutNotEarly` | `Spec => NotBeforeTime` |
| `ConnectCorrect` | `Spec => ConnectTruthful` |

Its inductive invariant adds to the types: `WaitInv` (registered or scheduled only
while waiting, never both), `SleepInv` (no timer refers to a call that has
returned, and a sleep has one timer), `AgeInv` (a timer's remaining time and the
age of its call add up to the timeout, so a set `cancelled` means that the time
has passed) and `ConnectInv` (what woke a connecting fiber, up to the question for
`SO_ERROR`). That timers are not early and fire once, and that a registration is
triggered once, is built into `HookIO`: it is what the other modules show.

### Scheduler

`SchedulerProofs` proves, for any sets of workers, callbacks and fibers (`SchedulerConstants`):

| Theorem | States | If |
|---|---|---|
| `CountsCorrect` | `Spec => []CountsExact` | `MaxSchedule <= 1` |
| `TasksCorrect` | `Spec => []NoTaskLost` | `MaxSchedule <= 1` |
| `OneThreadCorrect` | `Spec => []FiberOnOneThread` | and `MayHold = FALSE` |
| `DrainCorrect` | `Spec => []StopDrains` | and `Pins = {}` |
| `PoolCorrect` | `Spec => PoolSpec` | and `Pins = {}` |

The conditions are not chosen for the proof: without each of them TLC finds
`CountsExact`, `FiberOnOneThread` or `StopDrains` violated. (`NoTaskLost` is the
exception: TLC finds no violation with `MaxSchedule = 2` either, and the proof uses
the condition because it rests on the same invariant.) `MaxSchedule <= 1`: nobody hands
the same `Fiber` object to `schedule()` twice (the scheduler itself requeues it after
each `YieldToReady`); a fiber that is in the queue twice and ends in its first turn
is counted and never uncounted. `MayHold = FALSE`: no task waits for an event; run
`sched_race` shows what a waiting task does with two workers. `Pins = {}`: no task is
bound to a thread; with two workers a pinned task may be left behind by `stop`.

The inductive invariant:

1. `TypeInv`, `ControlInv` (no worker is in `run()` before `start` and after `stop`)
   and `LocalInv` (what the place in `run()` says of `ft` and `cb_fiber`).
2. `OneRef`: a fiber is in the queue once, in the hands of one worker that is going
   to run it or runs it, or waiting, and in one of these at most. A worker that is leaving a fiber
   (`Leaving`) is not counted: in that window another worker may hold it.
3. `StateInv`: what `m_state` is in each of these places, so that the assertions of
   `swapIn` and `reset` can be discharged.
4. `PlaceInv`: the entry, the fiber and the worker agree on the task. With `OneRef`
   it gives `NoTaskLost`.
5. `CountInv`: the two counts as cardinalities of sets of workers; each step moves at
   most one worker in or out.
6. `TurnInv`, without waiting tasks: the worker that is leaving a fiber is the only
   one that refers to it. This is what `sched_race` breaks.
7. `DrainInv`, without pinned tasks: no idle fiber ends before `stop`, every entry
   may be taken by every worker, and when all workers are past their last look at the
   queue it is empty.

`PoolCorrect` is the refinement of `TaskPool`. A task is ready while its entry is in
the queue, in the hands of a worker or settling, running from `swapIn` to the next
assignment of `m_state`, and done at the end of `MainFunc`. `schedule` maps to
`Submit`, the two branches that call `swapIn` to `Dispatch`, `YieldToReady` to
`Suspend`, the end of `MainFunc` to `Complete`, `start` to `Open`, the return of
`stop` to `Close`, and every other step to a stutter. Beyond the invariants above it
needs `JobInv`: no two fibers have the same task, a callback that has not begun is in
one place, and the fiber of a task that is done has ended. `DrainCorrect` is what
allows the step that maps to `Close`.

### Event table

`IOManagerProofs` proves, for any finite set of descriptors and any number of pollers
and openings (`IOManagerConstants`):

| Theorem | States | If |
|---|---|---|
| `PendingCorrect` | `Spec => []PendingExact` | |
| `KernelCorrect` | `Spec => []KernelAgrees` | `TableFits`, `NoRetry` |
| `WaitersCorrect` | `Spec => []WaiterAccounted` | `TableFits`, `NoRetry` |
| `ClosedCorrect` | `Spec => []ClosedFdQuiet` | `TableFits`, `NoRetry` |
| `EdgesCorrect` | `Spec => []NoLostEdge` | `TableFits`, `NoRetry` |

`TableFits` says that a descriptor is below one and a half times any other that is
beyond the initial table; with the 32 entries of the constructor it holds for
descriptors below 48. Without it the second of two threads that resize at once may
shrink the table and lose an `FdContext`. `NoRetry` says that nobody registers an
event between the `cancelAll` of `close` and the system call; such a registration is
never triggered. The invariant: `TableInv` (the table has its first size or
holds every descriptor), `NewestInv` (waiters, the kernel and pollers that refer to an
`FdContext` refer to the newest one, and the table holds it), `RegisteredInv` (events
are registered in the newest `FdContext` only, by waiters that wait), `ClosedInv` (a
closed or closing descriptor has nothing registered and nobody is registering), and
`KernelAgrees` and `WaiterAccounted` themselves.
`NoLostEdge` adds `EdgeInv`: an event that is registered and ready is armed in the
kernel or in a report that some poller holds and has not handled. The count is proved from the
types alone, since every path changes `events` and the count together.

### Connection pool

`HttpConnectionPoolProofs` proves, for any sets of users and connections and any
`m_maxRequest`, without conditions:

| Theorem | States |
|---|---|
| `OwnerCorrect` | `Spec => []OneOwner` |
| `TotalCorrect` | `Spec => []TotalExact` |
| `AnswerCorrect` | `Spec => []AnswerIsMine` |

`OwnerInv` puts every live connection into one of three places: the list (once), one
user's hands, or the invalid connections that one user is deleting. `TotalInv` writes
`m_total` as the live connections corrected by what each user still owes between its
locked step and its unlocked count. `EchoInv` says that the requests asked and the
answers coming on a connection are those of its owner's present request, unless a
response was given up on it; `AnswerIsMine` needs it because a connection carries
its history from one user to the next.

### Bodies of an exchange

`HttpExchangeProofs` proves, for any `MaxBody`, `MaxFail` and `BuffSize`
(`ExchangeAssumption`) and any stream of chunks as a peer may send it
(`StreamAssumption`: size lines of any number of digits that fit an `int`, with any
extensions and one LF, which ends them; data with any bytes; CR LF; a last chunk of size 0,
perhaps with trailers):

| Theorem | States |
|---|---|
| `BodyCorrect` | `Spec => []BodyExact` |
| `ChunkedCorrect` | `Spec => []ChunkedBody` |

The inductive invariant is `IInv`. `FixInv` is about `readFixSize`: what is filled and
what is missing make up the length, and every failed read has cost a byte of the stream
(`taken = filled + fails`), because its -1 is added to the offset and subtracted from
the rest. When nothing is missing, the length is right and the bytes are, exactly if no
read failed.

`ChunkInv` is about the loop of `recvResponse`, as long as no size line was cut before a
byte with which one could begin (`cut`). Between two chunks there are two cases.
Either the buffer is a piece of the stream that begins where chunk `i` begins and the
bytes collected are as many as the chunks before it have (`Pending`, `Collected`), or
the next byte that will be scanned begins no size line (`Lost`): a read that brought more
than one chunk leaves the CR LF, or the start of it, in the buffer, since the two bytes
taken off at the end are the wrong ones; and a read that ended inside a size line leaves
its rest. The scanner refuses such a byte, so `Lost` never leads to a response. While a
size line is scanned (`Scanning`), the scanner is in one of its first seven states: in
state 2 the first digit is marked, and in the later ones, which scan extensions and the
line's end, the size has been taken from it. The rest of a chunk that came in two reads
is read by itself, and what is read includes the CR LF: the number of bytes comes out
right and one of them is a LF that the peer never sent as data, which `Collected` keeps
as a byte with `id` 0. So at the end the bytes are exactly those of the peer unless a
chunk was split, and as many as those of the peer in any case; `cut` is the only way to
a body that is too short or too long.

The scanner enters by one lemma, `LineScan`: what it does in the states 1 to 7 with any
byte. `BeyondRest` and `LineEdges` sort the edges of `ResponseScanner` by the states they
leave, so that the other elements of the grammar play no part. The stream enters by
`ChunkFacts` and `ChunkBytes`.

### Server

`HttpServerProofs` proves, for any sets of descriptors, listeners, loops and clients
and any number of threads and of calls of `bind`, `start` and `stop`, without conditions:

| Theorem | States |
|---|---|
| `SocketsCorrect` | `Spec => []OneSocketPerFd` |
| `BlockingCorrect` | `Spec => []BlockingOnlyIfReused` |
| `LoopsCorrect` | `Spec => []LoopsOnlyOnOpen` |

`SocketInv` says which socket has each open descriptor (one listener, or one client
in `handleClient`); `HeldInv` that a listener with a descriptor is bound or kept by a
loop; `BoundInv` that outside the close task every bound listener has a descriptor;
`LoopInv`, as long as nobody was hasty, that no two loops share a listener or a
descriptor and that while the server runs the number a loop has cached is still its
listener's. The close task is the hard part: while it runs, `m_socks` contains
listeners that are closed already, so `LoopInv` ties a running server to a close task
that is neither running nor queued.

### Library

`LibraryProofs` proves, for the specification of `MCLibrary`, any block size and number
of blocks, any bytes and lengths, any paths, patterns and relation `fnmatch`, and any
threads, loggers and definitions (`LibraryConstants`):

| Theorem | States |
|---|---|
| `BytesCorrect` | `Spec => []BytesExact` |
| `RoutesCorrect` | `Spec => []Routes` |
| `LoggersCorrect` | `Spec => []LoggersFollow` |

`ArrayInv`: `m_cur` is the block of the position (NULL only behind the last block), so
that every loop over the blocks begins at the position, also after `addCapacity`; the
blocks hold what the flat buffer holds. A call that follows a null `m_cur` ends the
behaviour, as in the code (`byte_write` is about that); up to there every read is exact.
`GlobInv`: the list of patterns is in the order of the calls of `addGlobServlet` that
are not undone, with the servlet of the last call for each pattern, so the first entry
that matches is the oldest. `LogInv`: while calls of `setValue` do not overlap there is
at most one inside, and its place in the listener says which loggers follow the new
value, which one is in between and which still follow the old value.

### Only model-checked

* Liveness (`OverdueHandled`, `StopReturns`, `TaskEnds`, `ReadyWaiterResumes`,
  `CallReturns`, `EveryRequestReturns`, `StopEndsAccepting`): the proof system does
  not support reasoning from fairness.
* What the scanners and their callbacks make of a head (`UriParts`, `CallbackOrder`,
  `HeadWhole`): these depend on the tables of the three scanners and on no constant, so
  the run `http_exchange` is complete for them, for heads of any length. A proof would
  be the same enumeration; and the actions of an edge are a fold over a sequence, whose
  value the proof system obtains only by induction over data.

## Not modelled

* The codecs of `ByteArray` (zigzag, varint, byte order) and of the addresses:
  TLC's integers have 32 bits, and the functions keep no state.
* Formatting: log events and formatters, `toString` and `dump`, YAML conversion.
* Threads and locks are wrappers of pthread and appear as the atomic steps of the
  other modules.
* Start-up code: `daemon`, `application`, `env`; the reload of configuration files.
* `fcntl`, `ioctl`, `getsockopt` and `setsockopt` as hooked only copy flags between
  an `FdCtx` and the kernel.

## Plan

Every safety property that depends on a bound has a theorem without it. What could be
added: separate `IOManager`s for accepting and for clients, which make fewer threads
compete than the one that is modelled; the reload of configuration files while a listener
of a setting is running. Of the three hazards that `PROJECT.json` lists without a property,
two end a behaviour of the model with a fault, as they end the program, and the third is
undefined behaviour (a write beyond the descriptor table), behind which no later state
means anything.
