# mymuduo: a verification project

mymuduo is a C++ network library in the style of muduo: one event loop per
thread, TCP servers and clients whose connections each belong to one loop, an
asynchronous logging back end, a thread pool, and an HTTP and a file server on
top. This directory holds TLA+ models of its parts, the TLC configurations that
check them, and theorems about them that TLAPS proves.

- Part 1: the system, what each part keeps, and what makes it correct
- Part 2: the modules and how they correspond to the code
- Part 3: the runs, their bounds and the fairness they assume
- Part 4: what is proved, and how
- Part 5: where the code and what it says of itself differ
- Part 6: what is not modelled, and the plan

How to run: `tlc -workers 2 -config EventLoop.cfg MCEventLoop` (every .cfg has
an MC module of the same name), `tlapm EventLoopProofs.tla`.

A note on the build: the default build is Release with `-DNDEBUG`, so the
assertions of the code are compiled out. The models do not use them as guards
of what the library does; they are properties. They are used as preconditions only
where they state what a caller must keep to (`Buffer`).

## 1. The system

### Components

| Component | State | Operations | Talks to |
|---|---|---|---|
| `EventLoop` | `quit_`, `callingPendingFunctors_`, `pendingFunctors_`, `activeChannels_`, the eventfd | `loop`, `quit`, `runInLoop`, `queueInLoop`, `wakeup`, `doPendingFunctors` | called from any thread; owns a poller, a `TimerQueue` and `Channel`s |
| `EPollPoller`, `PollPoller`, `Channel` | `channels_`, `events_`, `index_`, the kernel's epoll set or `pollfds_`, the room for what is ready | `updateChannel`, `removeChannel`, `poll`, `handleEvent` | the loop, which goes through `activeChannels_`, and the kernel |
| `TimerQueue` | `timers_`, `activeTimers_`, `cancelingTimers_`, the timerfd, the heap's `Timer`s | `addTimer`, `cancel`, `handleRead`, `reset` | the loop; user callbacks |
| `TcpServer` | `connections_` | `newConnection`, `removeConnection`, destruction | the server's loop and one loop per connection, through queued functors |
| `TcpConnection`, its life | `state_`, the channel, who holds a `TcpConnectionPtr` | `connectEstablished`, `handleRead`, `handleClose`, `shutdown`, `forceClose`, `connectDestroyed` | `TcpServer` or `TcpClient`, user threads |
| `TcpConnection`, its output | `outputBuffer_`, `sendFd_`, `sendLen_`, the socket | `send`, `sendFile`, `handleWrite`, `shutdown` | the socket; write-complete and high-water callbacks |
| `TcpClient`, `Connector` | both `connect_` flags, `state_`, `channel_`, `timerId_`, `connection_` | `connect`, `disconnect`, `stop`, attempts, retries, reconnection | the loop, its timers |
| `Buffer` | a vector and two indices | `append`, `retrieve`, `prepend`, `unwrite`, `shrink`, `readFd` | a connection and its user |
| `AsyncLogging` | four buffers and a list, `running_` | `append`, `start`, `stop`, the logging thread | every thread that logs; `LogFile` |
| `LogFile`, `AppendFile` | the file in use and what was written to it, `count_`, the times of the last roll and flush | `append`, `flush`, `rollFile` | `AsyncLogging`, the disk |
| `Logger`, `LogStream` | the buffer of a line; per thread its id and the text of the second it last logged in; the zone and the level | the macros, `operator<<`, `~Logger`, `setTimeZone`, `setLogLevel` | every thread; `TimeZone`; what is set as output, usually `AsyncLogging` |
| `ThreadPool` | `queue_`, `running_`, two conditions | `start`, `stop`, `run`, the threads | any thread |
| `EventLoopThread(Pool)`, `Thread`, `CountDownLatch` | the loop handed over by a thread, which loop is next | `startLoop`, `getNextLoop`, `start`, `join` | `TcpServer` |
| `Acceptor` | the listening socket and a spare fd for EMFILE | `listen`, `handleRead` | `TcpServer` |
| HTTP, `FileServer` | the parser's state, the request, the file being served | `parseRequest`, `onMessage`, `onRequest`, `setResponseBody` | `TcpConnection`, `Buffer` |
| `MutexLock`, `Condition` | `holder_` and what pthread keeps | `lock`, `unlock`, `wait`, `notify` | all that is shared by threads |
| `BlockingQueue`, `BoundedBlockingQueue` | a queue, one or two conditions | `put`, `take`, `drain` | nothing in the library |
| `Date`, `TimeZone` | the transitions of a zone, once read | `toUtcTime`, `fromUtcTime`, `toLocalTime`, `fromLocalTime` | the logging front end |
| Sockets, addresses, process information | none, or none that outlives a call | conversions and system calls | everything |

### What is hard in it, and what makes it correct

**The loop sleeps.** Any thread may queue a functor while the loop thread is
anywhere between the test of `quit_` and the next `poll()`. The functor is queued
under a mutex, and the eventfd is written afterwards and only when the caller
thinks it must be. Correct means: nothing that was queued is slept on, functors
run once each in the order in which they were queued, a functor that queues
another does not keep the loop from its events, and a `quit()` ends the loop.

**A connection dies in several places.** The peer closes it, a user on any thread
calls `shutdown` or `forceClose`, an event of the same round of `poll()` reports an
error, the server is destroyed. It travels from its loop to the server's and back
as a functor. Correct means: it is erased from the map once, destroyed once and on
its own loop with its channel idle, no raw `this` in a queue outlives it, and
a connection that is closed does get destroyed.

**Its output has three sources**: what is written directly, what is buffered and
a file. Correct means: the socket takes what callers gave, in that order and once;
the channel watches for writability exactly while there is something to write; the
write side is shut down after all of it and not never; files are closed.

**Timers are named by address**, which the allocator reuses, and are cancelled
from callbacks of the batch they are part of, while the clock may be set back.
Correct means: the two sets agree, the timerfd is armed for the earliest one, a
cancelled timer does not run, another one does.

**Pollers keep a second copy of the channels**: the kernel's set, or an array with
swapped places and hidden fds. The loop goes through the channels that are active by
pointer, while their callbacks register, change and remove channels. Correct means: what
the kernel is asked is what the channels want, at each moment; no channel is
called that is gone; and none that is ready is passed over for ever.

**The client tries again and again**, with a timer that races with `stop()`, its own
success and destruction, and a channel that is destroyed by a functor. Correct
means: one attempt at a time, another one as long as one is wanted, each socket
closed once and none lost.

**Buffers go round between threads** in `AsyncLogging`, and tasks go through a bounded
queue in `ThreadPool` with notifications that one thread gets. Correct means: what
was taken is written or run once and in order, and nobody sleeps for ever.

**A loop is handed over from another thread's stack**, after a latch and a
condition, and is gone when that thread leaves `loop()`. Correct means: no notification
is missed, no loop is used before it is there or after it is gone, and start and end
return. The `Acceptor` needs a descriptor to get rid of a peer it has none for.

**Requests come in pieces.** A read ends anywhere in a request or behind several, and one
parser is used for all of a connection. Correct means: each request is answered once,
in order and as it was sent, and the peer can tell where the answer ends.

**Time has edges**: seconds before the epoch, century years, the hour that comes twice.
Correct means: a time that is broken down is put together to the same second.

**A line of the log rests on what a thread remembers**: the second it last logged in, as a
text, and its own number, also after a `fork`. Its buffer drops what does not fit. Correct means: the
line says when it was begun and by whom, nothing is written behind the buffer, and
numbers are whole and right.

**A mutex knows its holder**, for assertions, and must forget it around each wait. Correct
means: the holder is the one that has it; a notification reaches a thread that can use it; and a
latch is left by all before it is destroyed.

`PROJECT.json` lists the single hazards, each at its line, with the properties
that would catch it.

## 2. The modules

A step of a model is what a thread does between two points where another thread,
the kernel or a user's callback may come in. What is done under a mutex is one
step; a wait on a condition is the end of one step and its return another.
Operators and actions carry the names of the functions they model.
Operators named `..._Mutant` or with a suffix that names a bug (`_Dropped`, `_Kept`,
...) are not part of the models: each is a way in which the definition after it
could be wrong, there to show that a property notices.

| Module | Models | Composed with |
|---|---|---|
| `TaskExecutor` | the promise of a loop's queue: functors run once, in order | |
| `EventLoop` | `loop`, `doPendingFunctors`, `queueInLoop`, `quit`, `wakeup` and other threads between any two lines | implements `TaskExecutor` |
| `TcpServer` | one connection's life on two loops or one, with users on other threads | rests on `TaskExecutor`: its queues are FIFO |
| `ConnectionOutput` | the output of one connection | rests on `TaskExecutor` |
| `TimerQueue` | the timers of a loop | rests on `TaskExecutor` |
| `Poller` | the registration of channels under either poller, and the rounds of the loop that calls them | |
| `TcpClient` | `TcpClient` and `Connector` together | rests on `TaskExecutor`; the loop's round (handlers, then a batch of functors) is explicit |
| `LogFile` | the rolling file, with a write that fails | |
| `AsyncLogging` | front, logging thread, `stop` | `LogFile`, by INSTANCE: the logging thread's writes are its actions |
| `ThreadPool` | the pool | |
| `AtomicCalls` | the promise of a blocking queue and of a latch: a call takes effect at once | |
| `Monitor` | `MutexLock`, `MutexLockGuard`, `UnassignGuard`, `Condition`; `BlockingQueue`, `BoundedBlockingQueue` and `CountDownLatch` made of them, one pthread call a step | implements `AtomicCalls`; the other modules rest on it where they take a critical section as one step |
| `ByteQueue` | the promise of a `Buffer` | |
| `Buffer` | the vector and its indices | implements `ByteQueue` |
| `Http` | one connection of an `HttpServer` or a `FileServer`: parser, handlers, answer, and the file as it goes out | rests on `ByteQueue`; of the connection it has what `ConnectionOutput` leaves: messages in order, a file wherever the socket takes it |
| `EventLoopThreadPool` | the pool, its threads, the latch and the handover of loops | |
| `ServerStart` | a `TcpServer` from `start()` to its end: `Acceptor`, choice of a loop, threads ended | extends `EventLoopThreadPool`; what becomes of one connection is in `TcpServer` |
| `CDivision` | `/` and `%` of C, which round towards zero | |
| `Date` | the numbering of days, and the calendar it is held against | `CDivision` |
| `TimeZone` | UTC and local time | extends `Date` |
| `LogStream` | the buffer of a line, and numbers into text | `CDivision` |
| `Logging` | a line from the macro to the output, by several threads | extends `TimeZone` and `LogStream` |
| `EventLoopProofs`, `TcpServerProofs`, `ConnectionOutputProofs`, `TimerQueueProofs`, `TcpClientProofs`, `BufferProofs` | | the theorems about the module each is named for; `EventLoopProofs` has those about `Poller` too, `TcpServerProofs` those about `ServerStart`, `BufferProofs` those about `Http` |
| `LoggingProofs` | | the theorems about `AsyncLogging` with its `LogFile`, and about `Date`, `TimeZone`, `LogStream` and `Logging` |
| `ThreadPoolProofs` | | the theorems about `ThreadPool` and `Monitor`, which are extended together here and in `MCThreadPool` |

What each leaves out or simplifies:

- `EventLoop`. Which functor is which matters only by caller and number. `poll()`
  finds the eventfd or one other channel, or times out. The functors a callback
  queues are counted as the loop thread's.
- `TcpServer`. A HUP on a channel without interest, and the callback of a server
  that is gone, are not modelled. Where the code would go on with a dead object
  the model stops, and `NoDanglingThis` says when it may get there. A call on
  another thread takes no lock: its test of `state_` (`Test`), the assignment (`SetDisconnecting`) and the functor
  (`QueueFunctor`) are three steps, and everything may come between them. `Uses`
  says what a program does: which calls its threads and callbacks make, and
  whether the server is destroyed before its loops (`destroys`). Two histories note what goes wrong: `reopened`,
  that a call has set `kDisconnecting` over `kDisconnected`, and `overtaken`, which kinds of functors have been queued when the
  map had let the connection go.
- `ConnectionOutput`. Messages and files are `Size` units long and the socket takes
  any number of those offered. `sendFile` from another thread
  sets `sendFd_` and `sendLen_` in two steps, seen by the loop in their order, as x86 and a compiler that leaves
  them alone have it. Nobody is told when a file has been sent, so messages, files and `shutdown()` may come while
  one goes out, and the history `overlaps` notes which have. Of a race for the two fields
  (`Racing`) the model has either file and any length as the outcome, but not a length below zero, which files of different
  lengths could leave. `shutdown()` on another thread tests and sets in one step here (`TcpServer` has them
  apart). A file number is not given again, so that a second `close` of one hits nobody. A connection that is
  closed in the middle of a file leaves the fd open.
- `TimerQueue`. Time is relative and in ticks, and how long a timer is overdue is
  told apart up to one tick. The clock is set back, never forward. `addTimer` on
  another thread reads the `Timer` after it handed it over, however late (`ReturnId`): of memory that is free it
  reads anything, and `late` notes that the `Timer` was gone.
- `Poller`. A channel is its fd; when it is removed its fd is closed and may come
  back. No caller in the library disables a channel that is registered and idle already. One that was never enabled is
  disabled by `~Acceptor` when the server did not start (`Acceptor.cc:35`), and so added to the poller with
  no events (`addedIdle`); removing it trips the assertion at `PollPoller.cc:159` in a debug build. The callback of
  a channel makes any updates, and removes its own channel at most (`Removes`); the functors
  make any. The channels of one round come in any order.
- `TcpClient`. The delay between retries is left out, one timer fires per round of
  the loop, the client is destroyed on its loop, and the one-second timer that
  holds the `Connector` outlasts the functors queued when it was set.
- `AsyncLogging`, `LogFile`. A message is one unit and fits a buffer; the clock
  is not set back. Threads that log differ only in the order in which they get the mutex.
  A write that fails leaves a part of what it was given in the file. A failing `fflush` is left out.
- `ThreadPool`. Tasks do not call `run()`: one that does on a full bounded queue
  waits for itself.
- `Monitor`. The functions of the three classes have one form, a guard, a loop around a wait, an effect and a
  notification, and share their steps. A thread calls one object; `size()` and the like, which
  change nothing, are left out. A latch is waited for by one thread, which then destroys it.
- `Buffer`. Integers are the bytes they are made of. The searches for a line end
  do not change the Buffer and are left out. What a caller asserts before a call
  (not to retrieve more than there is, not to prepend more than fits) is its guard.
- `Http`. A request is a request line, header lines and a body, each one or a few
  units, and a read takes any number of those sent, in a body too. The text of an answer
  is left out, its framing is not: how long it says it is, how long it is, and whether
  the connection is closed behind it. A file goes out behind its headers and wherever the socket takes it, which may be behind the answers to
  later requests; `open(2)` may fail (`Opens`), a range may lie beyond the file, and `sendfile(2)` may fail at any time. A body that is taken before it has
  been read is filled up with whatever is in the buffer (`beyond`), as a release build has it: `retrieve` then retrieves all,
  where a debug build stops at its assertion. What of a body comes later is taken for the next request's line and refused. Left out are a
  `Content-Length` and a range that are no number (an exception that nobody catches ends the process), the status line that is
  repeated in the answer with a file that keeps the connection (`HttpResponse.cc:28-30`), and descriptors.
- `EventLoopThreadPool`, `ServerStart`. Wakeups of a loop are in `EventLoop`: here its
  `poll()` may return at any time. A connection is established, ends, and
  frees its descriptor. An error of `accept(2)` that the code
  calls unexpected ends the process and is left out. `MayDestroy` keeps a program from destroying the server
  before its threads are in `loop()` (`DestroyEarly`).
- `TimeZone`. Minutes, hours and days have the lengths of the constants. `gmtime_r(3)` and
  `timegm(3)` are taken to do what `ToUtcTime` and `FromUtcTime` do. The files of the run
  have a type that was read (part 5); one of them is cut off behind it, and of that `LocalTimeReturns` says only that a time leads back
  to its second.
- `LogStream`, `Logging`. The characters of a line are those of numbers; of any other piece only the
  length is told. A double prints in any 19 characters. Integers are TLC's: units above M are
  left out, as they repeat the rows of k and M. `MaxDigits` bounds the search for the
  last quotient. Threads log on a day after the epoch: `t_lastSecond` begins with 0. `g_output` and
  `g_flush` are set before threads log, and what they do is `AsyncLogging`.

## 3. The runs

Every passing run visits every action of its module. The state counts are
distinct states.

| Run | Instance | States | What it shows |
|---|---|---|---|
| `eventloop` | two callers, the loop entered twice | 75 000 | `NoLostWakeup`: when the loop is in `poll()` with no write of the eventfd made or coming, nothing waits. `BatchBounded`: the batch does not grow while it runs. `ImplementsExecutor`: the loop implements `TaskExecutor`. `NothingSleptOn`: what is queued for a loop that runs is run, and a `quit()` ends the loop |
| `tcpserver` | one connection, one or two loops, two threads, four calls | 287 000 | `EndsOnce`: the connection is erased and destroyed once, idle and closed, and its user is told of it once, unless a call has set `kDisconnecting` over `kDisconnected`. `NoDanglingThis`: no raw `this` that was queued while the map had the connection outlives it. `ClosedIsDestroyed`: what is closed is destroyed, and no channel is removed that still watches |
| `output` | three messages and two files of two units by either thread, high water at three | 1 160 000 | `NothingLostOrReordered`: the socket took a prefix of what the loop took up, of the messages always, of the files and of both as long as nothing is begun that they do not survive. `WatchesWhenNeeded`: it is watched exactly while there is output. `ClosesInTime`: shut down only when drained, and files are closed. `OutputGoesOn`: a paused user is called, a shutdown happens |
| `timerqueue` | two addresses, two timers, two delays, two intervals, the clock set back once | 111 000 | `TimersKept`: `timers_`, `activeTimers_` and the heap agree. `NotSleptThrough`: the timerfd is armed early enough. `CancelSticks`: a cancelled timer does not run and no other is hit, but by an id that was made too late. `EveryTimerRuns` |
| `poller` | three fds, both pollers, room for one event at first | 173 000 | `KernelAgrees`: the kernel is asked for exactly what each channel wants (one added idle: hangups), `index_` is the place of the channel, no `epoll_ctl` fails, and what is left of a round is there. `NothingPassedOver`: a channel that is ready has its turn, however many others are |
| `tcpclient` | four numbers for sockets and timers, three calls | 12 000 | `SocketsAgree`: each open socket belongs to an attempt or a connection, and nothing that is queued outlives the `Connector`. `KeepsTrying`: while a connection is wanted one is being made. `AttemptsAreDue`: one attempt at a time, and none after `stop()` |
| `asynclogging` | buffers of one message, overload at four, five messages, days of two seconds, one write that fails | 147 000 | `InOrderOnce`: the log is what was appended, in order, minus what was dropped or lost by that write, and no null buffer is met. `RollsOnTime`. `LoggingGoesOn`: what was appended gets to disk, `stop()` returns |
| `threadpool` | no, one or two threads, two producers, a queue of one or without bound, three tasks; or three threads and four calls of a blocking queue with room for one or of a latch | 46 000 | `QueueKept`: the bound holds and tasks are taken once, in order. `AllGoesOn`: what was accepted is run, calls return, and none is accepted after `stop()`. `HolderTrue`: `holder_` is the thread that has the mutex, and a latch is left before it is destroyed. `ImplementsCalls`: the calls implement `AtomicCalls`. `WaitsEnd`: no notification is missed or wasted |
| `buffer` | a vector of two and two, `extrabuf` of two, strings of up to two of two bytes, three readable | 89 000 | `ImplementsByteQueue`: no byte is lost, doubled, reordered or overwritten. `GrowthBounded`: the vector grows only when it must, and to less than twice its content |
| `http` | up to three requests, one or two of them unanswered, cut into reads anywhere, with a body of two, a file of two and ranges in it and beyond; either server | 884 000 | `AnswersInOrder`: each request is answered once, in order, as it was sent, up to the first one that was taken before its body was there. `Framed`: behind its head a response has what it announces and what was asked for, or the first part of it where the file fails; for a peer that waits always, for others unless an answer comes into a file. `Answered`: what has been sent is answered |
| `serverstart` | no, one or three threads, five peers, descriptors for two and the spare one, one error of `accept(2)` that passes | 180 000 | `LoopsUsable`: a loop handed out is there, initialised and not gone, and gets its share. `PeersServed`: a peer is accepted or turned away, also out of descriptors. `ComesAndGoes`: start and destructor return |
| `logging` | every day of 1900 to 2500; five kinds of zone around the epoch; two threads and three lines around a change of the offset, one setting or fork; 36 lines of critical lengths, 56 numbers | 360 000 | `CalendarAgrees`: every second is broken down as the calendar says, and put together again. `LocalTimeReturns`: a local time has the right offset and leads back to its second, also in the hour that comes twice. `StampsTrue`: a line carries the second it was begun in and its thread. `LineWhole`: nothing is written behind its buffer, its header is there, its newline where there is room, and numbers are right and as short as promised |

**Why the bounds are enough.** Each is the smallest that has the case a property
is about, and the mutants of `PROJECT.json` show that it has it. `eventloop`: one
caller hands over two functors (their order), a second caller interferes, and
`loop()` is entered again with what the first left behind. `output`: units of two make a
write that takes a part, a file of two a `sendfile` that does, and three messages with
a mark of three cross it both ways; with two files one may overlap another. `poller`: three slots make a removal in the middle that
swaps, fd 0 the case where `-fd` would not tell, and room for one event is too little for the
first and the second doubling. `timerqueue`: two addresses and
two timers make an address be used again while an old id is held. `threadpool`: two
threads and two producers are what it takes for a notification to reach the
wrong one; three threads do for an object where each both puts and takes, or counts down. `asynclogging`: buffers of one message fill at every append, so that
all four are under way at once. `buffer`: a byte string longer than what is left of the
vector, one that fits after a move, and one that does not. `http`: a body of two
ends behind a read, before it or within it; a file of two has ranges within it, at its end and beyond; with two requests
unanswered an answer comes into a file that goes out, and the third request is one behind a body that was split. `serverstart`: three threads
make a turn with a middle, and one more peer than two full sets of descriptors keeps the
spare one in use after it was opened again. `logging`: the lengths are those at which a
piece just fits or does not, the numbers those around each threshold; two threads, one of which
logs a line in the child of the other; all days that `Date.h` speaks
of; seconds are fewer to the hour because TLC's integers have 32 bits and seconds do not enter into
the calendar.

**CHECK_DEADLOCK FALSE** stands where a system comes to rest: the calls the
bound allows are used up, the connection is destroyed, the pool is stopped. The
progress properties say that it does not rest too early. A walk through the days ends with
its last year. `EventLoop`, `Poller` and
`Buffer` never rest and are checked for deadlock.

**Fairness** is that of threads which the kernel schedules and of callbacks that
return; no user has to call anything and no peer has to send or close.

- `EventLoop`: the loop thread runs, and a caller that has queued goes on to write
  the eventfd. The ten second timeout of `poll()` is *not* used: it would hide a lost
  wakeup.
- `TcpServer`: both loops run their functors. No event is ever reported for sure.
- `ConnectionOutput`: functors run; a peer that does not reset reads in the end, so
  that the socket becomes writable; a socket that was reset stays readable until handled.
- `TimerQueue`: time passes, and a round of the loop handles the timerfd to the end
  of its batch and then a functor: `RunPending` is strongly fair, since
  an ever-ready timerfd disables it between rounds without being able to starve it.
- `TcpClient`: the loop goes round, and timers and connect attempts come to an end:
  strong fairness on the two, because other events may come first in any round.
- `AsyncLogging`: the logging thread runs, and its wait ends after `flushInterval_`.
- `ThreadPool`: threads run and tasks end. A wait ends only if someone notifies it;
  spurious wakeups happen but are not relied on.
- `Monitor`: a thread inside a call goes on, and gets a mutex that is free again and again: strong
  fairness on `Lock`, which is what a mutex that starves nobody for ever gives.
- `Poller`: the loop goes round. The model lets `epoll_wait` prefer any of the fds
  that are ready, so that it is the doubling of `events_` alone that lets the others have their turn.
- `Http`: the server reads what has arrived and handles it. No peer has to send or to receive.
- `ServerStart`: the owner and every thread run, and `poll()` returns after ten seconds at the
  latest. Nobody has to connect, and no wait ends without a notification for sure.

## 4. The proofs

TLC checks small instances; the theorems hold for every value of the constants.
They assume what is named in the `ASSUME` of each module: numbers are numbers and sets are sets of
them; the loop thread is not one of the callers (`LoopAssumption`), nor a worker a producer
(`PoolAssumption`); callers' data are strings of bytes (`BufferAssumption`); fds and the threads of a
mutex are finitely many (`PollerAssumption`, `MonitorAssumption`), delays have a longest one
(`TimerAssumption`); a request tells the length of its body (`HttpAssumption`); and one thread waits for a latch, and does not count it down. Where the code needs
more of its users, part 5 tells what happens otherwise, and the theorem says what it needs:

| Hypothesis | Says | Without it |
|---|---|---|
| `ServesElsewhere(w)` for all `w` in `Uses` | a server that goes before its loops serves the connection on another loop than its own | `NoDanglingThis` fails: `~TcpServer` destroys the connection there and then, and functors with a bare `this` are still queued |
| `SafeUse(w)` for all `w` in `Uses` | the same, and nothing but `send` is called on a server that goes before its loops | `EndsOnce` fails, and `ClosedIsDestroyed` |
| `AsTheLibraryDoes` | callbacks remove their own channel only; under `poll(2)` a channel that went idle stays so | `KernelAgrees` fails |
| `Careful` | `connect()` once, no `stop()` between test and `restart()`, no `~TcpClient` while a functor is queued | `SocketsAgree` and `AttemptsAreDue` fail |
| `SummerZone(w.file)` for all `w` in `Walks` | changes are in order by UTC and lead to types that are there, the first of which is read; and in a file that was read to its end they are in order by local time too, local time goes back only at the end of a summer time that is one hour ahead, and the hour that comes twice is over before the next change | `LocalTimeReturns` fails: `fromLocalTime` tries 3600 seconds only, and only when `tm_isdst` is set |
| `ZonesInOrder` | threads log after the first day of 1970, with changes in order, in a file that was read to its end | `StampsTrue` fails in the first second of 1970, since `t_lastSecond` begins as 0, with changes out of order, in which `std::lower_bound` does not find its way, and with a file cut off, from which a wrong offset is read |
| `PiecesAreShort` | a number is shorter than `kMaxNumericSize` (the `static_assert`s of `LogStream.cc`), a header without text shorter than a buffer | `LineFits` fails: `convert` writes more than was asked room for, or a part of the header is left out |
| `PiecesAreStreamed` | what is streamed: integers of 64 bits, quantities that are below the last threshold modelled, a `double` of less than `kMaxNumericSize` characters; and the `static_assert`s again. `PiecesAreShort` follows | a larger quantity has no row in the model, which leaves out those above mega |

What a program may well do is no hypothesis but part of the property that it touches: a caller that is overtaken between its
test of `state_` and its functor (`overtaken`, `reopened`), something sent while a file goes out (`overlaps`), an id that
`addTimer` made too late (`late`), a body that comes in a read of its own (`split`), and an answer that comes into a file
(`onto`). The model lets them happen, and records it; the property says what is left of the promise, and the theorem holds for every run.

Few of the properties are inductive. What was to be added to each says why the code is right,
and is told here with the theorems. TLC checked every such invariant on the instance of the run first.

**`EventLoopProofs`**
- `TypeCorrect`: `TypeOK` is inductive.
- `WakeupNeverLost`: `Spec => []NoLostWakeup`. The property speaks of the moment the
  loop is in `poll()` and is not inductive: a functor is queued, and the loop
  goes to sleep, long before it is violated. `WakeupInv` is the invariant behind
  it: wherever the loop thread is, except between the read of the eventfd and the
  swap of `pendingFunctors_` ("handle" and "callback"), what is queued has been announced
  by a write of the eventfd that was made or that a caller is about to make, or was
  queued by the loop thread outside `loop()` (`QueueAnnounced`); in `poll()` a
  `quit_` that is set has been announced (`QuitAnnounced`); and
  `callingPendingFunctors_` is set while a batch runs (`FlagCoversBatch`). The last
  is what makes `queueInLoop`'s condition, another thread or a functor of the
  batch, the right one.
- `BatchesBounded`: `Spec => BatchBounded`, by cases on the step.
- `Refinement`: `Spec => ImplementsExecutor`. What `TaskExecutor` calls its
  queue is the rest of the batch followed by `pendingFunctors_`; a swap maps to
  a stutter.

**`TcpServerProofs`**
- `RunsWhileAlive` (`NoDanglingThis`): `RawInv` puts the functors that are bound to a bare `this` ahead of `connectDestroyed` in
  the queue of the connection's loop: a queue is FIFO, so they have run when the connection goes. The caller's test, its
  store to `state_` and its functor are steps of their own, and the functor comes to the queue whenever it likes: `InTime` leaves
  out the kinds of which one came after the map had let go. It takes no more than that about the ends of a connection, so that it holds however often
  a connection is closed.
- `OneEnd` (`EndsOnce`), and `RemovedIdle`, an action property
  and a conjunct of `ClosedIsDestroyed`. `Life` takes a connection through four ages: `Unborn`, `Opening`, `Open`
  and `Closed`, the last in three parts (`InMapStill`, `OutOfMap`, `OutOfPoller`). Each age
  says where the one functor is that will lead to the next, and what the channel watches. It ends when a caller stores
  `kDisconnecting` over `kDisconnected` (`reopened`): that connection is closed again.

**`TcpServerProofs`**, about `ServerStart`
- `LoopsStayUsable` (`LoopsUsable`), for any numbers of threads (with a largest), peers, descriptors and
  failing calls, also when the server goes before its threads are in `loop()` and when the spare descriptor is taken.
  `OwnerInv` ties the number of loops the owner has to where it is in `start()` or in the destructor; `ThreadInv`
  gives each of them a thread that has published its loop and ends only when the
  destructor has come to it. `Shares` is why the turn is fair: the loops before `next_` have been given one connection
  more than the others, and those all the same number.

**`ConnectionOutputProofs`**
- `NothingIsLost` (`NothingLostOrReordered`), `OutputIsWatched` (`WatchesWhenNeeded`), `ClosedInTime`
  (`ClosesInTime`), whatever callers start while a file goes out. The three and `TypeOK` need each other: not even that
  a length is a length holds without knowing which file it is of. `Watched` is the watch also of a connection that the peer has reset. `FilesApart` is about files of which none is
  started before another is through: such a file is the one of `sendFd_` and `sendLen_` from its call on, and whole until the loop comes
  to it, in the thread that called, in the queue, or taken by `handleWrite` before its functor has run. `ShutdownLast` is about a
  `shutdown()` that comes after the files: they are ahead of it in the threads and in the queue, and so it finds them sent or watched for.
- The lemmas about sequences say that what a write takes and leaves is the whole.

**`TimerQueueProofs`**
- `TimersAreKept` (`TimersKept`), `AlarmIsInTime` (`NotSleptThrough`), `CancelledIsGone`
  (`CancelSticks`), for all uses. `TimerInv` adds that a `Timer` is allocated with a sequence of its own (`HeapInv`), that it is queued once (`CallsInv`), and
  that a cancelled one that is still there is in the batch and noted in `cancelingTimers_`
  (`StopInv`), which is what `reset` asks. An id has the sequence of its own `Timer`, unless `addTimer` read it when that was gone
  (`GivenIds`, `late`); a thread that is inside `addTimer` still knows where its `Timer` is or was, and the
  `Timer` of a late id is gone for good (`GoneInv`), so that to cancel it is never the way to cancel what was meant. The alarm is compared with the least of the expirations, so that
  lemmas about minima and maxima of sets of times come first. The attempt to
  prove it showed that the bound of the alarm was too low by one tick where every delay is 0: `howMuchTimeFromNow`
  gives a tick at least.

**`EventLoopProofs`**, about `Poller`
- `KernelFollowsChannels` (`KernelAgrees`), for any finite set of fds. Under `epoll(4)` `EpollInv` says that
  `index_` is `kAdded` exactly while the kernel is asked about the channel: it watches something, or was disabled before it was
  ever enabled, as `~Acceptor` does with a server that was not started (`Looked`). Under
  `poll(2)` `PollInv` says that `index_` is a bijection of the channels with the slots of `pollfds_`; the
  proof through `removeChannel`, which puts the last slot into the gap, counts the channels to know that none is
  left over. A slot hides its fd as `-fd-1`, and the fd can be told from it also for fd 0.

**`TcpClientProofs`**
- `ClientAgrees` (`SocketsAgree`), `ClientTries` (`KeepsTrying`), and the action properties `AttemptsOneAtATime`
  (`OneAttempt`) and `AttemptsOnlyWanted` (`NoneUnwanted`), both conjuncts of `AttemptsAreDue`.
- The heart of `ClientInv` is `RoundInv`. `channel_` is reset by a functor, later than the poller forgets it;
  an attempt made in between would lose its own Channel. It is not made, because while `connect_` is set
  at most one thing is ready in a round (the attempt, the connection or the timer), and the functors of the round, the
  reset among them, run before `poll()` is called again. Around it `TimersInv` (one timer, the one of
  `timerId_`, and only between attempts), `StopInv` (an attempt under way after `stop()` has its
  `stopInLoop` queued) and `EndInv` (a Connector that is gone has left nothing) make a client's steps what the destructor relies on.

**`BufferProofs`**
- One lemma per operation says what it does to the readable bytes, from what
  `std::copy` and `vector::resize` leave in the vector (`PutSeq`, `ResizedSeq`).
  `RoomIsMade` is the heart: after `makeSpace` there is the room that was asked for,
  whether it moved the bytes or made the vector longer; when it moves them,
  `kCheapPrepend` is below `readerIndex_`, which is what the assertion at
  `Buffer.h:398` says.
- `TypeCorrect`: the indices stay in order and inside the vector (with the vector never
  shorter than `kCheapPrepend`, without which `retrieveAll` would break it).
- `IsByteQueue`: `Spec => ImplementsByteQueue`, each operation mapping to one of the queue.
- `MemoryFollowsContent`: `Spec => GrowthBounded`, for every size.

**`BufferProofs`**, about `Http`
- `RequestsAreAnswered` (`AnswersInOrder`), for any requests, files and number of requests unanswered, and for reads that end
  anywhere, needs no hypothesis. The property looks at responses only; `InStep` says where the parser is between two of
  them: as many requests are over as responses were sent, and what is unread, in the input buffer and still on the
  way, is the rest of the current request from its p-th atom, and then the requests behind it, whole (`InPlace`).
  From p and `state_` follows what `request_` holds (`Parsed`): nothing, the request line, the line and
  some of the headers, or all of it. Every turn of `parseRequest` moves p by what it retrieves.
- The test of `HttpContext.cc:133`, the wrong way round, takes a request before its body has been read, and the parser is `OutOfStep`
  from then on: what is unread begins with a byte of the body (`BodyIsLeft`), which
  is no request line, so that the next line that ends is answered with 400 and the connection closed. What
  follows a response that closes is not parsed, since the connection is no longer `kConnected`: of the parser
  `HttpInv` says nothing more then. That `swap` leaves `body_` in a request that is reset does no harm,
  because a body is assigned and never appended to.
- `ResponsesAreFramed` (`Framed`), for any file and any range in it or beyond its end, also when a file cannot be opened or read. `SliceIsAsked` counts the bytes that
  `sendFile` is told to send for each form of a range, `-n`, `m-` and `m-n`, where the range fits, and `RangeNumbers` says what the announced number is where it does not.
  `FilesInv` follows the file in `sendFd_`: while it goes out every response behind its own has come into it (`onto`), and behind a response that is
  undisturbed there are the first bytes of what was asked for, as many as are no longer left. `WindowInv` is why a peer
  that waits is never disturbed: it asks when it has all that was asked for before, and so nothing goes out when the answer comes; it
  needs `AnswersInOrder`, since it is the number of responses by which the peer knows.

**`ThreadPoolProofs`**
- `TasksAreKept` (`QueueKept`), and `StopRefuses` (`NoneAfterStop`, an action property and a conjunct of `AllGoesOn`), for any
  number of threads, producers and tasks. `PoolInv` adds where each thread is and that it has a task exactly while it runs one; each
  call of `run()` that is neither accepted nor over is counted (`CallsInv`), which bounds what
  is accepted; and a pool without threads has nothing queued (`NobodyToTake`), since `run()` then runs the task itself.
- `HolderIsTrue` (`HolderTrue`) and `CallsAreAtomic` (`ImplementsCalls`), for any number of threads. A
  thread is inside exactly when it has the mutex, `holder_` is it outside of the wait (`LockInv`),
  where each thread is follows from its call (`CallInv`), and the count of a latch is what is left of the
  calls of `countDown` (`LatchInv`), so that nobody is behind the one that waits. A call maps to one step of `AtomicCalls`,
  the one with its effect, and all its other steps to a stutter.

**`LoggingProofs`**
- `LogIsInOrder` (`InOrderOnce`) and `FileRolls` (`RollsOnTime`), for any size of buffers and files, any length
  of a day, and any number of messages and of writes that fail. `FlowInv` takes the way of a message apart: the log, the
  rest of the batch, the full buffers and the current one are each in order and each behind the one before, and
  together they are what was appended but for what was dropped or lost; that they are disjoint, which an
  overload and a failed write need, follows from the order. `BackInv` is the count of the buffers: the front
  gives its spare buffer away only for a full one, so that a batch of one buffer is met by a second spare
  buffer that is still there, and two spare ones come back from every batch.
- `FileInv`: late appends are not more than `count_`, the appends since the last look at the clock, and there are none
  on the file's own day; a look that finds a new day finds a new second too, so that `rollFile` does
  not refuse. That days come in order (`DaysPass`) is all it needs to know of `kRollPerSeconds_`.
- The lemmas about sequences say what of a batch stays in order when it is split and joined.

**`LoggingProofs`**, about `Date` and `TimeZone`
- `DaysAreRight` (`CalendarAgrees`): for all years and however long a day is, without a hypothesis. The number of a day and its date are compared
  with a calendar that only counts (`CalendarInv`). A year is taken apart into its cycles of 400, 100 and 4 years, a
  year from March into its months (`IsYear`, `DateReturns`, `NumberReturns`), because the solver can follow one division by a number at a
  time and not the six of `YearMonthDay` at once. `NumberOfNextDay`, `NumberOfNextMonth` and `NumberOfNextYear` are the
  three ways a day ends; `CountLeapYears` ties the day a walk begins with to the number of leap years since 1970.
- `UtcReturns`: breaking down and putting together are inverse at every second, before the epoch too. The theorem is about the integers: that
  `int` is wide enough for the divisions of `Date.cc`, for a million years and more, is not said. Nor is it that C's `/` rounds a negative day number
  towards zero: the model's `\div` does not, and the two differ only before the year -4800.
- `LocalTimesReturn` (`LocalTimeReturns`). With changes in order by local time, what `lower_bound` finds for a
  local time is the change in force or, in the hour that comes twice, the next one; the second `toLocalTime` and the comparison
  of the clocks in `fromLocalTime` tell which. Of a file cut off among its types, every local time of which has the first type's offset, the
  theorem says only that it leads back to its second.

**`LoggingProofs`**, about `Logging`
- `StampsAreTrue` (`StampsTrue`), for any threads, seconds, zones, changes of the zone and forks. What a thread keeps between
  lines is right for its last second or was made before the zone was set (`CacheIs`), and the number it keeps is that of
  the process it is in (`TidInv`).
- `LinesFit` (`LineFits`, a conjunct of `LineWhole`): whatever is logged. A piece leaves room for the NUL behind a number because `kMaxNumericSize` is what is asked
  for; `RoomInv` says which parts of the header a line has at each point.
- `LinesAreWhole` (`LineWhole`), with the other conjunct, `NumbersFit`, which is about the digits that `convert` and
  `convertHex` take off a number one by one. `RightInv` says that every piece of a line has the right text. The lemmas behind it are induction on numbers,
  which the theorems of the library state for a predicate as a parameter that the provers cannot instantiate. It is done with sets instead: every set of naturals that is
  not empty has a least element (`LeastNumber`, from the library's `WFMin`), so that one with 0 and with the successors of its elements is
  `Nat` (`AllNumbers`). By it the recursive functions of `Converted` and of `NegatedValue` are equal to their equations (`RestsAre`, `NegatedValueIs`),
  a number of 64 bits has at most 20 digits in either base (`NothingLeft`; `MaxDigits` is never met), and the
  digits put together again are the number, the least one of an `int` included (`DigitsReturn`).
- Of a quantity with a unit `PrintsSI` and `PrintsIEC` show, row by row of the tables, that the number printed has three
  digits, or four below 1024, whichever way `snprintf` rounds in the middle: a threshold that is one thousandth higher would
  print "10.00k" or "1000k". The rows are those the model has, up to a quantity of 999500000 or of 1023.5 Mi.

Out of the prover's reach and left to TLC: liveness under fairness (`NothingSleptOn`,
`ClosedIsDestroyed` but for `RemovedIdle`, `OutputGoesOn`, `EveryTimerRuns`, `NothingPassedOver`, the end of `StopSticks`, `LoggingGoesOn`,
`AllGoesOn` but for `NoneAfterStop`, `WaitsEnd`, `Answered`, `PeersServed`, `ComesAndGoes`) and `ENABLED`. No
module has a `RECURSIVE` operator, so that any of them can be proved about. Every invariant that a run checks is a
theorem.

## 5. Where the code differs from what it says

Met while modelling. Where a constant is named, TLC finds the property named violated with the value given; the run uses
another one. Where a variable is named, the behaviour is in the run: the property says how far the promise holds.

- `TcpConnection.cc:218`: a server destroyed after `shutdown()` was called on a
  connection. `connectDestroyed` disables the channel in state `kConnected` only, so a
  channel that still watches is removed, against the assertion at `Channel.cc:46` and the
  comment at `TcpConnection.cc:211`; the user is not told of the end
  (`Uses <- DestroyAfterShutdown`, `ClosedIsDestroyed`).
- `TcpConnection.cc:268`: `sendFile` stores `sendFd_` and `sendLen_` without a lock and without a look at what is there: a
  file that is started before another is through takes its place, and what is left of the first, and its descriptor, are lost. On another
  thread the two stores race with `handleWrite` and with each other. A `shutdown()` that comes before the file's functor ends
  the write side before the file (`overlaps`, `NothingLostOrReordered`, `ClosesInTime`).
- `TcpConnection.cc:385`: a message sent while a file goes out is written into the middle of
  the file, against the comment at `TcpConnection.cc:101` (`overlaps`, `NothingLostOrReordered`).
- `PollPoller.cc:129`: a channel that went idle and watches again is ignored by `poll(2)`
  for good: its fd stays hidden (`MayResume` for both pollers, `KernelAgrees`).
- `TcpConnection.cc:247`: `forceClose` and `shutdown` test and set `state_` with no lock
  (a FIXME at 246 says so), and overtake a close on the loop: the connection is closed and erased
  twice (`reopened`, up to which `EndsOnce` holds). `send()` on another thread binds a raw
  `this` after its test (`TcpConnection.cc:349`), and `shutdown()` too; a functor that comes when the map has let go may
  find nothing there (`overtaken`, which `NoDanglingThis` leaves out). `TcpServer.cc:43`: when the server's loop is
  also the connection's, its destructor destroys the connection ahead of the functors that are queued
  (`Uses` with `sameLoop` and `destroys`, `NoDanglingThis`).
- `ThreadPool.cc:135`: `stop()` leaves accepted tasks in the queue, each thread
  taking one more at most; the comment at `ThreadPool.cc:106` says they are run.
- `TimerQueue.cc:199` reads the `Timer` after the loop has been given it and may have deleted it: the id
  returned may then be another timer's (`late`, which `CancelSticks` allows).
- `TcpClient`: `connect()` after `stop()` lets a queued `resetChannel` destroy the channel of the
  new attempt (`Connector.cc:158`; `Reconnects = TRUE`, `SocketsAgree`). `stop()` between the
  test of `connect_` and `restart()` is lost (`TcpClient.cc:150`; `RacingStop = TRUE`,
  `AttemptsAreDue`). A client destroyed while `resetChannel` is queued is outlived by it
  (`DestroyEarly = TRUE` of `TcpClient`, `SocketsAgree`).
- `TcpConnection.cc:115`: the write-complete callback is left out when a file follows, and
  `TcpConnection.cc:153`: a shutdown asked for is forgotten when a file is given up.
- `TcpConnection.cc:266`: a file given to `sendFile` when the connection is no longer connected, or not
  sent when it closes, is never closed; nor is one of which no byte is to be sent, when there is output
  (`TcpConnection.cc:287`).
- `EventLoop.cc:114`: a callback that removes and destroys the channel of another, as destroying an
  `Acceptor` does, leaves a dangling pointer in the round (`Removes = {"own", "others"}`, `KernelAgrees`).
- `Acceptor.cc:35`: a channel that was never enabled is disabled, and thereby added to the poller, and then removed (`addedIdle`).
- `Logging.cc:147`: `setTimeZone` leaves the text of the second in each thread's memory, so that
  lines of that second are stamped in the old zone (`StampsTrue` allows them). `LogStream.h:44`: a line that
  is full to its last character has no newline. `Logging.cc:208`: the process
  is aborted behind a FATAL line, which is lost when the output is `AsyncLogging`.
- `FileUtil.cc:41`: the bytes of a write that fails part of the way are not counted in `writtenBytes_`.
- `AsyncLogging.cc:80`: what was appended after the last swap is not written at `stop()`.
  `LogFile.cc:77`: the day is looked at once in 1024 appends, and under
  `AsyncLogging` an append is a whole buffer.
- `EventLoop.cc:108`: a `quit()` before `loop()` is lost, and so a server destroyed before a
  thread is in `loop()` waits for ever (`DestroyEarly = TRUE` of `ServerStart`,
  `ComesAndGoes`). `EventLoopThread.cc:24`: between the two steps of `quit()` the thread may have
  left `loop()`, and the eventfd that is written is that of an `EventLoop` that is gone.
  `TcpServer.cc:43`: a `connectDestroyed` queued in a loop about to end is dropped.
- `Acceptor.cc:79`: another thread may take the spare descriptor before it is used; then
  nothing accepts, and the loop spins (`SpareTaken = TRUE`, `PeersServed`). `Acceptor.cc:77`: `errno` is
  tested behind a log line.
- `HttpContext.cc:133`: the test of how much of a body has arrived is the wrong way round: a request is taken before the body that
  comes in a read of its own, which is then the beginning of the next request line, and refused (`split`, up to which `AnswersInOrder` holds), and one
  with a request behind its body is waited for (`Answered` allows it). `HttpRequest.h:174`: `swap` leaves out `body_`. `HttpServer.cc:68`: a second
  request in the same read waits for the next one, and a request line that is refused stays
  in the buffer. `HttpResponse.cc:28-30`: a second status line. `HttpContext.cc:132` and
  `FileServer.cc:274`: a length or a range that is no number throws, and nobody catches it.
- `FileServer.cc:194`: a request is answered while the file of the one before goes out: the head is written into that file, and a
  second file takes its place (`onto`, which `Framed` leaves out; a peer that waits for each answer never meets it).
- `FileServer.cc:284`: a range that the file does not have is not refused: the `Content-Length` may be longer than what the file has from
  there, or below zero, and more last bytes than there are begin at an offset that `lseek` refuses, so that the file
  goes out from its front. `Framed` says that what follows is the first part of what was asked for, and that only such
  a range or a failure makes it less than was announced. `FileServer.cc:245`: when `open(2)` fails for a file that `stat(2)`
  found, its length is announced and nothing follows. The fd opened for an answer is not closed when the connection
  is no longer connected.
- `TimeZone.cc:227`: `readTimeZoneFile` returns true when it caught an exception, against the
  comment at line 154, and when there is no file; `findLocaltime` then reads the front of an
  empty vector, which no walk does; with some of the types read, every local time has the offset of the first (`typesRead`, of which
  `LocalTimeReturns` promises no offset). `TimeZone.cc:322`: the hour that comes twice is resolved with 3600 seconds, whatever
  the zone's summer time is.

## 6. What is not modelled, and the plan

Not modelled and not planned:

- wrappers of one system call, and `InetAddress` and `Endian`, which convert: their effect is in the
  actions that call them;
- `Timestamp`, `ProcessInfo`, `StringPiece`, `Exception`, `Singleton`: no state that changes;
- the text of answers, listings and file names, the bytes of a zone file;
- errors that end the process (`LOG_FATAL`, an exception that nobody catches);
- the construction of an `EventLoop` and its check of the thread, threads that are not joined.

`PROJECT.json` says so per component.

The order of the plan was that of what the library depends on: the loop, then
the connection (its end, its output), timers and pollers, the client, the threads
beside the loops, the buffer, HTTP, the start of a server, time, the front end of the log, and
the mutex with what is made of it. All of these are done, and the theorems of part 4. Left are abstract
specifications that the proved invariants make easy to state:

1. `AsyncLogging` with its `LogFile` as a queue of messages that may drop some, with `FlowInv` as the invariant of its refinement;
   `ThreadPool` as a bounded queue of tasks, like `AtomicCalls`.
2. Weaker hypotheses: `ZonesInOrder` for days before 1970; `AsTheLibraryDoes` for callbacks that remove another's channel when it has no turn left in the round.
