# A TLA+ model of Celeritas

Celeritas (`src/README.md`) is a multithreaded HTTP server: two listener threads
accept connections, a pool of workers answers requests, a wait room thread
watches idle keep-alive connections with epoll or kqueue, a logger thread writes
the logs and a signal thread reloads the configuration and shuts the server
down. This directory holds TLA+ modules of that system, the TLC configurations
that check them, and proofs for TLAPS. Paths below are relative to the
repository (`src/src/threadpool.c` is `threadpool.c`).

## Inventory

| Component | State | Operations | What is hard | What makes it correct |
|---|---|---|---|---|
| Work queue, wait queue (`threadpool.c:44-131`) | ring, head, tail, count, `shutting_down`, mutex, two condition variables | `queue_push`, `queue_pop`, `queue_trypop`, closing by `server_shutdown` | several pushers and poppers, one signal per operation, spurious wakeups, closing while threads wait | a bounded FIFO; no wakeup lost; nobody asleep after the close; drained by its poppers |
| Threads and connections (`threadpool.c:139-334`, `socket.c`, `io_watcher.c`) | a descriptor travels from listener to work queue, worker, wait queue, pool and back | accept, pop, serve, keep alive, drop, drain, wait, hand over, sweep | two bounded queues in a cycle, descriptor reuse, late or failed registrations, deadlines against requests | one owner per descriptor, none leaked; pool and kernel agree; a pooled connection is served or expires; no circular wait |
| Shutdown (`server.c:329-376`) | `shutting_down`, `shutting_down` of either queue, the joins | close the sockets, join listeners, close and join in turn | every thread may be anywhere, blocked in a push, an `accept()` or a read | it ends, and nothing is queued for threads that have ended |
| Logger (`logger.c`) | ring, `shutdown`, `not_empty`, `not_full`, the batch | `log_write`, `logger_thread`, `logger_shutdown` | blocked writers and their locals, failing writes, the logger logging | event messages kept and in order; the logger never sleeps beside a message; the ring drains at shutdown |
| Connection pool (`io_watcher.c:126-264`) | array, count, capacity, epoll registrations, the clock | add, remove by descriptor, nearest timeout, wait, sweep | removal by swapping during a scan, one-shot events, seconds against milliseconds | a kept connection is handed over with input, or closed once it has expired or gone; the sweep misses none |
| HTTP/1 parser (`http1.c`, `socket.c:192-213`, `http_common.c:119-165`) | buffer, overshoot, the scanner's state, protocol | peek, read, poll, `parse_http1`, verdict | input in pieces of any size, fields that do not fit | the result depends on the bytes and not on the pieces; it is the request that cutting into lines finds |
| Request and response (`http_common.c`, `response.c`, `handler_static.c`, `validator.c`, `socket.c:226-236`) | the request context, status, body, mapping; a static buffer | ingress, validate, route, handle, send, keep alive, close, release | pipelining, errors half-way, framing on a kept connection, a buffer shared by workers, numbers used again between `close` and `SSL_shutdown` | one well-framed response per request, in order, to its own client; contexts released |
| Configuration (`config.c`) | current configuration, read-write lock | parse, validate, default, reload, clean up | reload against readers, 16-bit sizes, bad lines | readers see one whole configuration; the file decides, whatever was there before; sizes are powers of two |
| Start-up, pid file (`main.c`, `server.c:159-376`, `threadpool.c:338-433`) | ports, pid file and its lock, thread handles | bind, daemonise, lock, drop privileges, start threads, shut down, unlink | a signal before all handles are set; threads that were never created; two instances; what a dead one leaves behind | one instance per pid file; no crash without one of the known causes; leftovers block nobody |
| Utilities, MIME types, stubs for HTTP/2 and dynamic content | the buffer of `int_to_string` | string helpers | the buffer | `next_power_of_2` in `Config`, the buffer in `Request`; the rest has no state and is not modelled |

Interactions: listeners and the wait room push to the work queue, workers pop
it; workers push to the wait queue, the wait room try-pops it; every thread
calls `log_write`; `server_shutdown` closes and joins them all and ends with
`logger_shutdown`. The shared state is the two queues, the log ring, the global
`shutting_down`, the configuration and the table of file descriptors.

## Modules

| Module | Models | EXTENDS / uses |
|---|---|---|
| `BoundedFifo` | abstract: what `work_queue_t` promises | |
| `WorkQueue`, `MCWorkQueue` | `work_queue_t`, one action per critical section, explicit wait sets | implements `BoundedFifo` |
| `WorkQueue_proofs` | theorems about `WorkQueue` | `WorkQueue`, `TLAPS` |
| `ThreadPool`, `MCThreadPool` | the three thread functions, `io_watcher`, accept and close, `server_shutdown` | both queues as the FIFO that `WorkQueue` implements |
| `ThreadPool_proofs` | theorems about `ThreadPool` | `ThreadPool`, `Selection_proofs` |
| `LogRing`, `MCLogRing` | `logger.c` | |
| `LogRing_proofs` | theorems about `LogRing` | `LogRing`, `Selection_proofs` |
| `KeepAlive` | abstract: what the wait room promises an idle connection | |
| `ConnPool`, `MCConnPool` | `io_watcher.c` and the wait room loop with its data and the clock | implements `KeepAlive` |
| `ConnPool_proofs` | theorems about `ConnPool` | `ConnPool`, `TLAPS` |
| `HttpParse`, `MCHttpParse` | `http1.c`, `demux_protocol`, `process_ingress` | |
| `HttpParse_proofs` | theorems about `HttpParse` | `HttpParse`, `Selection_proofs` |
| `Request`, `MCRequest` | a worker's way through a request, several workers and connections | takes the header that `HttpParse` finds as one token |
| `Request_proofs` | theorems about `Request` | `Request`, `Selection_proofs` |
| `Config`, `MCConfig` | `config.c` and its readers | |
| `Daemon`, `MCDaemon` | `main.c`, `server.c`, `worker_init` as a start-up order | the joins are steps here; that they end is the subject of `ThreadPool` |
| `Process_proofs` | theorems about `Daemon` and `Config` | `Daemon`, `Config`, `Selection_proofs` |
| `Selection`, `Selection_proofs` | the members of a sequence that are in a set (what the sweep keeps, what a write settles, a text without its carriage returns), and lemmas about it | used by `ThreadPool`, `LogRing` and `HttpParse` |

The modules meet where one takes as given what another shows. `ThreadPool` uses queues that are FIFOs
(`WorkQueue`) and lets a request be one step (`Request`); `ConnPool` and `Request` use that a connection is in one
place at a time (`ThreadPool!ExclusiveOwner`); `Request` uses that a header is taken in whatever the pieces are
(`HttpParse!PiecesDontMatter`), and that what is read beyond it is dropped.

Each module has a short section of *mistakes this code could have*: variants of an
action with one thing wrong (a missing signal, a lost test, a swapped order),
each breaking a property. They are not part of any specification; `PROJECT.json`
says which property detects which.

### WorkQueue

A critical section is one action, since nothing it does is visible without the
mutex. `not_empty` and `not_full` are the sets of threads asleep in
`pthread_cond_wait`; `Signal` removes an arbitrary sleeper, `Close` (the broadcast)
all of them, `SpuriousWakeup` any one at any time. A thread that is inside
`queue_push` or `queue_pop` and not in a wait set re-runs the `while` of the code.
`JoinFirst` says whether the pushers have been joined before the queue is closed:
they have for the work queue, they have not for the wait queue, which the workers
push to until they are joined last. One `conn_t` is one value.

### ThreadPool

The actions follow the code from one point where another thread can interfere to
the next: a check of `shutting_down`, a call that can block, a queue operation, a
close. Program counters: `lpc` (listener: check, accept, blocked, accepted, push,
exit), `wpc` (worker: pop, serve, keep, drop, exit), `wr` (wait room: check, drain,
wait, events, push, exit), `sd` (`server_shutdown`). `lconn`, `wconn`, `active` and
`drained` are the local `conn_t` variables. `drained` is declared inside the loop and
never initialised: a new iteration keeps its old content or finds none. In C the
first use of that variable without a value is undefined; the model takes the two
outcomes a build gives, the previous connection (same stack slot) or a value that is
no connection of the server.

A connection is its descriptor and `Accept` hands out any descriptor that is not
open, so that a stale copy may name another connection. `CloseConns` forgets what
the kernel knew of a descriptor, its epoll registration included. `armed` is the set
of descriptors that epoll will report; a report disarms (EPOLLONESHOT), and
`io_watcher_add` arms again, by ADD or by MOD. `Wait` reports every armed connection
that has a request or whose peer has gone, the latter as an error or not
(EPOLLHUP and EPOLLERR are not always set); `MAX_WAIT_EVENTS` (64) is not reached.

`Serve` reads a request and either has its answer written at once or waits in `conn_write` (`"write"`): the socket is
blocking and has no timeout, so that the write ends when the peer reads (`ReadAnswer`, a step of the peer) or hangs up
(`WriteEnds`), and otherwise never.

Abstracted: what is said in a request (`Answered` chooses whether the connection is
kept, `ServeFails` and the failing of a write cover a failed handshake and a bad header), the time of a
deadline (`Expire` may happen whenever one runs), the order of the pool array, memory.
An end of `accept()` by the closing of its socket is a constant, `AcceptWakes`:
Linux does not do it, macOS and BSD do. `Faults` lists what may go wrong in an
instance: `SSL_new`, `epoll_ctl`, and peers that hang up.

### LogRing

`Write` is `log_write` up to its first wait and `Resume` the rest: between them only
the locals `msg` and `next` (the `next_tail` computed before the wait) survive. The
logger's own `l_warn` is `Warn`. `JoinFirst` is the usual shutdown, where all
other threads have ended; FALSE is a shutdown while others still log: `worker_init` goes
on in the main thread when SIGTERM arrives early, and the wait room calls
`server_shutdown` itself when epoll cannot be set up. After `exit` the ring has been
freed, and what a thread then does to it is not modelled: it does nothing more. Messages are
records of their writer, number and target; formatting happens before the lock and is
left out. Writes are whole or fail. `owed` and `spoiled` are history variables, read by no
action: the event messages accepted and not yet written or given up, and whether a
message was stored with an outdated `next_tail` or a batch lost its events to a failed
access write. Warnings of the logger itself are not recorded in `owed`.

### KeepAlive and ConnPool

`KeepAlive` is a set of connections with deadlines and six things that can happen to one. `ConnPool`
has the array of `conn_pool_t` (`items`, `count`), what epoll knows (`registered`, `armed`) and the wait room's
program counter: `drain` (the loop over `queue_trypop`), `wait` (`epoll_wait`), `events` (its results, one after
another), `sweep` (one array index per step). The refinement maps the array to the set of its first
`count` items. Time is counted in ticks, `TicksPerSecond` of them to a second of `time()`, so that a timeout in
milliseconds and a deadline in seconds can disagree; `Tick` cannot pass the end of an
`epoll_wait`, which is how the kernel keeps its promise. The clock is `time()` and in reality may be set back; then
deadlines wait longer, which the model leaves out. The other threads are `Open`, `WorkerReads`, `WorkerCloses`
and the deadline that `Enter` finds in a connection it drains. Items beyond `count` are
memory from `malloc`: `Init` chooses any content (with deadline 0) and removals leave their own.

### HttpParse

A byte is one of the five the parser looks for, or a symbol for any other text. `Read(n)` is one `conn_read` of `n` bytes
and the search behind it; a fault is EAGAIN, after which `poll` waits, or an error. `Demux(n)` peeks at `n` bytes: `memcmp`
reads all of the 24 bytes of its buffer, so that with fewer, and those equal to the preface, the
result is either (the rest of the stack decides). `taken` and `peeked` count what was read and what the peek saw; no action reads them.
The streams are those of plain connections: on a TLS connection the peek comes after the handshake and sees ciphertext,
which no preface equals. `Parse` takes `Step` over the header, and each state of the scanner is
an operator. The five seconds of `poll` apply to each wait and not to the header as the comment at `http1.c:56` has it;
the model does not count them. `RequestByLines` is the reference definition: it cuts the text at the first spaces, line ends and
colons, and shares no operator with the parser.

### Request

A socket buffer is a sequence of tokens: text up to an end mark, or text without one. A client sends requests and, behind
any of them, bodies (`SendBody`): text without an end mark, with one, or a whole request, since no handler reads a body and
the code takes whatever ends in a mark for a request. Only tokens with a mark are numbered (`sent`); `bodies` remembers which of
those were parts of bodies. `ReadHeader` takes everything up to the first end mark
and an arbitrary amount behind it (what one `recv` returned); the amount may end inside a token, which leaves a garbled
header or a text without end (`Rests`); and a header with the rest of a body in front of it is a request of an invalid
method. `Handle` is `validate_request`, the routing and the handler up to
`int_to_string`; `Format` writes the shared buffer and `Copy` reads it, when another worker may be writing (`Torn`).
`Send` is two writes, the header's and the body's, each of which may be whole, cut short or fail (`Writes`): a failed one
drops the connection, a short one is only logged. It writes to the *descriptor number* and reaches whichever connection has that number now. `Close` and `Notify`
are `close` and `SSL_shutdown`, in the order of `socket.c:231-232`, and `WaitRoomCloses` and `WaitRoomNotifies` are the same two steps in the
wait room, which closes connections that have expired, that have an event with an error, or that the pool has no room for (`ending` is the one
between the two); `Accept` takes the lowest free
number in between. The `closeAndBreak` and `notifyAndBreak` states are the `break` of `threadpool.c:288`,
which skips `cleanup_request_resources`. `flaws` in a response on the wire names what was seen to go wrong on its way (`raced`: another
worker has filled the buffer between `int_to_string` and the copy, or during it; `unmapped`: `open` or `mmap` failed; `short`: a write was cut),
when it happened and not by what came of it. It, `skipped`, `kept` and `bodies` are history variables, read by
no action. `resolve_path`, the MIME type, the date and the access log are left out; a
path is one of: a file, a directory (which `open` takes and `mmap` refuses), a file of `IntLimit`
bytes, a missing one, one with "..".

### Config

`cfg_map` has three kinds of keys; `http_port` and `conn_queue_size` stand for the numbers (one stored as it
is, one rounded), `server_user` and `lock_file_path` for the texts (one stored as it is, one that loses its last
character, see below), `dir_listing` for the flag, the only field without a default. A
line is what `Sets` and `Bad` tell apart (`Lines`); the text of a line is data, a sequence of strings. `heap` is the sequence of all
configurations allocated, `conf_data` an index into it, and `from` remembers the file a configuration was read
from (read by properties only); what has been freed is `Freed`. The bits of an integer are `HalfBits` (16 in C, 4 in the instance), of
`next_power_of_2` twice as many: the value is rounded in 32 bits and cut to 16. A number is there the set of its bits (`Bits`,
`FromBits`), `v |= v >> k` is `Smear`, and `Smeared` has the five of them that `util.c:36-40` has; `Pow2` is a function and not a
RECURSIVE operator, so that the prover can reason about it. A reader locks, looks twice, unlocks:
`strncpy` of a path is many looks. Threads that copy a value and use it after the
unlock (`pool_size`, `timeout`, the sizes of the queues) do so for their lifetime: a reload does not reach them.

### Daemon

One process per instance, its main thread at `main`, the shutdown at `sd`; `Startup` is the order in which
`worker_init` fills in `server`. The file system is one name and the inodes it has referred to; descriptors, ports and
record locks go when a process ends (`End`), the name and its content stay. `already_running` is three steps (`Open`, `Lock`, which
truncates too or fails to, which is only logged, and `WritePid`, over what is left then). A SIGTERM can be sent from the moment main has blocked it and is taken by
the signal thread as soon as that exists, which is before `worker_init` (`main.c:138-153`); before that it kills. `Join`
of a thread not yet created is a crash (`server.http_listener` is a null pointer). `worker_init` does not ask whether
`pthread_create` succeeds, nor `malloc` for the workers' handles, and only logs a failing `queue_init`
(`threadpool.c:359-431`): `Spawn` may have been refused what it stores, and goes on (`unnoticed`). What is refused is used later:
the handles in the loop that creates the workers and the queues by any thread (`UseRefused`, which may happen, as using a mutex that was never
initialised does not have to crash), a handle that was never assigned in `Join`. The wait room that gets no epoll
calls `server_shutdown` itself and comes to join itself (`WaitRoomGivesUp`, `self`): `pthread_join` returns an
error and `THR_OK` aborts. `Fail` is any error of the system on
the way: a missing certificate, a refused `fork`, `setuid`, a full disk; also a refused `open` of the pid file, which main
reports as "server already running" (`main.c:106-108`) and which is not counted as being taken for a second copy here. `Unlink` may fail:
the server has dropped its privileges when it removes the file it made as root. `raced`, `early`, `self` and `unnoticed` are recorded for the
properties; of them only `self` and `unnoticed` are read by actions. The second of two shutdowns at a time, of a SIGTERM beside the one that
main or the wait room runs, crashes (`TakeTerm`) or waits.
A `sigwait` that fails is left out.

## Checks

| Run | Instance | Shows |
|---|---|---|
| `WorkQueue` | 2 pushers, 2 poppers, a try-popper, 2 slots | types, `NoLostWakeup`, `NoSleeperAfterClose`, the FIFO refinement `RefinesFifo`; the closed queue drains and every popper returns (`ShutdownDrains`), pushers are never all stuck (`PushersProgress`) |
| `ThreadPool_safety` | 4 connections against two queues of one and a worker, a failing `epoll_ctl` | `ExclusiveOwner`, `NoDescriptorLeak`, `PoolMonitored`, `NoPushAfterClose`, and that workers and wait room wait for each other only under such an overload (`CircularWaitNeedsOverload`) |
| `ThreadPool_live` | 2 connections that fit the queues, peers that hang up, a TLS listener with a failing `SSL_new` | a pooled connection with a request reaches a worker unless it expires or its peer hangs up first (`ReadyServed`), and one that has expired leaves the pool (`ExpiredLeaves`) |
| `ThreadPool_shutdown` | 3 connections | a shutdown ends, or is held up for ever by one of the conditions `ShutdownOutcome` names |
| `LogRing` | 2 producers, ring of 4, batches of 2, both logs may fail | `EventsAccounted`, `WakeupsReachLogger`, `BlockedWritersMove`, and `logger_shutdown` ends while the event log is writable (`ShutdownDrains`) |
| `ConnPool` | 3 connections, pool of 2, one event per wait, 2 ticks a second, 5 ticks | the array, the sweep and the timeout keep the promise of `KeepAlive` (`RefinesKeepAlive`); a sweep misses nothing (`SweepFindsAll`); while the wait room sleeps nobody is overdue by `MAX_TICK_MS` (`NoOverstay`) |
| `HttpParse` | all streams of up to four pieces behind three beginnings, cut in every way; fields of one or two bytes, two headers | `PiecesDontMatter`, and the scanner finds what cutting into lines finds (`ParsesByLines`) |
| `Request` | two workers, a TLS client that sends any two of seven requests, or one and a body of any kind, and a plain client with a HEAD; failing and short writes, a file that cannot be mapped | `KeptIsFramed`, `AnswersInOrder`, `WireIsOwn`, `ContextsAccounted` |
| `Config` | files of up to two lines out of fifteen, two for one key; two readers, two reloads | `ReadersSeeOneConfig`, `FileDecides`, `PowerOfTwoSizes`, `ReloadCompletes` |
| `Daemon` | two instances with equal, different or overlapping ports that start and end any number of times, one refusal that goes unnoticed at a time | `PidFileNamesDaemon`, `CrashesHaveCause`, `StaleFileDoesNotBlock` |

Every passing run but `ConnPool` and `Daemon` says CHECK_DEADLOCK FALSE because what it models stops: after a
shutdown, when a stream has been read, or when nobody has anything to do. Whether it stops where it should is what
the liveness properties are about. Clients send again in `ConnPool` and instances start again in
`Daemon`; there a deadlock would be one of the code.

Bounds. Queues of one or two places make full, empty and wrapped the common cases, and
two pushers beside a popper and a try-popper let a woken thread find its slot or its
connection taken. Four descriptors are the least that fill both queues, the worker and the
wait room's hand when the capacity is one, hence `CircularWait`; three are the least for
a push to a full work queue that all workers have left. Without any one of the
conditions of `ShutdownOutcome` other than the circular wait that property fails on its
instance (the circular wait takes a fourth descriptor). `ThreadPool_live` keeps the number of connections
at the capacity because the two sides of a full queue compete for each free place, and no mutex
promises either its turn. A log ring of four has three usable slots and wraps inside a batch
of two. `MaxWrites` bounds the messages of a producer: two each, with the logger's
warnings, fill the ring, block a writer and overtake it; `LogRing_stale` allows three.
A pool of two has a first, a last and an only item, which is all that removal by swapping distinguishes, and a
third connection finds it full or replaces one that has left; `MaxEvents = 1` leaves events for the next wait;
`LastTick` lets deadlines pass before, during and after a sleep and stops the clock, not the
threads. The header buffer (18) is shorter than the longest streams, so that 431 occurs,
and each field has streams that overflow it. Two end marks on a connection (`MaxSent`), with text without one around them, are the least that can be cut off, reordered or answered twice,
and the second client is the least that can be given another's number or its
digits; a HEAD is enough for that. A header is one byte long there: that is enough to be cut. In `Config` a second line is enough to override or fail to override a first; 4 bits have sizes below,
at and above half the range; two reloads make a reader meet a configuration that is freed
after another. Three inodes for two instances: each may hold one without a name. `MaxUnnoticed = 1` lets each refusal meet every state of the other
instance; the proofs are for any number of them. Each instance has two
configurations of its own (`MCConfigs`), which give all three ways in which their ports can meet. Symmetry (connections, workers,
descriptors) is used in runs without liveness properties only.

What is not in an instance: peers hang up in `ThreadPool_live` only, since with them `ThreadPool_safety`
has fourteen times the states (what it checks is proved for every choice of `Faults`); `epoll_ctl` does not fail in `ThreadPool_live`, since
a wait room that closes every connection it takes from a queue that is refilled as fast need never leave its drain loop; the fault `SSL_new` is left out of `ThreadPool_safety`, since a
failing `SSL_new` or `SSL_set_fd` leaks the descriptor (`socket.c:169-181` returns without closing
it) and would violate `NoDescriptorLeak` at once; and `WorkQueue` is run with
`JoinFirst = TRUE`, the close of the work queue, while the proofs cover both values.

Fairness. Weak fairness of each thread's steps: a thread that can run is
scheduled in the end. Nothing makes a peer send, hang up or connect, a producer log, an administrator reload, or
SIGTERM arrive. `ReadyServed` has the premise `PolitePeers`
(no worker reads for ever from a peer that says nothing, or writes for ever to one that does not read), which is an assumption about clients and not about the
code: without it a worker may read or write for ever, the socket being blocking and
without a timeout (`set_socket_timeout` is never called). `ExpiredLeaves` and `ShutdownOutcome` have no such premise: there a
silent peer and a deaf one are two of the ways named. No
deadline has to pass (`Expire` is not fair): a connection that is not served is not saved by
its expiry. `queue_trypop`'s caller is assumed to keep calling it (in `WorkQueue`, which
has no wait room). `ShutdownDrains` of `LogRing` has the premise that from some time on the event
log can be written. In `Config` the steps of a reload that has begun and those of a reader that holds the lock are
fair, taking the lock as a reader is not; that the writer is not starved rests on
`PTHREAD_RWLOCK_PREFER_WRITER_NONRECURSIVE_NP` (`config.c:245-248`), which `MayRead` models. In `Daemon`
only the steps of main are fair: what `StaleFileDoesNotBlock` promises ends when a second
instance, an error or a signal intervenes.

### Where the code does not do what it says

Two runs each have one property that TLC violates; `PROJECT.json` quotes the text.

| Run | What happens |
|---|---|
| `ThreadPool_drain` | the wait room takes the -1 of a closed, empty wait queue for a connection and never leaves its drain loop |
| `LogRing_stale` | a message stored after a wait, with the `next_tail` of before it, is lost |

Others appear as conditions of properties that hold:

* On Linux `close` of the listening socket does not end a blocked `accept()`: the join of the listeners waits for another
  connection on each port (`server.c:335-345`; `AcceptNotWoken` in `ShutdownOutcome`).
* A worker waits for room in a wait queue that has no taker any more
  (`threadpool.c:281`; `KeepAbandoned` in `ShutdownOutcome`).
* Workers break out of their loop with connections queued (`threadpool.c:288`, where `queue_pop`
  would "Clear the queue before shutting down", `threadpool.c:91`), and then
  listener or wait room may wait at the full queue for ever (`PushAbandoned`).
* Workers and wait room wait for room in each other's queue (`CircularWait`).
* No timeout applies to the writing of a response (`http_common.c:258`, `272`): a peer that does not read holds a worker for as long as it likes (`DeafPeer`).
* No timeout applies to the reading of a request (`SilentPeer`), where `keepalive_timeout` is the "Number of
  seconds to wait for a request before closing connection" (`config.h:46`).
* A failed access write discards the event messages of its batch
  (`logger.c:193`; `spoiled` in `EventsAccounted`).
* A writer whose `next_tail` is outdated may go back to sleep beside an empty ring, and the logger may
  block on its own full ring (`logger.c:112`, `192`; the exceptions of `BlockedWritersMove`).
* An unwritable event log keeps the ring supplied with warnings, and `logger_shutdown` never ends
  (`logger.c:200`; the premise of `ShutdownDrains`).
* A request sent behind another in one piece is lost (`http1.c:79`; `skipped` in `AnswersInOrder`), and the body of a request is read as the next
  one (`handler_static.c:160`): it garbles the header behind it, or is answered if it holds an end mark (the exception of `AnswersInOrder`).
* A peek that sees only a beginning of the HTTP/2 preface is compared with the stack (`socket.c:208`), and a request that begins so may be
  answered with 505 (`ShortPeek` in `PiecesDontMatter`).
* A connection is kept although the body was not what was announced: the digits are another
  response's (`util.c:106`), the size is cut to an `int` (`handler_static.c:148`), the file was not mapped
  (`handler_static.c:153`), a write of the header or of the body was short (`http_common.c:264`, `278`), or PUT announced nothing (the
  exceptions of `KeptIsFramed`).
* The closing alert of a TLS connection may be written to another client (`socket.c:231`; the exception of `WireIsOwn`), by a worker or by the wait room. Only
  `Request` looks at it; to `ThreadPool` the number is closed by then.
* Every request after which a connection is kept leaves its context allocated (`threadpool.c:282`; `ContextsAccounted`).
* A reload with a bad line is "Using original value" (`config.c:88`), but the field gets its default and not the value in force, where a start
  with that file would have ended the program (`config.c:84-87`), and `dir_listing` gets whatever `malloc` returned (`config.c:210`). `FileDecides` takes no side: it
  admits either value, but nothing made of the bad line.
* The lock file path loses its last character exactly when that is not the slash which the comment means (`config.c:201-205`).
* A queue size above 32768 becomes 0 (`config.c:198`), where `config.h:92` and `celeritas.conf.dist:54-55` promise the next power of two.
  `PowerOfTwoSizes` is about the sizes up to there.
* "Make sure only one copy of the daemon is running" (`main.c:98`): an instance that opens the pid file just before
  another unlinks it locks a file without a name, and a third with other ports may start beside it (`raced` in `PidFileNamesDaemon`).
* A SIGTERM during `worker_init` crashes the server, and so may, at any time, a thread or queue that was refused and is used all the same (`threadpool.c:359-431`), and
  a wait room that shuts the server down (`io_watcher.c:44-57`; `early`, `unnoticed` and `self` in `CrashesHaveCause`).

## Proofs

`WorkQueue_proofs` proves, from `QueueAssumption` alone (a positive capacity, finitely
many threads, roles that do not overlap), for every number of threads, connections
and slots:

* `TypeCorrect`: `Spec => []TypeOK`. `TypeOK` is inductive.
* `WakeupsSuffice`: `Spec => []NoLostWakeup`. The property reads "if a popper sleeps, at least
  `count` poppers are awake in `queue_pop`; if a pusher sleeps, at least `Capacity - count` are
  awake in `queue_push`". It is stated with the numbers, and not as "not asleep beside work",
  because only so it is inductive: one signal per operation is enough exactly
  because every push that finds a sleeper adds one awake popper for the one
  connection it adds. The lemmas `PushPays` and `TakePays` are that accounting; the
  cardinality facts come from `FiniteSetTheorems`.
* `ShutdownWakesAll`: `Spec => []NoSleeperAfterClose`.
* `QueueIsFifo`: `Spec => RefinesFifo`. The strengthening is `RingInv`: `tail` is `count` slots
  after `head`. Under it a push appends to `Queued` and a pop takes its head.

`ConnPool_proofs` proves, from `ConnPoolAssumption` alone, for every number of connections, every pool size,
every timeout and every granularity of the clock:

* `TypeCorrect`: `Spec => []TypeOK`, of which the interesting conjunct is that no two items have one descriptor.
* `SweepMissesNone`: `Spec => []SweepFindsAll`.
* `ArrayKeepsPromise`: `Spec => RefinesKeepAlive`, the step simulation: `PoolAdd` and `SwapOut` do to the set of pooled
  connections what `KeepAlive` says (lemmas `Added`, `Removed`), and every other step stutters.
* `NobodyOverstays`: `Spec => []NoOverstay`. It needs the strengthening `ShortSleep`: during a sleep the
  wake-up time is less than `MaxTick` after each deadline. That the nearest deadline exists is the
  well-foundedness of the naturals (`LeastExists`).

The inductive invariant `IInv` is needed for each of them. `TypeOK` alone does not say what epoll may
still report: a one-shot event for a descriptor that is not in the array would be handled as if it
were, and a worker could give back a connection that is already there. `IInv` adds that
a connection is in the pool or away but never both (`Places`), and that what is armed or has been reported is in
the pool, what has been reported with input (`Reported`).

`ThreadPool_proofs` proves, from `PoolAssumption` (finitely many threads and descriptors, any capacity,
either behaviour of `accept()`, any faults):

* `TypeCorrect`: `Spec => []TypeOK`.
* `OneOwner`: `Spec => []ExclusiveOwner`, and `PoolAndKernelAgree`: `Spec => []PoolMonitored`. They are proved together: a
  connection that epoll reports moves from the pool to the work queue, so that what is armed must be in the pool, and what is in
  the pool nowhere else. `ExclusiveOwner` counts copies; the inductive form (`Exclusive`) speaks of the six *places* where a
  descriptor can be (`Owned`: two queues, the pool, the variables of listeners, workers and wait room): none holds one
  twice, no two share one, none holds a closed one. An action then is a move between two places. Both hold
  until the wait room drains a closed queue (`DrainsClosed`): what it takes there is the content
  of a variable nobody has set.
* `NoneForgotten`: `Spec => []NoDescriptorLeak`, under the hypothesis that `SSL_new` does not fail or there is no TLS listener.
  The code leaks the descriptor when it does fail. The invariant (`NoneLost`) is separate from the first, because it holds while
  a closed queue is drained too.
* `NothingPushedLate`: `Spec => NoPushAfterClose`. It needs the order of the shutdown (`Stages`, theorem `StagesInOrder`).
* `CircleNeedsOverload`: `Spec => []CircularWaitNeedsOverload`: by `OneOwner` the connections that a circle of waiting
  threads holds are different ones, so that they can be counted. The bound is the same for all sizes.

`LogRing_proofs` proves, from `LogAssumption`, for every ring, batch and number of threads:

* `TypeCorrect`: `Spec => []TypeOK`. This is less obvious than it looks. An outdated `next_tail` may put the tail anywhere, and the
  logger would take out slots that were never written, if the ring could be part empty and part unwritten at that moment. `SlotsWritten`
  says why it cannot: as long as some slot has not been written, writers wait at the last slot only, so that an outdated
  `next_tail` is 0 and every slot has been written when it is used.
* `NobodyOverslept`: `Spec => []WakeupsReachLogger`.
* `EventsInOrder`: `Spec => []EventsAccounted`. The batch and the ring are one sequence of which a store appends (`QueuedStored`), a
  grab cuts off the beginning (`QueuedTaken`) and a write forgets the batch. `OwedOnce` is needed for the last of these: no event message
  is owed twice, since each is younger than what its writer has stored before (`Waiting`).

`Request_proofs` proves, from `RequestAssumption`, for every number of workers, connections, descriptors and requests, every menu
of requests and every fault:

* `TypeCorrect`: `Spec => []TypeOK`.
* `OwnWire`: `Spec => []WireIsOwn`. Open connections have different numbers (`Numbers`), so that a worker which serves one
  (`Served`) reaches no other, and what the wait room has still to shut down is closed (`Ending`).
* `OrderedAnswers`: `Spec => []AnswersInOrder`. A request is in exactly one stage: waiting in the socket buffer, with
  the one worker of its connection, answered, or skipped. The invariant orders the stages (`InboxOrder`, `AnswerOrder`: what is answered
  is before what is being answered, and that before what waits; `InOrder`, `Unanswered`) and says that none is lost on the way while the connection is open (`Covered`). All of it
  is about end marks and not about requests, so that bodies need no case of their own.
  What `read_http_headers` does to the buffer is the lemma `HeaderRead`.
* `FramedWhenKept`: `Spec => []KeptIsFramed`. `Framed` follows the announced length through `int_to_string`, the
  copy and the send (`Ready`, `Fits`), and the announcement until `should_keep_alive` reads it again (`Told`).
* `AccountedContexts`: `Spec => []ContextsAccounted`.

`HttpParse_proofs` proves, from `ParseAssumption` (positive limits, streams that are sequences), for every set of streams and all limits:

* `TypeCorrect`: `Spec => []TypeOK`. No field outgrows its array: `Step` takes a state of `Bounded` to one (`StepBounded`), and so does
  a run of it over any sequence (`ParseBounded`). `Bounded` says also that there is room for a header more as long as headers are taken.
* `TakesWholeHeader`: `Spec => []PiecesDontMatter`. The end mark of the bytes read so far is that of the stream, or there is
  none (`MarkOfBeginning`), and as long as the search goes on none has been passed (`NothingYet`).
* `ReadsLines`: `Spec => []ParsesByLines`, which is `ParserIsRight` for the bytes that were read: the parser is correct for every
  input. `Scan` names a state of the parser by its fields. One lemma for each part of the text says what its field has taken in
  after each byte (`MethodPart` ... `ValuePart`), `HeaderLine` puts those of a line together, `LastLine`
  and `LinePart` say that a line without a colon, or without an end, adds nothing, and `HeadersPart` goes from line end to line end.

`Process_proofs` is about the two halves of the process outside of its threads. Of `Daemon` it proves, from `DaemonAssumption`, for any
number of instances, started any number of times:

* `PidFileIsRight`: `Spec => []PidFileNamesDaemon`, and `OneDaemon` as its consequence. The invariant relates who holds which port, which
  inode is locked, which inode the name refers to and what is stored in it (`Claims`, `Locks`, `Names`, `Stored`).
* `CrashesAreExplained`: `Spec => CrashesHaveCause`. What makes it inductive is `Shutdowns`: a shutdown that is neither early nor the wait room's own
  finds every part of `server` stored, so that a crash needs one of them to have been refused.
* `LonelyStarts`: `Spec => NotTakenForSecond`, the safety half of `StaleFileDoesNotBlock`.

Of `Config` it proves, from `ConfigAssumption` (integers of 1 to 16 and twice as many bits, files that are sequences of `Lines`, defaults of
the types of their fields, string fields with room for the terminating zero), for every set of files, any number of readers and of reloads:

* `RoundsUp`: `next_power_of_2` of a 16-bit number (a size in `config_data` is one) is the least power of two not below it, and 1 of 0. The
  powers are those the recursive function `Pow2` gives (`RecursionExists` shows that such a function exists). The highest bit `h` of a number is
  the only one that counts: after smearing by 1, 2, 4, 8 and 16 the bits are all of `0 .. h`, because 32 bits are covered, and
  their sum is `Pow2[h + 1] - 1`.
* `TypeCorrect`: `ConfigSpec => []TypeOK`, of which the interesting conjunct says which configurations have been freed.
* `ReadersKeepOne`: `ConfigSpec => []ReadersSeeOneConfig`. What makes it inductive is `Readership`: whoever has looked holds the lock and has seen
  the current configuration only. The writer swaps when nobody holds the lock.
* `FileIsInForce`: `ConfigSpec => []FileDecides`, and `SizesArePowers`: `ConfigSpec => []PowerOfTwoSizes`. Every configuration in the heap is
  `Made` of the file it is `from` (`ConfigTypes`), the first with a cleared flag (`Kept`); what that is, the lemma `ParseFollowsLines` shows by induction over
  the lines: after each, a field has the value of the last good line for its key so far, or its default.

The invariant of these four is `ConfigInv`; its conjunct `CurrentIsLast` says that the current configuration is the last one
allocated, or the last but one while a reload waits for the lock, which is what makes `FreeOld` free the right one.

`Selection_proofs` is the library the others share. Induction theorems with an operator parameter are out of the provers' reach, but
the least member of a set of naturals is not (`LeastExists`, from `WFMin`): `Induction` and `SeqInduction` take the *set* of the
values for which something is true in the place of a predicate. With them the recursive function `Selected` is
shown to exist, and `Select` to preserve the type, the order and the distinctness of the members, and to
distribute over `\o` (`SelectConcat`). `Select` stands in the place of `SelectSeq`, which the provers know without a definition.

In every module the inductive invariant (`IInv`, `ConfigInv`) was an invariant of a run before it was proved.

Every invariant of every run is the statement of a theorem, and so are the refinements, `NoPushAfterClose` and `CrashesHaveCause`. Only model-checked is liveness (`ShutdownDrains`,
`PushersProgress`, `ReadyServed`, `ExpiredLeaves`, `ShutdownOutcome`, `BlockedWritersMove`, `ReloadCompletes`, `StaleFileDoesNotBlock`): fairness
needs ENABLED, which is beyond the prover.

## Plan

The plan is carried out: the modules above cover the code that keeps state, and every invariant that a run checks is proved. One
extension would say more: `util.c` could be modelled as far as paths are concerned; `resolve_path` is a choice of results in `Request`.

## Not modelled

* Text: log messages, dates, status lines, MIME types, `resolve_path`, `trim_whitespace`, the command line. They
  turn strings into strings.
* `getaddrinfo`, `setuid`, `fork`, TLS contexts: calls without a state of this program; each is a step that may fail.
* The kqueue half of `io_watcher.c`: taken to do what the epoll half does.
* The freeing of the queues at the end of `server_shutdown`, followed at once by `exit`.
* Short writes of the log (`logger.c:197`); a file that shrinks while it is mapped; a clock that is set
  back (`time()` in `io_watcher.c:212`): conditions of the surroundings the code does not look at.
* Sizes that are read twice: `wait_room_thread` reads `conn_queue_size` again (`threadpool.c:150`) after `worker_init`
  has (`threadpool.c:345`). A reload in between makes the pool and the queues different in size; `ThreadPool` has one size
  for both, and `ConnPool` looks at the pool alone.
* The empty HTTP/2 and dynamic handlers.
