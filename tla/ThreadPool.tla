----------------------------- MODULE ThreadPool -----------------------------
(***************************************************************************)
(* The threads of Celeritas and the life of a connection through them:     *)
(*                                                                         *)
(*   listener --work queue--> worker --wait queue--> wait room             *)
(*                 ^                                  | (pool + epoll)     *)
(*                 +----------------------------------+                    *)
(*                                                                         *)
(* src/src/threadpool.c (worker_thread, listener_thread, wait_room_thread),*)
(* io_watcher.c, accept_connection and close_connection of socket.c, and   *)
(* server_shutdown of server.c, run by the signal handler thread.          *)
(*                                                                         *)
(* A connection is its file descriptor: accept() hands out any descriptor  *)
(* that is not open, so a closed one comes back as another connection. The *)
(* two queues are the bounded FIFOs of BoundedFifo (WorkQueue shows that   *)
(* work_queue_t implements it and that no wakeup is lost): a blocked call  *)
(* is an action that is not enabled.                                       *)
(***************************************************************************)
EXTENDS Integers, FiniteSets, Sequences, SequencesExt, Selection

CONSTANTS
  Fds,            \* file descriptors available for connections
  Workers,        \* worker threads (worker_threads)
  Listeners,      \* listener threads, one per port
  TlsListeners,   \* those that create an SSL object per connection
  QueueCap,       \* conn_queue_size: capacity of both queues and of the pool
  AcceptWakes,    \* close() of a listening socket ends a blocked accept()
                  \* (TRUE on macOS and BSD, FALSE on Linux)
  Faults,         \* what may go wrong: calls that fail, peers that hang up
  NoFd            \* no connection; also the content of an unset local

ASSUME PoolAssumption ==
  /\ QueueCap \in Nat \ {0}
  /\ TlsListeners \subseteq Listeners
  /\ AcceptWakes \in BOOLEAN
  /\ Faults \subseteq {"SSL_new", "epoll_ctl", "hang_up"}
  /\ NoFd \notin Fds
  /\ IsFiniteSet(Fds) /\ IsFiniteSet(Workers) /\ IsFiniteSet(Listeners)

VARIABLES
  open,        \* descriptors that are open
  request,     \* open connections with an unread request
  gone,        \* open connections whose peer has closed
  armed,       \* descriptors armed in the epoll instance
  expired,     \* connections whose keepalive_deadline has passed
  workQ, waitQ,            \* the queued connections
  waitClosed, workClosed,  \* shutting_down of the wait and the work queue
  shutting_down,           \* the global flag
  lpc, lconn,  \* per listener: program counter, local conn
  listening,   \* per listener: its socket has not been closed
  wpc, wconn,  \* per worker: program counter, local conn
  wr,          \* program counter of the wait room thread
  drained,     \* its local conn, filled by queue_trypop
  active,      \* its local active_conn
  events,      \* its batch of events, [fd, is_error] records
  pool,        \* its conn_pool_t: the connections it monitors
  sd           \* program counter of server_shutdown

client == <<request, gone>>
kernel == <<open, request, gone, armed, expired>>
queues == <<workQ, waitQ, waitClosed, workClosed>>
listener == <<lpc, lconn, listening>>
worker == <<wpc, wconn>>
waitroom == <<wr, drained, active, events, pool>>
shutdown == <<shutting_down, sd>>
vars == <<kernel, queues, listener, worker, waitroom, shutdown>>

Readable == request \cup gone

(* close_connection on every descriptor of F (close() of one that is not   *)
(* open does nothing). The kernel forgets what it knew of it, its epoll    *)
(* registration included.                                                  *)
CloseConns(F) ==
  /\ open' = open \ F
  /\ request' = request \ F
  /\ gone' = gone \ F
  /\ armed' = armed \ F
  /\ expired' = expired \ F

-----------------------------------------------------------------------------
(***************************************************************************)
(* Mistakes this code could have: each is a definition below with one      *)
(* thing wrong, and breaks a property stated at the end.                   *)
(***************************************************************************)

(* worker_thread without the "continue" after queue_push: it falls through *)
(* to cleanup and closes the connection it has just queued.                *)
KeepAliveThenCleanup(w) ==
  /\ wpc[w] = "keep" /\ Len(waitQ) < QueueCap
  /\ waitQ' = Append(waitQ, wconn[w])
  /\ wpc' = [wpc EXCEPT ![w] = "pop"]
  /\ wconn' = [wconn EXCEPT ![w] = NoFd]
  /\ CloseConns({wconn[w]})
  /\ UNCHANGED <<workQ, waitClosed, workClosed, listener, waitroom, shutdown>>

(* pool_add without the test of the capacity.                              *)
MonitorUnbounded(f) ==
  \/ /\ f \in open
     /\ pool' = Append(pool, f) /\ armed' = armed \cup {f}
     /\ UNCHANGED <<open, request, gone, expired>>
  \/ /\ f \notin open \/ "epoll_ctl" \in Faults
     /\ CloseConns({f}) /\ UNCHANGED pool

(* A full pool: the connection is dropped and not closed.                  *)
MonitorDropsWhenFull(f) ==
  IF Len(pool) >= QueueCap
  THEN UNCHANGED <<kernel, pool>>
  ELSE \/ /\ f \in open
          /\ pool' = Append(pool, f) /\ armed' = armed \cup {f}
          /\ UNCHANGED <<open, request, gone, expired>>
       \/ /\ f \notin open \/ "epoll_ctl" \in Faults
          /\ CloseConns({f}) /\ UNCHANGED pool

(* io_watcher_add fails and the connection stays in the pool.              *)
MonitorKeepsUnwatched(f) ==
  IF Len(pool) >= QueueCap
  THEN CloseConns({f}) /\ UNCHANGED pool
  ELSE /\ pool' = Append(pool, f)
       /\ \/ /\ f \in open
             /\ armed' = armed \cup {f}
             /\ UNCHANGED <<open, request, gone, expired>>
          \/ /\ f \notin open \/ "epoll_ctl" \in Faults
             /\ CloseConns({f})

(* No EPOLL_CTL_MOD after EEXIST: a connection that comes around is not    *)
(* armed again.                                                            *)
MonitorNotRearmed(f) ==
  IF Len(pool) >= QueueCap
  THEN CloseConns({f}) /\ UNCHANGED pool
  ELSE /\ pool' = Append(pool, f)
       /\ UNCHANGED kernel

(* pool_sweep_expired closes the expired connections and keeps them.       *)
SweepKeepsClosed ==
  /\ wr = "events" /\ events = {}
  /\ CloseConns(ToSet(pool) \cap expired)
  /\ wr' = "check"
  /\ UNCHANGED <<queues, listener, worker, drained, active, events, pool, shutdown>>

(* The work queue is closed without joining the wait room first ...        *)
JoinWaitRoomEarly ==
  /\ sd = "joinWaitRoom"
  /\ sd' = "joinWorkers" /\ workClosed' = TRUE
  /\ UNCHANGED <<kernel, workQ, waitQ, waitClosed, listener, worker, waitroom, shutting_down>>

(* ... or is not closed at all.                                            *)
JoinWaitRoomOnly ==
  /\ sd = "joinWaitRoom" /\ wr = "exit"
  /\ sd' = "joinWorkers"
  /\ UNCHANGED <<kernel, queues, listener, worker, waitroom, shutting_down>>

-----------------------------------------------------------------------------
Init ==
  /\ open = {} /\ request = {} /\ gone = {} /\ armed = {} /\ expired = {}
  /\ workQ = << >> /\ waitQ = << >> /\ waitClosed = FALSE /\ workClosed = FALSE
  /\ shutting_down = FALSE
  /\ lpc = [l \in Listeners |-> "check"]
  /\ lconn = [l \in Listeners |-> NoFd]
  /\ listening = [l \in Listeners |-> TRUE]
  /\ wpc = [w \in Workers |-> "pop"]
  /\ wconn = [w \in Workers |-> NoFd]
  /\ wr = "check" /\ drained = NoFd /\ active = NoFd
  /\ events = {} /\ pool = << >>
  /\ sd = "run"

-----------------------------------------------------------------------------
(* The world outside: peers send a request or hang up, time passes.        *)
SendRequest(f) ==
  /\ f \in open \ Readable
  /\ request' = request \cup {f}
  /\ UNCHANGED <<open, gone, armed, expired, queues, listener, worker, waitroom, shutdown>>

HangUp(f) ==
  /\ f \in open \ gone /\ "hang_up" \in Faults
  /\ gone' = gone \cup {f}
  /\ UNCHANGED <<open, request, armed, expired, queues, listener, worker, waitroom, shutdown>>

(* The deadline of a connection kept alive passes while it is on its way   *)
(* to the wait room or there.                                              *)
KeptAlive(f) ==
  \/ f \in ToSet(waitQ) \cup ToSet(pool)
  \/ \E w \in Workers : wpc[w] = "keep" /\ wconn[w] = f

Expire(f) ==
  /\ f \in open \ expired /\ KeptAlive(f)
  /\ expired' = expired \cup {f}
  /\ UNCHANGED <<open, request, gone, armed, queues, listener, worker, waitroom, shutdown>>

-----------------------------------------------------------------------------
(* listener_thread. while (!shutting_down) ...                             *)
ListenerCheck(l) ==
  /\ lpc[l] = "check"
  /\ lpc' = [lpc EXCEPT ![l] = IF shutting_down THEN "exit" ELSE "accept"]
  /\ UNCHANGED <<kernel, queues, lconn, listening, worker, waitroom, shutdown>>

(* accept() on a socket closed meanwhile fails at once; accept_connection  *)
(* and the loop then see shutting_down.                                    *)
CallAccept(l) ==
  /\ lpc[l] = "accept"
  /\ lpc' = [lpc EXCEPT ![l] = IF listening[l] THEN "blocked" ELSE "exit"]
  /\ UNCHANGED <<kernel, queues, lconn, listening, worker, waitroom, shutdown>>

(* A peer connects. The pending accept() keeps a closed socket alive.      *)
Accept(l, f) ==
  /\ lpc[l] = "blocked" /\ f \notin open
  /\ open' = open \cup {f}
  /\ lpc' = [lpc EXCEPT ![l] = "accepted"]
  /\ lconn' = [lconn EXCEPT ![l] = f]
  /\ UNCHANGED <<request, gone, armed, expired, queues, listening, worker, waitroom, shutdown>>

(* accept() fails: no descriptor is left (sleep and try again), or the     *)
(* socket was closed under it on a system where that ends the call.        *)
AcceptFails(l) ==
  /\ lpc[l] = "blocked"
  /\ Fds \subseteq open \/ (AcceptWakes /\ ~listening[l])
  /\ lpc' = [lpc EXCEPT ![l] = "check"]
  /\ UNCHANGED <<kernel, queues, lconn, listening, worker, waitroom, shutdown>>

(* SSL_new or SSL_set_fd fails: accept_connection returns -1 with the      *)
(* descriptor open, and the loop sleeps and forgets it.                    *)
SslFails(l) ==
  /\ lpc[l] = "accepted" /\ l \in TlsListeners /\ "SSL_new" \in Faults
  /\ ~shutting_down
  /\ lpc' = [lpc EXCEPT ![l] = "check"]
  /\ lconn' = [lconn EXCEPT ![l] = NoFd]
  /\ UNCHANGED <<kernel, queues, listening, worker, waitroom, shutdown>>

(* Back from accept_connection: queue the connection, or drop it if the    *)
(* server is shutting down.                                                *)
Accepted(l) ==
  /\ lpc[l] = "accepted"
  /\ IF shutting_down
     THEN /\ CloseConns({lconn[l]})
          /\ lpc' = [lpc EXCEPT ![l] = "exit"]
          /\ lconn' = [lconn EXCEPT ![l] = NoFd]
     ELSE /\ lpc' = [lpc EXCEPT ![l] = "push"]
          /\ UNCHANGED <<kernel, lconn>>
  /\ UNCHANGED <<queues, listening, worker, waitroom, shutdown>>

ListenerPush(l) ==
  /\ lpc[l] = "push" /\ Len(workQ) < QueueCap
  /\ workQ' = Append(workQ, lconn[l])
  /\ lpc' = [lpc EXCEPT ![l] = "check"]
  /\ lconn' = [lconn EXCEPT ![l] = NoFd]
  /\ UNCHANGED <<kernel, waitQ, waitClosed, workClosed, listening, worker, waitroom, shutdown>>

-----------------------------------------------------------------------------
(* worker_thread. queue_pop on the work queue.                             *)
WorkerPop(w) ==
  /\ wpc[w] = "pop" /\ workQ # << >>
  /\ wconn' = [wconn EXCEPT ![w] = Head(workQ)]
  /\ workQ' = Tail(workQ)
  /\ wpc' = [wpc EXCEPT ![w] = "serve"]
  /\ UNCHANGED <<kernel, waitQ, waitClosed, workClosed, listener, waitroom, shutdown>>

WorkerStops(w) ==
  /\ wpc[w] = "pop" /\ workQ = << >> /\ workClosed
  /\ wpc' = [wpc EXCEPT ![w] = "exit"]
  /\ UNCHANGED <<kernel, queues, listener, wconn, waitroom, shutdown>>

Release(w, to) ==
  /\ CloseConns({wconn[w]})
  /\ wpc' = [wpc EXCEPT ![w] = to]
  /\ wconn' = [wconn EXCEPT ![w] = NoFd]

(* Reading blocks until the peer has sent something or has hung up (and    *)
(* fails on a closed descriptor). No handshake, no request or a bad header:*)
(* goto cleanup.                                                           *)
ServeFails(w) ==
  /\ wpc[w] = "serve" /\ wconn[w] \in Readable \cup (Fds \ open)
  /\ Release(w, "pop")
  /\ UNCHANGED <<queues, listener, waitroom, shutdown>>

(* Whether the connection is kept alive depends on the request, the        *)
(* response and what the write returned (a short one counts as a success). *)
Answered(w) ==
  \/ /\ wpc' = [wpc EXCEPT ![w] = "keep"]       \* keepalive_deadline is set
     /\ expired' = expired \ {wconn[w]}
  \/ /\ wpc' = [wpc EXCEPT ![w] = "drop"]
     /\ UNCHANGED expired

(* A request is read. Its answer is written at once if the kernel has room *)
(* for it; otherwise conn_write blocks, and has no timeout.                *)
Serve(w) ==
  /\ wpc[w] = "serve" /\ wconn[w] \in request
  /\ request' = request \ {wconn[w]}
  /\ \/ Answered(w)
     \/ wpc' = [wpc EXCEPT ![w] = "write"] /\ UNCHANGED expired
  /\ UNCHANGED <<open, gone, armed, queues, listener, wconn, waitroom, shutdown>>

(* The write returns, of an answer or of the error for a bad header, which *)
(* goes to cleanup.                                                        *)
Written(w) ==
  /\ wpc[w] = "write"
  /\ \/ Answered(w) /\ UNCHANGED <<open, request, gone, armed, wconn>>
     \/ Release(w, "pop")
  /\ UNCHANGED <<queues, listener, waitroom, shutdown>>

(* The peer hung up while its answer was being written.                    *)
WriteEnds(w) == wconn[w] \in gone /\ Written(w)

(* The peer reads its answer, which lets the write go on to its end: a step*)
(* of the peer.                                                            *)
ReadAnswer(w) == wconn[w] \notin gone /\ Written(w)

(* queue_push on the wait queue; shutting_down is not looked at.           *)
KeepAlive(w) ==
  /\ wpc[w] = "keep" /\ Len(waitQ) < QueueCap
  /\ waitQ' = Append(waitQ, wconn[w])
  /\ wpc' = [wpc EXCEPT ![w] = "pop"]
  /\ wconn' = [wconn EXCEPT ![w] = NoFd]
  /\ UNCHANGED <<kernel, workQ, waitClosed, workClosed, listener, waitroom, shutdown>>

(* Not kept alive: close it, and break out of the loop if shutting down.   *)
Drop(w) ==
  /\ wpc[w] = "drop"
  /\ Release(w, IF shutting_down THEN "exit" ELSE "pop")
  /\ UNCHANGED <<queues, listener, waitroom, shutdown>>

-----------------------------------------------------------------------------
(* wait_room_thread. while (!shutting_down): an iteration starts with conn *)
(* unset, which in practice leaves its old value or anything else.         *)
WaitRoomCheck ==
  /\ wr = "check"
  /\ IF shutting_down
     THEN /\ wr' = "exit" /\ pool' = << >> /\ armed' = {} /\ drained' = NoFd
     ELSE /\ wr' = "drain" /\ drained' \in {drained, NoFd}
          /\ UNCHANGED <<pool, armed>>
  /\ UNCHANGED <<open, request, gone, expired, queues, listener, worker, active, events, shutdown>>

(* The body of the drain loop for connection f: add it to the pool and to  *)
(* epoll. EPOLL_CTL_ADD fails on a closed descriptor; on a registered one  *)
(* it re-arms.                                                             *)
Monitor(f) ==
  IF Len(pool) >= QueueCap
  THEN CloseConns({f}) /\ UNCHANGED pool
  ELSE \/ /\ f \in open
          /\ pool' = Append(pool, f)
          /\ armed' = armed \cup {f}
          /\ UNCHANGED <<open, request, gone, expired>>
       \/ /\ f \notin open \/ "epoll_ctl" \in Faults
          /\ pool' = RemoveFirst(Append(pool, f), f)
          /\ CloseConns({f})

DrainOne ==
  /\ wr = "drain" /\ waitQ # << >>
  /\ waitQ' = Tail(waitQ)
  /\ drained' = Head(waitQ)
  /\ Monitor(Head(waitQ))
  /\ UNCHANGED <<workQ, waitClosed, workClosed, listener, worker, wr, active, events, shutdown>>

(* queue_trypop returns 1: the wait queue is empty.                        *)
DrainDone ==
  /\ wr = "drain" /\ waitQ = << >> /\ ~waitClosed
  /\ wr' = "wait"
  /\ UNCHANGED <<kernel, queues, listener, worker, drained, active, events, pool, shutdown>>

(* queue_trypop returns -1: empty and shutting down. -1 # 1, so the loop   *)
(* runs its body on whatever conn holds, and goes round again.             *)
DrainStale ==
  /\ wr = "drain" /\ waitQ = << >> /\ waitClosed
  /\ IF drained = NoFd THEN UNCHANGED <<kernel, pool>> ELSE Monitor(drained)
  /\ UNCHANGED <<queues, listener, worker, wr, drained, active, events, shutdown>>

(* io_watcher_wait: every armed readable descriptor is reported once and   *)
(* disarmed (EPOLLONESHOT), with is_error only if its peer has gone. No    *)
(* readable one: the call times out.                                       *)
Wait ==
  /\ wr = "wait"
  /\ LET ready == armed \cap Readable
     IN  /\ \E errors \in SUBSET (ready \cap gone) :
              events' = {[fd |-> f, is_error |-> f \in errors] : f \in ready}
         /\ armed' = armed \ ready
  /\ wr' = "events"
  /\ UNCHANGED <<open, request, gone, expired, queues, listener, worker, drained, active, pool, shutdown>>

(* One event: take the connection out of the pool; close it, or go and     *)
(* push it to the work queue.                                              *)
HandleEvent(e) ==
  /\ wr = "events" /\ e \in events
  /\ events' = events \ {e}
  /\ pool' = RemoveFirst(pool, e.fd)
  /\ IF e.fd \in ToSet(pool) /\ ~e.is_error
     THEN wr' = "push" /\ active' = e.fd
     ELSE UNCHANGED <<wr, active>>
  /\ IF e.fd \in ToSet(pool) /\ e.is_error
     THEN CloseConns({e.fd})
     ELSE UNCHANGED kernel
  /\ UNCHANGED <<queues, listener, worker, drained, shutdown>>

WaitRoomPush ==
  /\ wr = "push" /\ Len(workQ) < QueueCap
  /\ workQ' = Append(workQ, active)
  /\ wr' = "events" /\ active' = NoFd
  /\ UNCHANGED <<kernel, waitQ, waitClosed, workClosed, listener, worker, drained, events, pool, shutdown>>

(* No event left: pool_sweep_expired. (The order of the array, which the   *)
(* sweep changes, is not told apart.)                                      *)
Sweep ==
  /\ wr = "events" /\ events = {}
  /\ pool' = Select(pool, Fds \ expired)
  /\ CloseConns(ToSet(pool) \cap expired)
  /\ wr' = "check"
  /\ UNCHANGED <<queues, listener, worker, drained, active, events, shutdown>>

-----------------------------------------------------------------------------
(* server_shutdown, on SIGTERM: one action per step it takes.              *)
SigTerm ==
  /\ sd = "run"
  /\ sd' = "closeSockets" /\ shutting_down' = TRUE
  /\ UNCHANGED <<kernel, queues, listener, worker, waitroom>>

CloseSockets ==
  /\ sd = "closeSockets"
  /\ sd' = "joinListeners"
  /\ listening' = [l \in Listeners |-> FALSE]
  /\ UNCHANGED <<kernel, queues, lpc, lconn, worker, waitroom, shutting_down>>

JoinListeners ==
  /\ sd = "joinListeners"
  /\ \A l \in Listeners : lpc[l] = "exit"
  /\ sd' = "joinWaitRoom" /\ waitClosed' = TRUE
  /\ UNCHANGED <<kernel, workQ, waitQ, workClosed, listener, worker, waitroom, shutting_down>>

JoinWaitRoom ==
  /\ sd = "joinWaitRoom"
  /\ wr = "exit"
  /\ sd' = "joinWorkers" /\ workClosed' = TRUE
  /\ UNCHANGED <<kernel, workQ, waitQ, waitClosed, listener, worker, waitroom, shutting_down>>

JoinWorkers ==
  /\ sd = "joinWorkers"
  /\ \A w \in Workers : wpc[w] = "exit"
  /\ sd' = "exited"
  /\ UNCHANGED <<kernel, queues, listener, worker, waitroom, shutting_down>>

-----------------------------------------------------------------------------
ListenerStep(l) ==
  \/ ListenerCheck(l) \/ CallAccept(l) \/ AcceptFails(l)
  \/ SslFails(l) \/ Accepted(l) \/ ListenerPush(l)

WorkerStep(w) ==
  \/ WorkerPop(w) \/ WorkerStops(w) \/ ServeFails(w) \/ Serve(w) \/ WriteEnds(w)
  \/ KeepAlive(w) \/ Drop(w)

WaitRoomStep ==
  \/ WaitRoomCheck \/ DrainOne \/ DrainDone \/ DrainStale \/ Wait
  \/ (\E e \in events : HandleEvent(e)) \/ WaitRoomPush \/ Sweep

ShutdownStep == CloseSockets \/ JoinListeners \/ JoinWaitRoom \/ JoinWorkers

Next ==
  \/ \E l \in Listeners : ListenerStep(l)
  \/ \E l \in Listeners, f \in Fds : Accept(l, f)
  \/ \E w \in Workers : WorkerStep(w) \/ ReadAnswer(w)
  \/ WaitRoomStep
  \/ SigTerm \/ ShutdownStep
  \/ \E f \in Fds : SendRequest(f) \/ HangUp(f) \/ Expire(f)

(* Every thread that can run is eventually scheduled.                      *)
Fairness ==
  /\ \A l \in Listeners : WF_vars(ListenerStep(l))
  /\ \A w \in Workers : WF_vars(WorkerStep(w))
  /\ WF_vars(WaitRoomStep)
  /\ WF_vars(ShutdownStep)

Spec == Init /\ [][Next]_vars

FairSpec == Spec /\ Fairness

-----------------------------------------------------------------------------
(* Every variable has its type; a thread that carries a connection from one*)
(* step to the next has one.                                               *)
TypeOK ==
  /\ open \subseteq Fds
  /\ request \subseteq open /\ gone \subseteq open
  /\ armed \subseteq open /\ expired \subseteq open
  /\ workQ \in Seq(Fds) /\ Len(workQ) <= QueueCap
  /\ waitQ \in Seq(Fds) /\ Len(waitQ) <= QueueCap
  /\ waitClosed \in BOOLEAN /\ workClosed \in BOOLEAN /\ shutting_down \in BOOLEAN
  /\ lpc \in [Listeners -> {"check", "accept", "blocked", "accepted", "push", "exit"}]
  /\ lconn \in [Listeners -> Fds \cup {NoFd}]
  /\ listening \in [Listeners -> BOOLEAN]
  /\ wpc \in [Workers -> {"pop", "serve", "write", "keep", "drop", "exit"}]
  /\ wconn \in [Workers -> Fds \cup {NoFd}]
  /\ wr \in {"check", "drain", "wait", "events", "push", "exit"}
  /\ drained \in Fds \cup {NoFd} /\ active \in Fds \cup {NoFd}
  /\ events \subseteq [fd : Fds, is_error : BOOLEAN]
  /\ pool \in Seq(Fds) /\ Len(pool) <= QueueCap
  /\ sd \in {"run", "closeSockets", "joinListeners", "joinWaitRoom", "joinWorkers", "exited"}
  /\ \A l \in Listeners : lconn[l] = NoFd <=> lpc[l] \notin {"accepted", "push"}
  /\ \A w \in Workers : wconn[w] = NoFd <=> wpc[w] \in {"pop", "exit"}
  /\ active = NoFd <=> wr # "push"

(* How many copies of connection f the queues, the pool and the threads    *)
(* hold.                                                                   *)
Copies(f) ==
  LET In(s) == Cardinality({i \in DOMAIN s : s[i] = f})
      Held(local) == Cardinality({t \in DOMAIN local : local[t] = f})
  IN  In(workQ) + In(waitQ) + In(pool) + Held(lconn) + Held(wconn)
      + (IF active = f THEN 1 ELSE 0)

(***************************************************************************)
(* ExclusiveOwner (all three thread functions, close_connection): unless   *)
(* the wait room drains a queue that is closed, which it then does for     *)
(* ever, a connection is in one place only, and nowhere once its descriptor*)
(* is closed. So no descriptor is closed twice or used after it was closed,*)
(* when the number may already be another connection's.                    *)
(***************************************************************************)
DrainsClosed == waitClosed /\ wr = "drain"

ExclusiveOwner ==
  ~DrainsClosed => \A f \in Fds : Copies(f) <= (IF f \in open THEN 1 ELSE 0)

(* NoDescriptorLeak (same code): while the wait room runs every open       *)
(* descriptor is held somewhere, so that it can still be closed.           *)
NoDescriptorLeak == wr # "exit" => \A f \in open : Copies(f) > 0

(***************************************************************************)
(* PoolMonitored (wait_room_thread, io_watcher_add, io_watcher_wait): the  *)
(* pool and the kernel agree. A pooled connection is armed or its event is *)
(* being handled, never both; nothing else is armed. So no pooled          *)
(* connection goes unwatched and no event names a connection not pooled.   *)
(***************************************************************************)
PoolMonitored ==
  ~DrainsClosed =>
    LET fired == {e.fd : e \in events}
    IN  /\ ToSet(pool) = armed \cup fired
        /\ armed \cap fired = {}

(***************************************************************************)
(* CircularWait: all workers wait for room in the wait queue, which only   *)
(* the wait room makes; the wait room waits for room in the work queue,    *)
(* which only the workers make.                                            *)
(* CircularWaitNeedsOverload (queue_push in worker_thread and              *)
(* wait_room_thread): that takes more open connections than both queues    *)
(* and all workers hold together.                                          *)
(***************************************************************************)
CircularWait ==
  /\ Len(workQ) = QueueCap /\ wr = "push"
  /\ Len(waitQ) = QueueCap /\ \A w \in Workers : wpc[w] = "keep"

CircularWaitNeedsOverload ==
  CircularWait => Cardinality(open) > 2 * QueueCap + Cardinality(Workers)

(* NoPushAfterClose (server_shutdown): the wait queue is closed only when no  *)
(* listener can push, the work queue only when the wait room cannot either.*)
(* A connection is therefore never queued for workers told to stop.        *)
NoPushAfterClose ==
  [][workClosed => (Len(workQ') <= Len(workQ) /\ open' \subseteq open)]_vars

(* A worker reads from a peer that says nothing, or waits for room in a    *)
(* write to one that does not read. PolitePeers hold up no worker for ever:*)
(* an assumption of one property, not part of the specification.           *)
SilentPeer(w) == wpc[w] = "serve" /\ wconn[w] \in open \ Readable

DeafPeer(w) == wpc[w] = "write" /\ wconn[w] \notin gone

PolitePeers == \A w \in Workers : []<>~(SilentPeer(w) \/ DeafPeer(w))

(***************************************************************************)
(* ReadyServed (wait_room_thread, worker_thread): if no peer keeps a worker*)
(* reading or writing for ever, a pooled connection with a request reaches *)
(* a worker, unless its deadline passes, its peer hangs up or the server   *)
(* shuts down before that.                                                 *)
(* ExpiredLeaves (pool_sweep_expired): a pooled connection whose deadline  *)
(* has passed leaves the pool, unless the server shuts down.               *)
(***************************************************************************)
ReadyServed ==
  PolitePeers =>
    \A f \in Fds :
      (f \in ToSet(pool) /\ f \in request)
        ~> (shutting_down \/ f \in expired \cup gone \/ \E w \in Workers : wconn[w] = f)

ExpiredLeaves ==
  \A f \in Fds :
    (f \in ToSet(pool) /\ f \in expired)
      ~> (shutting_down \/ f \notin ToSet(pool))

(***************************************************************************)
(* ShutdownOutcome (server_shutdown): once begun, the shutdown ends by     *)
(* exit(), or from some moment on it is always held up by one of these: a  *)
(* listener in accept() on a closed socket, a worker reading from a silent *)
(* peer or writing to one that does not read, the wait room draining a     *)
(* closed empty queue, a push to a queue whose takers are gone (two cases),*)
(* or the circular wait. There is no other way to hang.                    *)
(***************************************************************************)
AcceptNotWoken == ~AcceptWakes /\ \E l \in Listeners : lpc[l] = "blocked"

DrainSpins == wr = "drain" /\ waitClosed /\ waitQ = << >>

PushAbandoned ==
  /\ Len(workQ) = QueueCap /\ \A w \in Workers : wpc[w] = "exit"
  /\ wr = "push" \/ \E l \in Listeners : lpc[l] = "push"

KeepAbandoned ==
  wr = "exit" /\ Len(waitQ) = QueueCap /\ \E w \in Workers : wpc[w] = "keep"

ShutdownOutcome ==
  shutting_down ~>
    [](\/ sd = "exited" \/ AcceptNotWoken \/ DrainSpins
       \/ (\E w \in Workers : SilentPeer(w) \/ DeafPeer(w))
       \/ PushAbandoned \/ KeepAbandoned \/ CircularWait)

-----------------------------------------------------------------------------
(* What a comment of the code says and the code does not do.               *)

(* WaitRoomStops: "Wake the wait room thread." (server.c:341) by closing   *)
(* the wait queue; it ends, to be joined.                                  *)
WaitRoomStops == waitClosed ~> wr = "exit"
=============================================================================
