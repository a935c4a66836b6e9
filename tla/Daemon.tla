------------------------------- MODULE Daemon -------------------------------
(***************************************************************************)
(* The life of the daemon's processes (src/src/main.c, src/src/server.c,   *)
(* worker_init in src/src/threadpool.c): an instance starts up, claims its *)
(* ports and the pid file, fills in `server', is told to stop, or is       *)
(* killed, while other instances with the same pid file do the same.       *)
(*                                                                         *)
(* The file system is one name, "<lock_file_path>/<cmd>.pid", that refers  *)
(* to an inode or to nothing; an inode lives on while a process has it     *)
(* open. The kernel frees the ports, the descriptor and the record lock of *)
(* a process when it ends, in whatever way.                                *)
(***************************************************************************)
EXTENDS Naturals, FiniteSets

CONSTANTS
  Instances,   \* processes; one that ended may start again
  Configs,     \* of each instance, the [http, https] ports it may be configured with
  Inodes,
  None,        \* no inode, no process
  MaxUnnoticed \* bound of what the system refuses without the code going back on it

ASSUME DaemonAssumption ==
  /\ None \notin Instances \cup Inodes
  /\ Cardinality(Inodes) > Cardinality(Instances)
  /\ \A p \in Instances : \A c \in Configs[p] : c.http # c.https
  /\ MaxUnnoticed \in Nat

VARIABLES
  main,        \* of each instance: where its main thread is,
  conf,        \*   its ports as configured,
  ports,       \*   those it listens on,
  fd,          \*   the inode it has opened as its pid file,
  server,      \*   the parts of `server' that are filled in,
  term,        \*   a SIGTERM is pending,
  sd,          \*   where server_shutdown is,
  fate,        \*   "refused", "crashed" or "ended" otherwise,
  early,       \*   server_shutdown began before worker_init had ended,
  self,        \*   the wait room runs server_shutdown, not main or the signal thread,
  unnoticed,   \*   what the system refused without the code going back on it
  holds,       \* instances that hold a lock on their inode
  named,       \* the inode the name refers to
  content,     \* of each inode, whose pids are in it: of two one over the other
  raced        \* the name was removed while another instance had it open

process == <<conf, server, term, sd, fate, early, self, unnoticed>>
kernel  == <<ports, fd, holds, named, content, raced>>
vars    == <<main, process, kernel>>
flaws   == <<early, self, unnoticed>>

AllConfigs == UNION {Configs[p] : p \in Instances}
Ports == UNION {{c.http, c.https} : c \in AllConfigs}
Alive == {p \in Instances : main[p] # "off"}

(* What main creates after another, and the state it then goes to.         *)
Startup ==
  [queues |-> "waitroom", waitroom |-> "workers", workers |-> "http",
   http |-> "https", https |-> "parked"]

Threads == {"waitroom", "workers", "http", "https"}

(* An inode nobody has open; which one makes no difference.                *)
NewInode ==
  LET free == Inodes \ {fd[p] : p \in Instances}
  IN  {i \in free : i = CHOOSE j \in free : TRUE}

-----------------------------------------------------------------------------
Init ==
  /\ main = [p \in Instances |-> "off"] /\ conf = [p \in Instances |-> None]
  /\ ports = [p \in Instances |-> {}] /\ fd = [p \in Instances |-> None]
  /\ server = [p \in Instances |-> {}] /\ term = [p \in Instances |-> FALSE]
  /\ sd = [p \in Instances |-> "none"] /\ fate = [p \in Instances |-> "ended"]
  /\ early = [p \in Instances |-> FALSE] /\ self = [p \in Instances |-> FALSE]
  /\ unnoticed = [p \in Instances |-> {}]
  /\ holds = {} /\ named = None /\ raced = FALSE
  /\ content = [i \in Inodes |-> {}]

GoTo(p, pc) == main' = [main EXCEPT ![p] = pc]

(* The process is gone, and with it what the kernel kept for it, also a    *)
(* file that has no name.                                                  *)
End(p, how) ==
  /\ GoTo(p, "off")
  /\ fate' = [fate EXCEPT ![p] = how] /\ ports' = [ports EXCEPT ![p] = {}]
  /\ fd' = [fd EXCEPT ![p] = None] /\ holds' = holds \ {p}
  /\ server' = [server EXCEPT ![p] = {}] /\ term' = [term EXCEPT ![p] = FALSE]
  /\ sd' = [sd EXCEPT ![p] = "none"] /\ conf' = [conf EXCEPT ![p] = None]
  /\ early' = [early EXCEPT ![p] = FALSE] /\ self' = [self EXCEPT ![p] = FALSE]
  /\ unnoticed' = [unnoticed EXCEPT ![p] = {}]
  /\ content' = [i \in Inodes |->
                   IF i = named \/ \E q \in Instances \ {p} : fd[q] = i THEN content[i] ELSE {}]
  /\ UNCHANGED <<named, raced>>

-----------------------------------------------------------------------------
(***************************************************************************)
(* Mistakes this code could have.                                          *)
(***************************************************************************)

(* already_running goes on when the lock is held.                          *)
LockAnyway(p) ==
  /\ main[p] = "lock"
  /\ GoTo(p, "write") /\ holds' = holds \cup {p}
  /\ content' = [content EXCEPT ![fd[p]] = {}]
  /\ UNCHANGED <<process, ports, fd, named, raced>>

(* The file's existence says that an instance is running (O_EXCL).         *)
OpenExclusive(p) ==
  /\ main[p] = "open"
  /\ IF named # None
     THEN End(p, "refused")
     ELSE \E i \in NewInode :
            /\ named' = i /\ fd' = [fd EXCEPT ![p] = i] /\ GoTo(p, "lock")
            /\ UNCHANGED <<process, ports, holds, content, raced>>

(* The https listener is stored in server.http_listener.                   *)
SpawnMisplaced(p) ==
  /\ main[p] \in DOMAIN Startup
  /\ server' = [server EXCEPT ![p] = @ \cup {IF main[p] = "https" THEN "http" ELSE main[p]}]
  /\ GoTo(p, Startup[main[p]])
  /\ UNCHANGED <<conf, term, sd, fate, flaws, kernel>>

-----------------------------------------------------------------------------
(***************************************************************************)
(* The main thread.                                                        *)
(***************************************************************************)
Start(p) ==
  /\ main[p] = "off"
  /\ \E c \in Configs[p] : conf' = [conf EXCEPT ![p] = c]
  /\ fate' = [fate EXCEPT ![p] = "ended"] /\ GoTo(p, "prepare")
  /\ UNCHANGED <<server, term, sd, flaws, kernel>>

(* A step of main that only goes on: configuration, TLS and logs; then     *)
(* daemonize, which gives the process the pid it will write; then          *)
(* drop_privileges, the blocking of the signals and logger_init.           *)
Proceed(p) ==
  /\ \E next \in {<<"prepare", "bindHttp">>, <<"daemonize", "open">>,
                  <<"drop", "signals">>} :
       main[p] = next[1] /\ GoTo(p, next[2])
  /\ UNCHANGED <<process, kernel>>

Bind(p, port, next) ==
  IF \E q \in Instances : port \in ports[q]
  THEN End(p, "refused")
  ELSE /\ ports' = [ports EXCEPT ![p] = @ \cup {port}] /\ GoTo(p, next)
       /\ UNCHANGED <<process, fd, holds, named, content, raced>>

(* A failure after which the code goes on. At most MaxUnnoticed are told   *)
(* of at a time.                                                           *)
Unnoticed(p, what) ==
  /\ Cardinality({c \in Instances \X ({"truncation"} \cup DOMAIN Startup) :
                    c[2] \in unnoticed[c[1]]}) < MaxUnnoticed
  /\ unnoticed' = [unnoticed EXCEPT ![p] = @ \cup {what}]

CreateListener(p) ==
  \/ main[p] = "bindHttp" /\ Bind(p, conf[p].http, "bindHttps")
  \/ main[p] = "bindHttps" /\ Bind(p, conf[p].https, "daemonize")

(* already_running: open with O_CREAT; fcntl and ftruncate, whose failure  *)
(* is only logged; write.                                                  *)
Open(p) ==
  /\ main[p] = "open"
  /\ IF named # None
     THEN fd' = [fd EXCEPT ![p] = named] /\ UNCHANGED named
     ELSE \E i \in NewInode :
            named' = i /\ fd' = [fd EXCEPT ![p] = i]
  /\ GoTo(p, "lock")
  /\ UNCHANGED <<process, ports, holds, content, raced>>

Lock(p) ==
  /\ main[p] = "lock"
  /\ IF \E q \in holds : fd[q] = fd[p]
     THEN End(p, "refused")
     ELSE /\ GoTo(p, "write") /\ holds' = holds \cup {p}
          /\ UNCHANGED <<conf, server, term, sd, fate, early, self, ports, fd, named, raced>>
          /\ \/ content' = [content EXCEPT ![fd[p]] = {}] /\ UNCHANGED unnoticed
             \/ Unnoticed(p, "truncation") /\ UNCHANGED content

(* Over a longer pid that was not cut off, the new one leaves a rest of it.*)
WritePid(p) ==
  /\ main[p] = "write" /\ GoTo(p, "drop")
  /\ \E rest \in SUBSET content[fd[p]] : content' = [content EXCEPT ![fd[p]] = {p} \cup rest]
  /\ UNCHANGED <<process, ports, fd, holds, named, raced>>

(* An error of the system: no configuration, certificate, log, socket,     *)
(* fork, pid file, user, memory.                                           *)
Fail(p) ==
  /\ main[p] \in {"prepare", "bindHttp", "bindHttps", "daemonize", "open", "lock", "write", "drop"}
  /\ End(p, "ended")

BeginShutdown(p) ==
  /\ sd' = [sd EXCEPT ![p] = "close"]
  /\ early' = [early EXCEPT ![p] = main[p] # "parked"]

SpawnSignals(p) ==
  /\ main[p] = "signals"
  /\ server' = [server EXCEPT ![p] = {"signals"}] /\ GoTo(p, "queues")
  /\ UNCHANGED <<conf, term, sd, fate, flaws, kernel>>

(* worker_init: the sockets, queues and the name of the pid file, then one *)
(* thread after another. That queue_init fails is only logged, and whether *)
(* pthread_create fails is not asked: the queue without memory, the handle *)
(* never assigned are stored like any other.                               *)
Spawn(p) ==
  /\ main[p] \in DOMAIN Startup
  /\ server' = [server EXCEPT ![p] = @ \cup {main[p]}] /\ GoTo(p, Startup[main[p]])
  /\ UNCHANGED unnoticed \/ Unnoticed(p, main[p])
  /\ UNCHANGED <<conf, term, sd, fate, early, self, kernel>>

(* The signal thread's pthread_create fails, or malloc for a queue: main   *)
(* calls server_shutdown.                                                  *)
SpawnFails(p) ==
  /\ main[p] \in {"signals", "queues"} /\ sd[p] = "none"
  /\ BeginShutdown(p) /\ GoTo(p, "shutdown")
  /\ server' = [server EXCEPT ![p] = IF main[p] = "queues" THEN @ \cup {"sockets"} ELSE @]
  /\ UNCHANGED <<conf, term, fate, self, unnoticed, kernel>>

(* What was refused is used: the handles of the workers, where there was   *)
(* no memory for them, or by any thread a queue.                           *)
UseRefused(p) ==
  /\ \/ "workers" \in unnoticed[p] /\ main[p] = "http"
     \/ "queues" \in unnoticed[p] /\ (server[p] \cap Threads) \ unnoticed[p] # {}
  /\ End(p, "crashed")

-----------------------------------------------------------------------------
(***************************************************************************)
(* Signals, and server_shutdown, run by the signal thread or by main.      *)
(***************************************************************************)

(* SIGKILL, or a SIGTERM or SIGHUP before main blocks them.                *)
Kill(p) == main[p] # "off" /\ End(p, "ended")

SendTerm(p) ==
  /\ main[p] \in {"signals", "parked"} \cup DOMAIN Startup
  /\ ~term[p] /\ sd[p] = "none"
  /\ term' = [term EXCEPT ![p] = TRUE]
  /\ UNCHANGED <<main, conf, server, sd, fate, flaws, kernel>>

(* Of two server_shutdown at a time one joins what the other has joined.   *)
TakeTerm(p) ==
  /\ "signals" \in server[p] /\ term[p]
  /\ \/ /\ sd[p] = "none" /\ BeginShutdown(p)
        /\ term' = [term EXCEPT ![p] = FALSE]
        /\ UNCHANGED <<main, conf, server, fate, self, unnoticed, kernel>>
     \/ (self[p] \/ main[p] = "shutdown") /\ End(p, "crashed")

(* io_watcher_create has no memory or no descriptor.                       *)
WaitRoomGivesUp(p) ==
  /\ "waitroom" \in server[p] \ unnoticed[p] /\ sd[p] = "none"
  /\ BeginShutdown(p) /\ self' = [self EXCEPT ![p] = TRUE]
  /\ UNCHANGED <<main, conf, server, term, fate, unnoticed, kernel>>

(* Before worker_init the sockets are both 0, standard input.              *)
CloseSockets(p) ==
  /\ sd[p] = "close" /\ sd' = [sd EXCEPT ![p] = "http"]
  /\ ports' = [ports EXCEPT ![p] = IF server[p] \cap {"sockets", "queues"} = {} THEN @ ELSE {}]
  /\ UNCHANGED <<main, conf, server, term, fate, flaws, fd, holds, named, content, raced>>

(* pthread_join dereferences the null pointer of a thread that is not      *)
(* stored yet, and of one that was refused whatever the handle is (or      *)
(* returns an error, for a worker ignored); the mutex of a queue that was  *)
(* refused holds anything; and a thread that joins itself gets an error,   *)
(* at which THR_OK aborts. The other threads end as in ThreadPool, or not. *)
Join(p) ==
  \E next \in {<<"http", "https">>, <<"https", "waitroom">>,
               <<"waitroom", "workers">>, <<"workers", "unlink">>} :
    LET part  == next[1]
        own   == part = "waitroom" /\ self[p]
        risky == \/ part \in unnoticed[p]
                 \/ part \in {"waitroom", "workers"} /\ "queues" \in unnoticed[p]
    IN  /\ sd[p] = part
        /\ \/ /\ part \in server[p] /\ ~own
              /\ sd' = [sd EXCEPT ![p] = next[2]]
              /\ UNCHANGED <<main, conf, server, term, fate, flaws, kernel>>
           \/ (part \notin server[p] \/ own \/ risky) /\ End(p, "crashed")

(* unlink fails if the user the process runs as may not write there.       *)
Unlink(p) ==
  /\ sd[p] = "unlink" /\ sd' = [sd EXCEPT ![p] = "exit"]
  /\ \/ UNCHANGED <<named, content, raced>>
     \/ /\ named' = None
        /\ content' = [i \in Inodes |-> IF \E q \in Instances : fd[q] = i THEN content[i] ELSE {}]
        /\ raced' = (raced \/ \E q \in Instances \ {p} : fd[q] # None /\ fd[q] = named)
  /\ UNCHANGED <<main, conf, server, term, fate, flaws, ports, fd, holds>>

(* cleanup_config, logger_shutdown, exit.                                  *)
Exit(p) == sd[p] = "exit" /\ End(p, "ended")

-----------------------------------------------------------------------------
MainStep(p) ==
  \/ Proceed(p) \/ CreateListener(p) \/ Open(p) \/ Lock(p) \/ WritePid(p)
  \/ SpawnSignals(p) \/ Spawn(p)

Next ==
  \E p \in Instances :
    \/ Start(p) \/ MainStep(p) \/ Fail(p) \/ SpawnFails(p) \/ UseRefused(p) \/ Kill(p)
    \/ SendTerm(p) \/ TakeTerm(p) \/ WaitRoomGivesUp(p)
    \/ CloseSockets(p) \/ Join(p) \/ Unlink(p) \/ Exit(p)

(* The system schedules main; nothing else has to happen.                  *)
Fairness == \A p \in Instances : WF_vars(MainStep(p))

Spec == Init /\ [][Next]_vars /\ Fairness

-----------------------------------------------------------------------------
Claimed == {p \in Instances :
              main[p] \in {"drop", "signals", "parked", "shutdown"} \cup DOMAIN Startup
              /\ sd[p] # "exit"}

(* "Make sure only one copy of the daemon is running" (main.c:98): from    *)
(* the time its pid is written until it unlinks, a daemon has locked the   *)
(* very file the name refers to and its pid is what one reads there; so    *)
(* there is one at most, and a start that is refused has not touched the   *)
(* file. The exception is open() and fcntl() on both sides of another      *)
(* instance's unlink: the newcomer locks a file without a name. Where the  *)
(* file could not be truncated, a rest of an older pid may follow its own. *)
PidFileNamesDaemon ==
  ~raced => \A p \in Claimed :
              /\ p \in holds /\ fd[p] = named /\ p \in content[named]
              /\ content[named] = {p} \/ "truncation" \in unnoticed[p]

(* server_shutdown reads what worker_init has stored without any lock, and *)
(* worker_init does not ask whether its threads were created. A process    *)
(* crashes only if its shutdown began before worker_init had returned      *)
(* (server.c:338), or a queue or thread was refused on its way             *)
(* (threadpool.c:359-431), or the wait room itself has shut it down        *)
(* (io_watcher.c:44-57): a server that got all it asked for takes a SIGTERM*)
(* without crashing.                                                       *)
CrashesHaveCause ==
  [][\A p \in Instances :
       fate'[p] = "crashed" =>
         fate[p] = "crashed" \/ early[p] \/ self[p] \/ unnoticed[p] \cap DOMAIN Startup # {}]_vars

(* StaleFileDoesNotBlock (already_running, server.c): whatever was left    *)
(* behind by instances that were killed, crashed or could not unlink, one  *)
(* that starts while no other is there is not taken for a second copy, and *)
(* gets to serving unless the system fails it.                             *)
Lonely(p) == Alive = {p}

NotTakenForSecond ==
  [][\A p \in Instances : Lonely(p) /\ fate'[p] = "refused" => fate[p] = "refused"]_vars

StaleFileDoesNotBlock ==
  /\ NotTakenForSecond
  /\ \A p \in Instances :
       Lonely(p) /\ main[p] = "prepare" ~> main[p] = "parked" \/ ~Lonely(p) \/ sd[p] # "none"
=============================================================================
