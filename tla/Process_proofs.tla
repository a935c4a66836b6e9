--------------------------- MODULE Process_proofs ---------------------------
(***************************************************************************)
(* Theorems about the two halves of the process outside of its threads.    *)
(*                                                                         *)
(* Daemon, for every number of instances and inodes and every choice of    *)
(* ports: the pid file names the daemon, a process crashes only for one of *)
(* three causes, and nothing a dead instance has left behind makes a new   *)
(* one take itself for a second copy. The inductive invariant IInv follows *)
(* an instance from step to step: which part of `server' worker_init has   *)
(* filled in, which inode it has open and locked, and what it says.        *)
(*                                                                         *)
(* Config, for every set of files, of readers, and 1 to 16 bits: whoever   *)
(* holds config_lock has one whole configuration, which is that of its     *)
(* file alone, with sizes that are powers of two. ConfigInv follows the    *)
(* current configuration through the heap; what the parser makes of a file *)
(* is an induction over its lines, next_power_of_2 one over bits.          *)
(***************************************************************************)
EXTENDS Daemon, Config, Selection_proofs

(* Where the main thread may be: before the pid file, at it, and after.    *)
Young == {"prepare", "bindHttp", "bindHttps", "daemonize", "open"}
Creating == {"queues", "waitroom", "workers", "http", "https"}
Settled == {"drop", "signals", "parked", "shutdown"} \cup Creating
Serving == {"parked", "shutdown"} \cup Creating

Types ==
  /\ main \in [Instances -> {"off", "lock", "write"} \cup Young \cup Settled]
  /\ conf \in [Instances -> AllConfigs \cup {None}]
  /\ ports \in [Instances -> SUBSET Ports]
  /\ fd \in [Instances -> Inodes \cup {None}]
  /\ server \in [Instances -> SUBSET ({"signals", "sockets"} \cup Creating)]
  /\ term \in [Instances -> BOOLEAN] /\ early \in [Instances -> BOOLEAN]
  /\ self \in [Instances -> BOOLEAN]
  /\ unnoticed \in [Instances -> SUBSET ({"truncation"} \cup Creating)]
  /\ sd \in [Instances -> {"none", "close", "http", "https", "waitroom",
                           "workers", "unlink", "exit"}]
  /\ fate \in [Instances -> {"refused", "crashed", "ended"}]
  /\ holds \in SUBSET Instances /\ named \in Inodes \cup {None}
  /\ content \in [Inodes -> SUBSET Instances] /\ raced \in BOOLEAN

(* What an instance has taken hold of on its way.                          *)
Claims ==
  \A p \in Instances :
    /\ main[p] \in Young \cup {"off"} => fd[p] = None
    /\ main[p] \notin Young \cup {"off"} => fd[p] \in Inodes
    /\ p \in holds <=> main[p] \in Settled \cup {"write"}
    /\ main[p] \in {"off", "prepare", "bindHttp"} => ports[p] = {}
    /\ main[p] \notin {"off"} => conf[p] \in Configs[p]
    /\ main[p] = "bindHttps" => ports[p] = {conf[p].http}

(* A lock is exclusive, and its holder's pid stays in the file, alone if it*)
(* could be truncated.                                                     *)
Locks ==
  /\ \A p, q \in holds : fd[p] = fd[q] => p = q
  /\ \A p \in Instances : main[p] \in Settled => p \in content[fd[p]]
  /\ \A p \in Instances : main[p] \in Settled \cup {"write"} =>
       content[fd[p]] \subseteq {p} \/ "truncation" \in unnoticed[p]

(* Unless the race of unlink and open has happened, whoever has the file   *)
(* open and is not past its own unlink has the file of that name.          *)
Names ==
  ~raced => \A p \in Instances : fd[p] # None /\ sd[p] # "exit" => fd[p] = named

(* What worker_init has stored in `server' by the time main is at a step.  *)
Stored ==
  \A p \in Instances :
    /\ server[p] # {} => main[p] \in Serving
    /\ main[p] \in {"workers", "http", "https", "parked"} => "waitroom" \in server[p]
    /\ main[p] \in {"http", "https", "parked"} => "workers" \in server[p]
    /\ main[p] \in {"https", "parked"} => "http" \in server[p]
    /\ main[p] = "parked" => "https" \in server[p]

(* server_shutdown runs once the signal thread can, and only a shutdown    *)
(* that began early finds main elsewhere than at its end.                  *)
Shutdowns ==
  \A p \in Instances :
    /\ sd[p] # "none" => main[p] \in Serving
    /\ sd[p] # "none" /\ ~early[p] => main[p] = "parked"
    /\ main[p] = "shutdown" => early[p]

IInv == Types /\ Claims /\ Locks /\ Names /\ Stored /\ Shutdowns

-----------------------------------------------------------------------------
(* The order in which main creates things.                                 *)
LEMMA StartupSteps ==
  /\ DOMAIN Startup = Creating
  /\ Startup["queues"] = "waitroom" /\ Startup["waitroom"] = "workers"
  /\ Startup["workers"] = "http" /\ Startup["http"] = "https"
  /\ Startup["https"] = "parked"
BY DEF Startup, Creating

(* Nothing runs at first.                                                  *)
LEMMA InitHolds == Init => IInv
<1> SUFFICES ASSUME Init PROVE IInv
  OBVIOUS
<1>1. Types
  BY DEF Init, Types
<1>2. Claims /\ Locks /\ Names /\ Stored /\ Shutdowns
  BY DEF Init, Claims, Locks, Names, Stored, Shutdowns, Young, Settled, Serving, Creating
<1> QED
  BY <1>1, <1>2 DEF IInv

(* The end of a process leaves the others and the file as they are.        *)
LEMMA Ends ==
  ASSUME IInv, NEW p \in Instances, NEW how \in {"refused", "crashed", "ended"},
         End(p, how)
  PROVE  IInv'
<1>3. Locks'
  <2>1. /\ main \in [Instances -> {"off", "lock", "write"} \cup Young \cup Settled]
        /\ fd \in [Instances -> Inodes \cup {None}] /\ holds \subseteq Instances
        /\ unnoticed \in [Instances -> SUBSET ({"truncation"} \cup Creating)]
    BY DEF IInv, Types
  <2>2. /\ main' = [main EXCEPT ![p] = "off"] /\ fd' = [fd EXCEPT ![p] = None]
        /\ holds' = holds \ {p} /\ unnoticed' = [unnoticed EXCEPT ![p] = {}]
        /\ content' = [i \in Inodes |->
                         IF i = named \/ \E q \in Instances \ {p} : fd[q] = i THEN content[i] ELSE {}]
    BY DEF End, GoTo
  <2>3. \A q, r \in holds' : fd'[q] = fd'[r] => q = r
    BY <2>1, <2>2 DEF IInv, Locks
  <2>4. ASSUME NEW q \in Instances, main'[q] \in Settled \cup {"write"}
        PROVE  /\ main[q] = main'[q] /\ fd'[q] = fd[q] /\ unnoticed'[q] = unnoticed[q]
               /\ content'[fd'[q]] = content[fd[q]]
    <3>1. q # p
      BY <2>1, <2>2, <2>4 DEF Settled, Creating
    <3>2. main[q] = main'[q] /\ fd'[q] = fd[q] /\ unnoticed'[q] = unnoticed[q]
      BY <2>1, <2>2, <3>1
    <3>3. fd[q] \in Inodes
      BY <2>4, <3>2 DEF IInv, Claims, Young, Settled, Creating
    <3> QED
      BY <2>2, <3>1, <3>2, <3>3
  <2> QED
    BY <2>3, <2>4 DEF IInv, Locks
<1> USE DEF End, GoTo, IInv, Types, Young, Settled, Serving, Creating
<1>1. Types'
  OBVIOUS
<1>2. Claims'
  BY DEF Claims
<1>4. Names'
  BY DEF Names
<1>5. Stored'
  BY DEF Stored
<1>6. Shutdowns'
  BY DEF Shutdowns
<1> QED
  BY <1>1, <1>2, <1>3, <1>4, <1>5, <1>6

(* A start leaves an instance with nothing but a configuration.            *)
LEMMA StartKeeps == ASSUME IInv, NEW p \in Instances, Start(p) PROVE IInv'
<1> USE DaemonAssumption DEF Start, flaws, kernel, GoTo,
           IInv, Types, Young, Settled, Serving, Creating
<1>1. Types'
  <2>1. PICK c \in Configs[p] : conf' = [conf EXCEPT ![p] = c]
    OBVIOUS
  <2>2. c \in AllConfigs
    BY <2>1 DEF AllConfigs
  <2>3. conf' \in [Instances -> AllConfigs \cup {None}]
    BY <2>1, <2>2
  <2> QED
    BY <2>3
<1>2. Claims'
  BY DEF Claims
<1>3. Locks'
  BY DEF Locks, Claims
<1>4. Names'
  BY DEF Names, Claims
<1>5. Stored'
  BY DEF Stored
<1>6. Shutdowns'
  BY DEF Shutdowns, Stored
<1> QED
  BY <1>1, <1>2, <1>3, <1>4, <1>5, <1>6

(* Steps of main at which nothing is taken hold of.                        *)
LEMMA ProceedKeeps == ASSUME IInv, NEW p \in Instances, Proceed(p) PROVE IInv'
<1> USE DaemonAssumption DEF Proceed, process, kernel, GoTo,
           IInv, Types, Young, Settled, Serving, Creating
<1>1. Types'
  OBVIOUS
<1>2. Claims'
  BY DEF Claims
<1>3. Locks'
  BY DEF Locks, Claims
<1>4. Names'
  BY DEF Names, Claims
<1>5. Stored'
  BY DEF Stored
<1>6. Shutdowns'
  BY DEF Shutdowns, Stored
<1> QED
  BY <1>1, <1>2, <1>3, <1>4, <1>5, <1>6

(* open() finds the file, or creates one nobody else can have open.        *)
LEMMA OpenKeeps == ASSUME IInv, NEW p \in Instances, Open(p) PROVE IInv'
<1> USE DaemonAssumption DEF Open, NewInode, process, GoTo,
           IInv, Types, Young, Settled, Serving, Creating
<1>1. Types'
  OBVIOUS
<1>2. Claims'
  BY DEF Claims
<1>3. Locks'
  BY DEF Locks, Claims
<1>4. Names'
  BY DEF Names, Claims
<1>5. Stored'
  BY DEF Stored
<1>6. Shutdowns'
  BY DEF Shutdowns, Stored
<1> QED
  BY <1>1, <1>2, <1>3, <1>4, <1>5, <1>6

(* The pid is written by the holder of the lock.                           *)
LEMMA WritePidKeeps == ASSUME IInv, NEW p \in Instances, WritePid(p) PROVE IInv'
<1> USE DaemonAssumption DEF WritePid, process, GoTo,
           IInv, Types, Young, Settled, Serving, Creating
<1>1. Types'
  <2>1. content' \in [Inodes -> SUBSET Instances]
    BY DEF Claims
  <2> QED
    BY <2>1
<1>2. Claims'
  BY DEF Claims
<1>3. Locks'
  BY DEF Locks, Claims
<1>4. Names'
  BY DEF Names, Claims
<1>5. Stored'
  BY DEF Stored
<1>6. Shutdowns'
  BY DEF Shutdowns, Stored
<1> QED
  BY <1>1, <1>2, <1>3, <1>4, <1>5, <1>6

(* The first thread, and the first part of `server'.                       *)
LEMMA SpawnSignalsKeeps == ASSUME IInv, NEW p \in Instances, SpawnSignals(p) PROVE IInv'
<1> USE DaemonAssumption DEF SpawnSignals, flaws, kernel, GoTo,
           IInv, Types, Young, Settled, Serving, Creating
<1>1. Types'
  OBVIOUS
<1>2. Claims'
  BY DEF Claims
<1>3. Locks'
  BY DEF Locks, Claims
<1>4. Names'
  BY DEF Names, Claims
<1>5. Stored'
  BY DEF Stored
<1>6. Shutdowns'
  BY DEF Shutdowns, Stored
<1> QED
  BY <1>1, <1>2, <1>3, <1>4, <1>5, <1>6

(* Each thread is stored before the next one is created.                   *)
LEMMA SpawnKeeps == ASSUME IInv, NEW p \in Instances, Spawn(p) PROVE IInv'
<1> USE StartupSteps, DaemonAssumption DEF Spawn, Unnoticed, kernel, GoTo,
           IInv, Types, Young, Settled, Serving, Creating
<1>1. Types'
  OBVIOUS
<1>2. Claims'
  BY DEF Claims
<1>3. Locks'
  BY DEF Locks, Claims
<1>4. Names'
  BY DEF Names, Claims
<1>5. Stored'
  BY DEF Stored
<1>6. Shutdowns'
  BY DEF Shutdowns, Stored
<1> QED
  BY <1>1, <1>2, <1>3, <1>4, <1>5, <1>6

(* A shutdown that begins is early unless worker_init has returned.        *)
LEMMA ShutdownBegins ==
  ASSUME IInv, NEW p \in Instances, main[p] \in Serving, BeginShutdown(p), UNCHANGED main
  PROVE  Shutdowns'
<1>1. sd \in [Instances -> {"none", "close", "http", "https", "waitroom",
                           "workers", "unlink", "exit"}]
      /\ early \in [Instances -> BOOLEAN]
  BY DEF IInv, Types
<1>2. \A q \in Instances \ {p} : sd'[q] = sd[q] /\ early'[q] = early[q] /\ main'[q] = main[q]
  BY <1>1 DEF BeginShutdown
<1>3. early'[p] = (main[p] # "parked") /\ main'[p] = main[p]
  BY <1>1 DEF BeginShutdown
<1>4. main[p] # "parked" => early'[p]
  BY <1>3
<1>5. ASSUME NEW q \in Instances
      PROVE  /\ sd'[q] # "none" => main'[q] \in Serving
             /\ sd'[q] # "none" /\ ~early'[q] => main'[q] = "parked"
             /\ main'[q] = "shutdown" => early'[q]
  <2>1. CASE q = p
    BY <1>3, <1>4, <2>1
  <2>2. CASE q # p
    BY <1>2, <2>2 DEF IInv, Shutdowns
  <2> QED
    BY <2>1, <2>2
<1> QED
  BY <1>5 DEF Shutdowns

(* The wait room's own shutdown begins as any other.                       *)
LEMMA WaitRoomGivesUpKeeps == ASSUME IInv, NEW p \in Instances, WaitRoomGivesUp(p) PROVE IInv'
<1>0. main[p] \in Serving
  BY DEF WaitRoomGivesUp, IInv, Stored
<1>6. Shutdowns'
  BY <1>0, ShutdownBegins DEF WaitRoomGivesUp
<1> USE DaemonAssumption DEF WaitRoomGivesUp, BeginShutdown, kernel, GoTo,
           IInv, Types, Young, Settled, Serving, Creating
<1>1. Types'
  OBVIOUS
<1>2. Claims'
  BY DEF Claims
<1>3. Locks'
  BY DEF Locks, Claims
<1>4. Names'
  BY DEF Names, Claims
<1>5. Stored'
  BY DEF Stored
<1> QED
  BY <1>1, <1>2, <1>3, <1>4, <1>5, <1>6

(* A failure of worker_init begins an early shutdown.                      *)
LEMMA SpawnFailsKeeps == ASSUME IInv, NEW p \in Instances, SpawnFails(p) PROVE IInv'
<1>6. Shutdowns'
  <2>1. /\ sd \in [Instances -> {"none", "close", "http", "https", "waitroom",
                                "workers", "unlink", "exit"}]
        /\ early \in [Instances -> BOOLEAN] /\ DOMAIN main = Instances
    BY DEF IInv, Types
  <2>2. main'[p] = "shutdown" /\ early'[p] /\ main'[p] \in Serving
    BY <2>1 DEF SpawnFails, BeginShutdown, GoTo, Serving
  <2>3. \A q \in Instances \ {p} : /\ main'[q] = main[q] /\ sd'[q] = sd[q]
                                  /\ early'[q] = early[q]
    BY <2>1 DEF SpawnFails, BeginShutdown, GoTo
  <2> QED
    BY <2>2, <2>3 DEF IInv, Shutdowns
<1> USE DaemonAssumption DEF SpawnFails, BeginShutdown, kernel, GoTo,
           IInv, Types, Young, Settled, Serving, Creating
<1>1. Types'
  OBVIOUS
<1>2. Claims'
  BY DEF Claims
<1>3. Locks'
  BY DEF Locks, Claims
<1>4. Names'
  BY DEF Names, Claims
<1>5. Stored'
  BY DEF Stored
<1> QED
  BY <1>1, <1>2, <1>3, <1>4, <1>5, <1>6

(* A signal changes nothing until it is taken.                             *)
LEMMA SendTermKeeps == ASSUME IInv, NEW p \in Instances, SendTerm(p) PROVE IInv'
<1> USE StartupSteps, DaemonAssumption DEF SendTerm, flaws, kernel, GoTo,
           IInv, Types, Young, Settled, Serving, Creating
<1>1. Types'
  OBVIOUS
<1>2. Claims'
  BY DEF Claims
<1>3. Locks'
  BY DEF Locks, Claims
<1>4. Names'
  BY DEF Names, Claims
<1>5. Stored'
  BY DEF Stored
<1>6. Shutdowns'
  BY DEF Shutdowns, Stored
<1> QED
  BY <1>1, <1>2, <1>3, <1>4, <1>5, <1>6

(* A shutdown begins early unless worker_init has returned.                *)
LEMMA TakeTermKeeps == ASSUME IInv, NEW p \in Instances, TakeTerm(p) PROVE IInv'
<1>1. CASE End(p, "crashed")
  BY <1>1, Ends
<1>2. CASE ~End(p, "crashed")
  <2>0. /\ sd[p] = "none" /\ BeginShutdown(p) /\ term' = [term EXCEPT ![p] = FALSE]
        /\ "signals" \in server[p]
        /\ UNCHANGED <<main, conf, server, fate, self, unnoticed, kernel>>
    BY <1>2 DEF TakeTerm
  <2>6. Shutdowns'
    BY <2>0, ShutdownBegins DEF IInv, Stored
  <2> USE <2>0, DaemonAssumption DEF BeginShutdown, kernel, GoTo,
             IInv, Types, Young, Settled, Serving, Creating
  <2>1. Types'
    OBVIOUS
  <2>2. Claims'
    BY DEF Claims
  <2>3. Locks'
    BY DEF Locks, Claims
  <2>4. Names'
    BY DEF Names, Claims
  <2>5. Stored'
    BY DEF Stored
  <2> QED
    BY <2>1, <2>2, <2>3, <2>4, <2>5, <2>6
<1> QED
  BY <1>1, <1>2

(* Closing the sockets frees the ports.                                    *)
LEMMA CloseSocketsKeeps == ASSUME IInv, NEW p \in Instances, CloseSockets(p) PROVE IInv'
<1>0. /\ ports' \in [Instances -> SUBSET Ports]
      /\ sd' \in [Instances -> {"none", "close", "http", "https", "waitroom",
                                "workers", "unlink", "exit"}]
  BY DEF CloseSockets, IInv, Types
<1> USE <1>0, DaemonAssumption DEF CloseSockets, flaws, GoTo, IInv, Types, Young, Settled, Serving, Creating
<1>1. Types'
  OBVIOUS
<1>2. Claims'
  BY DEF Claims, Shutdowns
<1>3. Locks'
  BY DEF Locks, Claims
<1>4. Names'
  BY DEF Names, Claims
<1>5. Stored'
  BY DEF Stored
<1>6. Shutdowns'
  BY DEF Shutdowns, Stored
<1> QED
  BY <1>1, <1>2, <1>3, <1>4, <1>5, <1>6

(* unlink leaves those behind that still have the file open: the race.     *)
LEMMA UnlinkKeeps == ASSUME IInv, NEW p \in Instances, Unlink(p) PROVE IInv'
<1>0. raced' \in BOOLEAN
  <2>1. raced \in BOOLEAN
    BY DEF IInv, Types
  <2>2. UNCHANGED raced \/ raced' = (raced \/ \E q \in Instances \ {p} : fd[q] # None /\ fd[q] = named)
    BY DEF Unlink
  <2> QED
    BY <2>1, <2>2
<1> USE <1>0, DaemonAssumption DEF Unlink, flaws, GoTo, IInv, Types, Young, Settled, Serving, Creating
<1>1. Types'
  <2>1. content' \in [Inodes -> SUBSET Instances]
    OBVIOUS
  <2>2. sd' \in [Instances -> {"none", "close", "http", "https", "waitroom",
                              "workers", "unlink", "exit"}]
    OBVIOUS
  <2>3. named' \in Inodes \cup {None}
    OBVIOUS
  <2> QED
    BY <2>1, <2>2, <2>3
<1>2. Claims'
  BY DEF Claims
<1>3. Locks'
  BY DEF Locks, Claims
<1>4. Names'
  <2>1. CASE UNCHANGED <<named, raced>>
    BY <2>1 DEF Names
  <2>2. CASE named' = None /\ (raced' = (raced \/ \E q \in Instances \ {p} : fd[q] # None /\ fd[q] = named))
    <3>1. ~raced' => ~raced /\ \A q \in Instances \ {p} : fd[q] # None => fd[q] # named
      BY <2>2
    <3>2. sd'[p] = "exit" /\ \A q \in Instances \ {p} : sd'[q] = sd[q]
      OBVIOUS
    <3> QED
      BY <3>1, <3>2 DEF Names
  <2> QED
    BY <2>1, <2>2
<1>5. Stored'
  BY DEF Stored
<1>6. Shutdowns'
  BY DEF Shutdowns, Stored
<1> QED
  BY <1>1, <1>2, <1>3, <1>4, <1>5, <1>6

(* Bind takes a port that nobody has, or the instance is refused.          *)
LEMMA CreateListenerKeeps ==
  ASSUME IInv, NEW p \in Instances, CreateListener(p)
  PROVE  IInv'
<1>1. PICK port, next :
        /\ Bind(p, port, next) /\ port \in Ports
        /\ \/ main[p] = "bindHttp" /\ next = "bindHttps" /\ port = conf[p].http
           \/ main[p] = "bindHttps" /\ next = "daemonize" /\ port = conf[p].https
  <2>1. conf[p] \in AllConfigs
    BY DEF IInv, Claims, CreateListener, AllConfigs
  <2>2. conf[p].http \in Ports /\ conf[p].https \in Ports
    BY <2>1 DEF Ports
  <2> QED
    BY <2>2 DEF CreateListener
<1>2. CASE \E q \in Instances : port \in ports[q]
  BY <1>1, <1>2, Ends DEF Bind
<1>3. CASE ~ \E q \in Instances : port \in ports[q]
  <2> USE <1>1, <1>3 DEF Bind, GoTo, process, IInv, Types, Young, Settled, Serving, Creating
  <2>1. Types'
    OBVIOUS
  <2>2. Claims'
    BY DEF Claims
  <2>3. Locks' /\ Names' /\ Stored' /\ Shutdowns'
    BY DEF Locks, Names, Stored, Shutdowns
  <2> QED
    BY <2>1, <2>2, <2>3
<1> QED
  BY <1>2, <1>3

(* fcntl grants the lock on an inode to one process at a time.             *)
LEMMA LockKeeps == ASSUME IInv, NEW p \in Instances, Lock(p) PROVE IInv'
<1>1. CASE \E q \in holds : fd[q] = fd[p]
  BY <1>1, Ends DEF Lock
<1>2. CASE ~ \E q \in holds : fd[q] = fd[p]
  <2> USE <1>2 DEF Lock, Unnoticed, GoTo, IInv, Types, Young, Settled, Serving, Creating
  <2>1. Types' /\ Claims'
    BY DEF Claims
  <2>2. Locks'
    BY DEF Locks, Claims
  <2>3. Names' /\ Stored' /\ Shutdowns'
    BY DEF Names, Stored, Shutdowns
  <2> QED
    BY <2>1, <2>2, <2>3
<1> QED
  BY <1>1, <1>2

(* A join goes on to the next part, or is the end.                         *)
LEMMA JoinKeeps == ASSUME IInv, NEW p \in Instances, Join(p) PROVE IInv'
<1>1. CASE End(p, "crashed")
  BY <1>1, Ends
<1>2. CASE ~End(p, "crashed")
  <2>1. PICK next \in {<<"http", "https">>, <<"https", "waitroom">>,
                       <<"waitroom", "workers">>, <<"workers", "unlink">>} :
          /\ sd[p] = next[1] /\ sd' = [sd EXCEPT ![p] = next[2]]
          /\ UNCHANGED <<main, conf, server, term, fate, flaws, kernel>>
    BY <1>2 DEF Join
  <2> USE <2>1 DEF kernel, flaws, IInv, Types, Young, Settled, Serving, Creating
  <2>2. Types'
    OBVIOUS
  <2>3. Claims' /\ Locks' /\ Names' /\ Stored'
    BY DEF Claims, Locks, Names, Stored
  <2>4. Shutdowns'
    BY DEF Shutdowns
  <2> QED
    BY <2>2, <2>3, <2>4
<1> QED
  BY <1>1, <1>2

(* Every step keeps the invariant.                                         *)
LEMMA NextKeeps == IInv /\ [Next]_vars => IInv'
<1> SUFFICES ASSUME IInv, [Next]_vars PROVE IInv'
  OBVIOUS
<1>1. CASE UNCHANGED vars
  BY <1>1 DEF vars, process, kernel, IInv, Types, Claims, Locks, Names, Stored, Shutdowns
<1>2. ASSUME NEW p \in Instances, MainStep(p) PROVE IInv'
  BY <1>2, ProceedKeeps, CreateListenerKeeps, OpenKeeps, LockKeeps, WritePidKeeps,
     SpawnSignalsKeeps, SpawnKeeps DEF MainStep
<1>3. ASSUME NEW p \in Instances, Fail(p) \/ Kill(p) \/ Exit(p) PROVE IInv'
  BY <1>3, Ends DEF Fail, Kill, Exit
<1>4. ASSUME NEW p \in Instances, UseRefused(p) PROVE IInv'
  BY <1>4, Ends DEF UseRefused
<1> QED
  BY <1>1, <1>2, <1>3, <1>4, StartKeeps, SpawnFailsKeeps, SendTermKeeps, TakeTermKeeps,
     WaitRoomGivesUpKeeps,
     CloseSocketsKeeps, JoinKeeps, UnlinkKeeps DEF Next

(* IInv always holds.                                                      *)
LEMMA Invariance == Spec => []IInv
BY InitHolds, NextKeeps, PTL DEF Spec

-----------------------------------------------------------------------------
(* "Make sure only one copy of the daemon is running" (main.c:98): from the*)
(* time its pid is written until it unlinks, a daemon has locked the file  *)
(* of that name, and the file says so, unless an unlink and a start have   *)
(* raced.                                                                  *)
THEOREM PidFileIsRight == Spec => []PidFileNamesDaemon
<1>1. IInv => PidFileNamesDaemon
  BY StartupSteps, DaemonAssumption
     DEF IInv, Claims, Locks, Names, PidFileNamesDaemon, Claimed, Young, Settled, Creating
<1> QED
  BY <1>1, Invariance, PTL

(* So there is one daemon at most between writing its pid and unlinking.   *)
THEOREM OneDaemon == Spec => [](~raced => \A p, q \in Claimed : p = q)
<1>1. IInv /\ PidFileNamesDaemon => (~raced => \A p, q \in Claimed : p = q)
  BY DEF PidFileNamesDaemon, IInv, Locks
<1> QED
  BY <1>1, Invariance, PidFileIsRight, PTL

(* The end of a process is told of that process only.                      *)
LEMMA EndsOne ==
  ASSUME IInv, NEW p \in Instances, NEW q \in Instances,
         NEW how \in {"refused", "crashed", "ended"}, End(q, how)
  PROVE  fate'[p] = IF p = q THEN how ELSE fate[p]
BY DEF End, IInv, Types

(* A process crashes only in a shutdown that began before worker_init had  *)
(* returned (server.c:338), or that the wait room runs itself              *)
(* (io_watcher.c:44-57), or after a queue or a thread was refused and      *)
(* worker_init went on (threadpool.c:359-431). A server that got all it    *)
(* asked for stores each handle before a SIGTERM can find it missing.      *)
THEOREM CrashesAreExplained == Spec => CrashesHaveCause
<1>1. IInv /\ [Next]_vars =>
        [\A p \in Instances :
           fate'[p] = "crashed" =>
             fate[p] = "crashed" \/ early[p] \/ self[p] \/ unnoticed[p] \cap DOMAIN Startup # {}]_vars
  <2> SUFFICES ASSUME IInv, Next, NEW p \in Instances, fate'[p] = "crashed", fate[p] # "crashed"
               PROVE  early[p] \/ self[p] \/ unnoticed[p] \cap Creating # {}
    BY StartupSteps DEF vars
  <2>1. PICK q \in Instances :
          \/ Start(q) \/ MainStep(q) \/ Fail(q) \/ SpawnFails(q) \/ UseRefused(q) \/ Kill(q)
          \/ SendTerm(q) \/ TakeTerm(q) \/ WaitRoomGivesUp(q)
          \/ CloseSockets(q) \/ Join(q) \/ Unlink(q) \/ Exit(q)
    BY DEF Next
  <2>2. CASE Start(q)
    BY <2>2 DEF Start, IInv, Types
  <2>3. CASE Fail(q) \/ Kill(q) \/ Exit(q)
    BY <2>3, EndsOne DEF Fail, Kill, Exit
  <2>4. CASE CreateListener(q) \/ Lock(q)
    <3>1. CASE End(q, "refused")
      BY <3>1, EndsOne
    <3>2. CASE ~End(q, "refused")
      BY <2>4, <3>2 DEF CreateListener, Bind, Lock, process
    <3> QED
      BY <3>1, <3>2
  <2>5. CASE UseRefused(q)
    <3>1. p = q
      BY <2>5, EndsOne DEF UseRefused
    <3> QED
      BY <2>5, <3>1 DEF UseRefused, Creating
  <2>6. CASE TakeTerm(q)
    <3>1. (self[q] \/ main[q] = "shutdown") /\ End(q, "crashed")
      BY <2>6 DEF TakeTerm
    <3>2. p = q
      BY <3>1, EndsOne
    <3> QED
      BY <3>1, <3>2 DEF IInv, Shutdowns
  <2>7. CASE Join(q)
    <3>1. PICK next \in {<<"http", "https">>, <<"https", "waitroom">>,
                         <<"waitroom", "workers">>, <<"workers", "unlink">>} :
            /\ sd[q] = next[1] /\ End(q, "crashed")
            /\ \/ next[1] \notin server[q]
               \/ next[1] = "waitroom" /\ self[q]
               \/ next[1] \in unnoticed[q]
               \/ "queues" \in unnoticed[q]
      BY <2>7 DEF Join
    <3>2. p = q
      BY <3>1, EndsOne
    <3>3. CASE next[1] \notin server[q]
      BY <3>1, <3>2, <3>3 DEF IInv, Types, Shutdowns, Stored
    <3>4. CASE next[1] \in server[q]
      BY <3>1, <3>2, <3>4 DEF Creating
    <3> QED
      BY <3>3, <3>4
  <2> QED
    BY <2>1, <2>2, <2>3, <2>4, <2>5, <2>6, <2>7
       DEF MainStep, Proceed, Open, WritePid, SpawnSignals, Spawn, SpawnFails, SendTerm,
           WaitRoomGivesUp, CloseSockets, Unlink, process
<1> QED
  BY <1>1, Invariance, PTL DEF Spec, CrashesHaveCause

(* A lone instance finds neither a port taken nor the file locked, whatever*)
(* the ones before it have left behind.                                    *)
THEOREM LonelyStarts == Spec => NotTakenForSecond
<1>1. IInv /\ [Next]_vars =>
        [\A p \in Instances : Lonely(p) /\ fate'[p] = "refused" => fate[p] = "refused"]_vars
  <2> SUFFICES ASSUME IInv, Next, NEW p \in Instances, Lonely(p), fate'[p] = "refused"
               PROVE  fate[p] = "refused"
    BY DEF vars
  <2>1. PICK q \in Instances :
          \/ Start(q) \/ MainStep(q) \/ Fail(q) \/ SpawnFails(q) \/ UseRefused(q) \/ Kill(q)
          \/ SendTerm(q) \/ TakeTerm(q) \/ WaitRoomGivesUp(q)
          \/ CloseSockets(q) \/ Join(q) \/ Unlink(q) \/ Exit(q)
    BY DEF Next
  <2>2. \A r \in Instances \ {p} : main[r] = "off" /\ ports[r] = {} /\ r \notin holds
    BY DEF Lonely, Alive, IInv, Claims, Settled, Creating
  <2>3. ~ \E r \in holds : main[p] = "lock" /\ fd[r] = fd[p]
    BY <2>2 DEF IInv, Types, Claims, Settled, Creating
  <2>4. CASE CreateListener(q)
    <3>1. CASE \E r \in Instances, port \in {conf[q].http, conf[q].https} :
                 /\ port \in ports[r] /\ q = p
                 /\ \/ main[q] = "bindHttp" /\ port = conf[q].http
                    \/ main[q] = "bindHttps" /\ port = conf[q].https
      BY <2>2, <3>1, DaemonAssumption DEF IInv, Claims
    <3>2. CASE q # p
      BY <2>2, <2>4, <3>2 DEF CreateListener
    <3> QED
      BY <2>4, <3>1, <3>2 DEF CreateListener, Bind, process
  <2>5. CASE Lock(q)
    BY <2>2, <2>3, <2>5 DEF Lock, process
  <2>6. CASE Fail(q) \/ UseRefused(q) \/ Kill(q) \/ Exit(q) \/ Join(q) \/ TakeTerm(q)
    BY <2>6, EndsOne DEF Fail, UseRefused, Kill, Exit, Join, TakeTerm
  <2>7. CASE Start(q)
    BY <2>7 DEF Start, IInv, Types
  <2> QED
    BY <2>1, <2>4, <2>5, <2>6, <2>7
       DEF MainStep, Proceed, Open, WritePid, SpawnSignals, Spawn, SpawnFails, SendTerm,
           WaitRoomGivesUp, CloseSockets, Unlink, process
<1> QED
  BY <1>1, Invariance, PTL DEF Spec, NotTakenForSecond

-----------------------------------------------------------------------------
(***************************************************************************)
(* Config: the numbers.                                                    *)
(***************************************************************************)
(* The values f of a recursion: s at first, then what G makes of the one   *)
(* before.                                                                 *)
Iterates(f, n, s, G) == f[0] = s /\ \A k \in 1 .. n : f[k] = G[<<k, f[k - 1]>>]

(* There are such values.                                                  *)
LEMMA RecursionExists ==
  ASSUME NEW n \in Nat, NEW S, NEW s \in S, NEW G \in [(1 .. n) \X S -> S]
  PROVE  \E f \in [0 .. n -> S] : Iterates(f, n, s, G)
<1> DEFINE P == {m \in Nat : m <= n => \E f \in [0 .. m -> S] : Iterates(f, m, s, G)}
<1>1. 0 \in P
  <2> DEFINE f == [k \in 0 .. 0 |-> s]
  <2>1. f \in [0 .. 0 -> S] /\ f[0] = s
    OBVIOUS
  <2> HIDE DEF f
  <2>2. Iterates(f, 0, s, G)
    BY <2>1 DEF Iterates
  <2> QED
    BY <2>1, <2>2
<1>2. ASSUME NEW m \in P PROVE m + 1 \in P
  <2> SUFFICES ASSUME m + 1 <= n
               PROVE  \E f \in [0 .. m + 1 -> S] : Iterates(f, m + 1, s, G)
    OBVIOUS
  <2>1. PICK f \in [0 .. m -> S] : Iterates(f, m, s, G)
    OBVIOUS
  <2>2. /\ m \in 0 .. m /\ f[m] \in S /\ m + 1 \in 1 .. n
        /\ <<m + 1, f[m]>> \in (1 .. n) \X S
    BY <2>1
  <2>3. G[<<m + 1, f[m]>>] \in S
    BY <2>2
  <2> DEFINE g == [k \in 0 .. m + 1 |-> IF k <= m THEN f[k] ELSE G[<<m + 1, f[m]>>]]
  <2>4. g \in [0 .. m + 1 -> S]
    BY <2>1, <2>3
  <2>5. g[0] = s
    BY <2>1 DEF Iterates
  <2>6. ASSUME NEW k \in 1 .. m + 1 PROVE g[k] = G[<<k, g[k - 1]>>]
    <3>1. g[k - 1] = f[k - 1]
      OBVIOUS
    <3>2. k \in 1 .. m => g[k] = f[k] /\ f[k] = G[<<k, f[k - 1]>>]
      BY <2>1 DEF Iterates
    <3>3. k = m + 1 => g[k] = G[<<m + 1, f[m]>>] /\ k - 1 = m
      OBVIOUS
    <3>4. k \in 1 .. m \/ k = m + 1
      OBVIOUS
    <3> HIDE DEF g
    <3> QED
      BY <3>1, <3>2, <3>3, <3>4, Zenon
  <2> HIDE DEF g
  <2>7. Iterates(g, m + 1, s, G)
    BY <2>5, <2>6 DEF Iterates
  <2> QED
    BY <2>4, <2>7
<1>3. P = Nat
  <2> HIDE DEF P
  <2>1. P \in SUBSET Nat
    BY DEF P
  <2> QED
    BY <1>1, <1>2, <2>1, Induction
<1>4. n \in P
  BY <1>3
<1> QED
  BY <1>4

(* The powers of two.                                                      *)
LEMMA Pow2Steps ==
  ASSUME ConfigAssumption
  PROVE  /\ Wide \in Nat /\ Wide > 0 /\ Pow2[0] = 1
         /\ \A k \in 0 .. Wide : Pow2[k] \in Nat
         /\ \A k \in 1 .. Wide : Pow2[k] = 2 * Pow2[k - 1]
         /\ \A k \in 0 .. Wide - 1 : Pow2[k + 1] = 2 * Pow2[k]
<1>0. Wide \in Nat /\ Wide > 0
  BY DEF ConfigAssumption, Wide
<1> DEFINE G == [x \in (1 .. Wide) \X Nat |-> 2 * x[2]]
<1>1. G \in [(1 .. Wide) \X Nat -> Nat]
  OBVIOUS
<1>2. PICK f \in [0 .. Wide -> Nat] : Iterates(f, Wide, 1, G)
  <2> HIDE DEF G
  <2> QED
    BY <1>0, <1>1, 1 \in Nat, RecursionExists, Zenon
<1>3. ASSUME NEW k \in 1 .. Wide PROVE f[k] = 2 * f[k - 1]
  <2>1. <<k, f[k - 1]>> \in (1 .. Wide) \X Nat
    BY <1>0, <1>2
  <2> QED
    BY <1>2, <2>1 DEF Iterates
<1>4. f[0] = 1
  BY <1>2 DEF Iterates
<1> HIDE DEF G
<1>5. f = [k \in 0 .. Wide |-> IF k = 0 THEN 1 ELSE 2 * f[k - 1]]
  BY <1>0, <1>2, <1>3, <1>4
<1>6. Pow2 = [k \in 0 .. Wide |-> IF k = 0 THEN 1 ELSE 2 * Pow2[k - 1]]
  <2>1. \E p : p = [k \in 0 .. Wide |-> IF k = 0 THEN 1 ELSE 2 * p[k - 1]]
    BY <1>5
  <2> QED
    BY <2>1, Zenon DEF Pow2, Wide
<1>7. Pow2[0] = 1 /\ \A k \in 1 .. Wide : Pow2[k] = 2 * Pow2[k - 1]
  BY <1>0, <1>6
<1> DEFINE P == {k \in Nat : k <= Wide => Pow2[k] \in Nat}
<1>8. P = Nat
  <2>1. 0 \in P
    BY <1>7
  <2>2. ASSUME NEW k \in P PROVE k + 1 \in P
    BY <1>0, <1>7
  <2> HIDE DEF P
  <2>3. P \in SUBSET Nat
    BY DEF P
  <2> QED
    BY <2>1, <2>2, <2>3, Induction
<1>9. \A k \in 0 .. Wide : Pow2[k] \in Nat
  BY <1>0, <1>8
<1>10. ASSUME NEW k \in 0 .. Wide - 1 PROVE Pow2[k + 1] = 2 * Pow2[k]
  <2>1. k + 1 \in 1 .. Wide /\ k + 1 - 1 = k
    BY <1>0
  <2> QED
    BY <1>7, <2>1
<1> QED
  BY <1>0, <1>7, <1>9, <1>10

(* Each is at least twice any smaller one.                                 *)
LEMMA Pow2Grows ==
  ASSUME ConfigAssumption
  PROVE  /\ \A i \in 0 .. Wide : Pow2[i] >= 1
         /\ \A i, j \in 0 .. Wide : i < j => 2 * Pow2[i] <= Pow2[j]
<1> USE Pow2Steps
<1> DEFINE P == {j \in Nat : j <= Wide =>
                   Pow2[j] >= 1 /\ \A i \in 0 .. Wide : i < j => 2 * Pow2[i] <= Pow2[j]}
<1>1. 0 \in P
  OBVIOUS
<1>2. ASSUME NEW j \in P PROVE j + 1 \in P
  <2> SUFFICES ASSUME j + 1 <= Wide
               PROVE  /\ Pow2[j + 1] >= 1
                      /\ \A i \in 0 .. Wide : i < j + 1 => 2 * Pow2[i] <= Pow2[j + 1]
    OBVIOUS
  <2>1. Pow2[j] \in Nat /\ Pow2[j + 1] = 2 * Pow2[j] /\ Pow2[j] >= 1
    OBVIOUS
  <2>2. ASSUME NEW i \in 0 .. Wide, i < j + 1 PROVE 2 * Pow2[i] <= Pow2[j + 1]
    <3>1. CASE i = j
      BY <2>1, <3>1
    <3>2. CASE i < j
      BY <2>1, <3>2
    <3> QED
      BY <2>2, <3>1, <3>2
  <2> QED
    BY <2>1, <2>2
<1> HIDE DEF P
<1>3. P = Nat
  <2>1. P \in SUBSET Nat
    BY DEF P
  <2> QED
    BY <1>1, <1>2, <2>1, Induction
<1>4. ASSUME NEW j \in 0 .. Wide
      PROVE  Pow2[j] >= 1 /\ \A i \in 0 .. Wide : i < j => 2 * Pow2[i] <= Pow2[j]
  <2>1. j \in P /\ j <= Wide
    BY <1>3
  <2> QED
    BY <2>1 DEF P
<1> QED
  BY <1>4

(* The highest bit of a number.                                            *)
LEMMA TopBit ==
  ASSUME ConfigAssumption, NEW v \in Nat, 0 < v, v < Pow2[Wide]
  PROVE  \E h \in 0 .. Wide - 1 : Pow2[h] <= v /\ v < 2 * Pow2[h]
<1> USE Pow2Steps
<1> DEFINE S == {k \in 0 .. Wide : v < Pow2[k]}
<1>1. S \in SUBSET Nat /\ S # {}
  OBVIOUS
<1>2. PICK k \in S : \A j \in S : k <= j
  <2> HIDE DEF S
  <2> QED
    BY <1>1, LeastExists
<1>3. k # 0
  OBVIOUS
<1>4. k - 1 \in 0 .. Wide - 1 /\ k - 1 \notin S
  BY <1>2, <1>3
<1>5. Pow2[k - 1] \in Nat /\ Pow2[k] = 2 * Pow2[k - 1]
  BY <1>4
<1> QED
  BY <1>4, <1>5

(* Division by a power of two that is above a number, and by the highest   *)
(* one that is not.                                                        *)
LEMMA DivBelow ==
  ASSUME NEW m \in Nat, NEW p \in Nat, m < p
  PROVE  m \div p = 0 /\ m % p = m
OBVIOUS

(* The same for a power of two that fits into the number once.             *)
LEMMA DivOnce ==
  ASSUME NEW m \in Nat, NEW p \in Nat, p <= m, m < 2 * p
  PROVE  m \div p = 1
OBVIOUS

(* The highest bit is a bit of the number, and no bit is above it.         *)
LEMMA BitsBelowTop ==
  ASSUME ConfigAssumption, NEW v \in Nat, NEW h \in 0 .. Wide - 1,
         Pow2[h] <= v, v < 2 * Pow2[h]
  PROVE  h \in Bits(v) /\ Bits(v) \subseteq 0 .. h
<1>1. v \div Pow2[h] = 1
  <2>1. Pow2[h] \in Nat
    BY Pow2Steps
  <2> QED
    BY <2>1, DivOnce
<1>2. ASSUME NEW i \in 0 .. Wide - 1, i > h PROVE v \div Pow2[i] = 0
  <2>1. i \in 0 .. Wide /\ h \in 0 .. Wide
    BY Pow2Steps
  <2>2. Pow2[i] \in Nat /\ Pow2[h] \in Nat /\ 2 * Pow2[h] <= Pow2[i]
    BY <1>2, <2>1, Pow2Steps, Pow2Grows
  <2>3. v < Pow2[i]
    BY <2>2
  <2> QED
    BY <2>2, <2>3, DivBelow
<1>3. h \in Bits(v)
  BY <1>1 DEF Bits
<1>4. ASSUME NEW i \in Bits(v) PROVE i \in 0 .. h
  <2>1. i \in 0 .. Wide - 1 /\ (v \div Pow2[i]) % 2 = 1
    BY DEF Bits
  <2>2. ~(i > h)
    BY <1>2, <2>1
  <2> QED
    BY <2>1, <2>2
<1> QED
  BY <1>3, <1>4

(* The w bits from the highest one downwards are all set.                  *)
Filled(bits, h, w) ==
  bits \subseteq 0 .. h /\ \A i \in 0 .. h : h - i < w => i \in bits

(* A smear by w makes twice as many.                                       *)
LEMMA SmearDoubles ==
  ASSUME ConfigAssumption, NEW h \in 0 .. Wide - 1, NEW w \in Nat \ {0}, NEW bits,
         Filled(bits, h, w)
  PROVE  Filled(Smear(bits, w), h, 2 * w)
<1>0. Wide \in Nat
  BY Pow2Steps
<1> USE DEF Filled
<1>1. Smear(bits, w) \subseteq 0 .. h
  <2> SUFFICES ASSUME NEW i \in Smear(bits, w) PROVE i \in 0 .. h
    OBVIOUS
  <2>1. CASE i \in bits
    BY <2>1
  <2>2. CASE i \in 0 .. Wide - 1 /\ i + w \in bits
    <3>1. i + w \in 0 .. h /\ i \in 0 .. Wide - 1
      BY <2>2
    <3> QED
      BY <1>0, <3>1
  <2> QED
    BY <2>1, <2>2 DEF Smear
<1>2. ASSUME NEW i \in 0 .. h, h - i < 2 * w PROVE i \in Smear(bits, w)
  <2>1. CASE h - i < w
    BY <2>1 DEF Smear
  <2>2. CASE h - i >= w
    <3>1. i + w \in 0 .. h /\ h - (i + w) < w /\ i \in 0 .. Wide - 1
      BY <1>0, <1>2, <2>2
    <3>2. i + w \in bits
      BY <3>1
    <3> QED
      BY <3>1, <3>2 DEF Smear
  <2> QED
    BY <2>1, <2>2
<1> QED
  BY <1>1, <1>2

(* The sum of the bits.                                                    *)
LEMMA SumOfBits ==
  ASSUME ConfigAssumption, NEW bits
  PROVE  \E sum \in [0 .. Wide -> Nat] :
           /\ FromBits(bits) = sum[Wide] /\ sum[0] = 0
           /\ \A i \in 1 .. Wide : sum[i] = IF i - 1 \in bits THEN sum[i - 1] + Pow2[i - 1]
                                            ELSE sum[i - 1]
<1>0. Wide \in Nat /\ \A i \in 1 .. Wide : Pow2[i - 1] \in Nat
  BY Pow2Steps
<1> DEFINE G == [x \in (1 .. Wide) \X Nat |->
                   IF x[1] - 1 \in bits THEN x[2] + Pow2[x[1] - 1] ELSE x[2]]
<1>1. G \in [(1 .. Wide) \X Nat -> Nat]
  BY <1>0
<1>2. PICK f \in [0 .. Wide -> Nat] : Iterates(f, Wide, 0, G)
  <2> HIDE DEF G
  <2> QED
    BY <1>0, <1>1, 0 \in Nat, RecursionExists, Zenon
<1>3. ASSUME NEW i \in 1 .. Wide
      PROVE  f[i] = IF i - 1 \in bits THEN f[i - 1] + Pow2[i - 1] ELSE f[i - 1]
  <2>1. <<i, f[i - 1]>> \in (1 .. Wide) \X Nat
    BY <1>0, <1>2
  <2> QED
    BY <1>2, <2>1 DEF Iterates
<1>4. f[0] = 0
  BY <1>2 DEF Iterates
<1> HIDE DEF G
<1> DEFINE s == CHOOSE s : s = [i \in 0 .. Wide |->
                  IF i = 0 THEN 0
                  ELSE IF i - 1 \in bits THEN s[i - 1] + Pow2[i - 1] ELSE s[i - 1]]
<1>5. s = [i \in 0 .. Wide |->
             IF i = 0 THEN 0
             ELSE IF i - 1 \in bits THEN s[i - 1] + Pow2[i - 1] ELSE s[i - 1]]
  <2>1. f = [i \in 0 .. Wide |->
               IF i = 0 THEN 0
               ELSE IF i - 1 \in bits THEN f[i - 1] + Pow2[i - 1] ELSE f[i - 1]]
    BY <1>0, <1>2, <1>3, <1>4
  <2> QED
    BY <2>1, Zenon
<1>6. FromBits(bits) = s[Wide]
  BY DEF FromBits
<1> HIDE DEF s
<1>7. s[0] = 0 /\ \A i \in 1 .. Wide : s[i] = IF i - 1 \in bits THEN s[i - 1] + Pow2[i - 1]
                                              ELSE s[i - 1]
  BY <1>0, <1>5
<1> DEFINE P == {i \in Nat : i <= Wide => s[i] \in Nat}
<1>8. P = Nat
  <2>1. 0 \in P
    BY <1>7
  <2>2. ASSUME NEW i \in P PROVE i + 1 \in P
    <3> SUFFICES ASSUME i + 1 <= Wide PROVE s[i + 1] \in Nat
      OBVIOUS
    <3>1. i + 1 \in 1 .. Wide /\ i + 1 - 1 = i /\ s[i] \in Nat /\ i \in 0 .. Wide
      BY <1>0
    <3>2. s[i + 1] = IF i \in bits THEN s[i] + Pow2[i] ELSE s[i]
      BY <1>7, <3>1
    <3>3. Pow2[i] \in Nat
      BY <3>1, Pow2Steps
    <3> QED
      BY <3>1, <3>2, <3>3
  <2> HIDE DEF P
  <2>3. P \in SUBSET Nat
    BY DEF P
  <2> QED
    BY <2>1, <2>2, <2>3, Induction
<1>9. s \in [0 .. Wide -> Nat]
  <2>1. \A i \in 0 .. Wide : s[i] \in Nat
    BY <1>0, <1>8
  <2>2. s = [i \in 0 .. Wide |-> s[i]]
    BY <1>5, Zenon
  <2> QED
    BY <2>1, <2>2
<1> QED
  BY <1>6, <1>7, <1>9

(* The number of which the bits up to h are set.                           *)
LEMMA SumOfRun ==
  ASSUME ConfigAssumption, NEW h \in 0 .. Wide - 1
  PROVE  FromBits(0 .. h) = 2 * Pow2[h] - 1
<1>0. Wide \in Nat
  BY Pow2Steps
<1>1. PICK sum \in [0 .. Wide -> Nat] :
        /\ FromBits(0 .. h) = sum[Wide] /\ sum[0] = 0
        /\ \A i \in 1 .. Wide : sum[i] = IF i - 1 \in 0 .. h THEN sum[i - 1] + Pow2[i - 1]
                                         ELSE sum[i - 1]
  BY SumOfBits
<1> DEFINE P == {i \in Nat : i <= Wide => sum[i] = IF i <= h THEN Pow2[i] - 1 ELSE 2 * Pow2[h] - 1}
<1>2. 0 \in P
  BY <1>1, Pow2Steps
<1>3. ASSUME NEW i \in P PROVE i + 1 \in P
  <2> SUFFICES ASSUME i + 1 <= Wide
               PROVE  sum[i + 1] = IF i + 1 <= h THEN Pow2[i + 1] - 1 ELSE 2 * Pow2[h] - 1
    OBVIOUS
  <2>1. /\ sum[i] = IF i <= h THEN Pow2[i] - 1 ELSE 2 * Pow2[h] - 1
        /\ sum[i + 1] = IF i <= h THEN sum[i] + Pow2[i] ELSE sum[i]
        /\ sum[i] \in Nat /\ i \in Nat
    BY <1>0, <1>1
  <2>2. Pow2[i] \in Nat /\ Pow2[h] \in Nat /\ Pow2[i + 1] = 2 * Pow2[i]
    <3>1. i \in 0 .. Wide - 1 /\ i \in 0 .. Wide /\ h \in 0 .. Wide
      BY <1>0
    <3> QED
      BY <3>1, Pow2Steps
  <2> QED
    BY <2>1, <2>2
<1> HIDE DEF P
<1>4. P = Nat
  <2>1. P \in SUBSET Nat
    BY DEF P
  <2> QED
    BY <1>2, <1>3, <2>1, Induction
<1> QED
  BY <1>0, <1>1, <1>4 DEF P

(* Smearing by 1, 2, 4, 8 and 16 sets all bits below the highest one, of   *)
(* 32 bits at most.                                                        *)
LEMMA SmearFills ==
  ASSUME ConfigAssumption, NEW v \in Nat, NEW h \in 0 .. Wide - 1,
         Pow2[h] <= v, v < 2 * Pow2[h]
  PROVE  Smeared(v) = 2 * Pow2[h] - 1
<1> DEFINE b0 == Bits(v)
           b1 == Smear(b0, 1)
           b2 == Smear(b1, 2)
           b3 == Smear(b2, 4)
           b4 == Smear(b3, 8)
           b5 == Smear(b4, 16)
<1>0. Wide \in 1 .. 32
  BY DEF ConfigAssumption, Wide
<1>1. Filled(b0, h, 1)
  BY <1>0, BitsBelowTop DEF Filled
<1>2. /\ Filled(b1, h, 2) /\ Filled(b2, h, 4) /\ Filled(b3, h, 8)
      /\ Filled(b4, h, 16) /\ Filled(b5, h, 32)
  <2>1. \A bits : \A w \in Nat \ {0} : Filled(bits, h, w) => Filled(Smear(bits, w), h, 2 * w)
    BY SmearDoubles
  <2> HIDE DEF b0
  <2>2. Filled(b1, h, 2)
    BY <1>1, <2>1
  <2> HIDE DEF b1
  <2>3. Filled(b2, h, 4)
    BY <2>1, <2>2
  <2> HIDE DEF b2
  <2>4. Filled(b3, h, 8)
    BY <2>1, <2>3
  <2> HIDE DEF b3
  <2>5. Filled(b4, h, 16)
    BY <2>1, <2>4
  <2> HIDE DEF b4
  <2>6. Filled(b5, h, 32)
    BY <2>1, <2>5
  <2> QED
    BY <2>2, <2>3, <2>4, <2>5, <2>6
<1>7. Smeared(v) = FromBits(b5)
  BY DEF Smeared
<1> HIDE DEF b5
<1>8. b5 = 0 .. h
  <2>1. b5 \subseteq 0 .. h
    BY <1>2 DEF Filled
  <2>2. ASSUME NEW i \in 0 .. h PROVE i \in b5
    <3>1. h - i < 32
      BY <1>0
    <3> QED
      BY <1>2, <3>1 DEF Filled
  <2> QED
    BY <2>1, <2>2
<1> QED
  BY <1>7, <1>8, SumOfRun

(* 0 has no bits to smear.                                                 *)
LEMMA SmearNothing ==
  ASSUME ConfigAssumption
  PROVE  Smeared(0) = 0
<1>0. Wide \in Nat
  BY Pow2Steps
<1>1. Bits(0) = {}
  <2> SUFFICES ASSUME NEW i \in 0 .. Wide - 1 PROVE (0 \div Pow2[i]) % 2 # 1
    BY DEF Bits
  <2>1. i \in 0 .. Wide
    BY <1>0
  <2>2. Pow2[i] \in Nat /\ 0 < Pow2[i]
    BY <2>1, Pow2Steps, Pow2Grows
  <2>3. 0 \div Pow2[i] = 0
    BY <2>2, DivBelow
  <2> QED
    BY <2>3
<1>2. \A w : Smear({}, w) = {}
  BY DEF Smear
<1>3. Smeared(0) = FromBits({})
  BY <1>1, <1>2 DEF Smeared
<1>4. PICK sum \in [0 .. Wide -> Nat] :
        /\ FromBits({}) = sum[Wide] /\ sum[0] = 0
        /\ \A i \in 1 .. Wide : sum[i] = IF i - 1 \in {} THEN sum[i - 1] + Pow2[i - 1]
                                         ELSE sum[i - 1]
  BY SumOfBits
<1> DEFINE P == {i \in Nat : i <= Wide => sum[i] = 0}
<1>5. P = Nat
  <2>1. 0 \in P
    BY <1>4
  <2>2. ASSUME NEW i \in P PROVE i + 1 \in P
    BY <1>0, <1>4
  <2> HIDE DEF P
  <2>3. P \in SUBSET Nat
    BY DEF P
  <2> QED
    BY <2>1, <2>2, <2>3, Induction
<1>6. sum[Wide] = 0
  <2>1. Wide \in P
    BY <1>0, <1>5
  <2> QED
    BY <2>1
<1> QED
  BY <1>3, <1>4, <1>6

(* The decrement of an unsigned 0.                                         *)
LEMMA MinusOneWraps ==
  ASSUME NEW p \in Nat, p > 0
  PROVE  (0 - 1) % p = p - 1
OBVIOUS

(* next_power_of_2 of a 16-bit number is the least power of two that is    *)
(* not below it.                                                           *)
THEOREM RoundsUp ==
  ASSUME ConfigAssumption, NEW n \in 0 .. Uint16Max
  PROVE  \E e \in 0 .. HalfBits :
           /\ NextPowerOf2(n) = Pow2[e] /\ n <= Pow2[e]
           /\ IF n < 2 THEN e = 0 ELSE e > 0 /\ Pow2[e - 1] < n
<1>0. /\ Wide \in Nat /\ HalfBits \in Nat /\ 0 < HalfBits /\ HalfBits < Wide
      /\ Pow2[0] = 1 /\ Pow2[HalfBits] \in Nat /\ Pow2[Wide] \in Nat
      /\ Pow2[HalfBits] < Pow2[Wide] /\ 2 <= Pow2[HalfBits]
  <2>1. /\ Wide \in Nat /\ HalfBits \in Nat /\ 0 < HalfBits /\ HalfBits < Wide
        /\ 0 \in 0 .. Wide /\ HalfBits \in 0 .. Wide /\ Wide \in 0 .. Wide
    BY DEF ConfigAssumption, Wide
  <2>2. Pow2[0] = 1 /\ Pow2[HalfBits] \in Nat /\ Pow2[Wide] \in Nat
    BY <2>1, Pow2Steps
  <2>3. 2 * Pow2[0] <= Pow2[HalfBits] /\ 2 * Pow2[HalfBits] <= Pow2[Wide]
    BY <2>1, Pow2Grows
  <2> QED
    BY <2>1, <2>2, <2>3
<1>1. n \in Nat /\ n < Pow2[HalfBits]
  BY <1>0 DEF Uint16Max
<1> DEFINE less == (n - 1) % Pow2[Wide]
           up == (Smeared(less) + 1) % Pow2[Wide]
<1>2. NextPowerOf2(n) = IF up = 0 THEN 1 ELSE up
  BY DEF NextPowerOf2
<1>3. CASE n = 0
  <2>1. less = Pow2[Wide] - 1
    BY <1>0, <1>3, MinusOneWraps
  <2>2. less \in Nat /\ 0 < less /\ less < Pow2[Wide]
    BY <1>0, <2>1
  <2> HIDE DEF less
  <2>3. PICK h \in 0 .. Wide - 1 : Pow2[h] <= less /\ less < 2 * Pow2[h]
    BY <2>2, TopBit
  <2>4. Smeared(less) = 2 * Pow2[h] - 1
    BY <2>2, <2>3, SmearFills
  <2>5. h = Wide - 1
    <3> SUFFICES ASSUME h + 1 < Wide PROVE FALSE
      BY <1>0
    <3>1. h \in 0 .. Wide /\ h + 1 \in 0 .. Wide /\ Wide \in 0 .. Wide
      BY <1>0
    <3>2. Pow2[h + 1] = 2 * Pow2[h] /\ 2 * Pow2[h + 1] <= Pow2[Wide] /\ Pow2[h] \in Nat
      BY <3>1, Pow2Steps, Pow2Grows
    <3> QED
      BY <1>0, <2>1, <2>3, <3>2
  <2>6. 2 * Pow2[h] = Pow2[Wide]
    BY <1>0, <2>5, Pow2Steps
  <2>7. Smeared(less) + 1 = Pow2[Wide]
    BY <1>0, <2>4, <2>6
  <2>8. up = 0
    <3>1. Pow2[Wide] % Pow2[Wide] = 0
      BY <1>0
    <3> QED
      BY <2>7, <3>1
  <2> QED
    BY <1>0, <1>2, <1>3, <2>8
<1>4. CASE n = 1
  <2>1. less = 0
    BY <1>0, <1>4
  <2>2. up = 1 % Pow2[Wide]
    BY <2>1, SmearNothing
  <2>3. up = 1
    BY <1>0, <2>2
  <2> QED
    BY <1>0, <1>2, <1>4, <2>3
<1>5. CASE n >= 2
  <2>1. less = n - 1
    <3>1. n - 1 \in Nat /\ n - 1 < Pow2[Wide] /\ Pow2[Wide] \in Nat
      BY ONLY <1>0, <1>1, <1>5
    <3> QED
      BY ONLY <3>1, DivBelow
  <2>2. less \in Nat /\ 0 < less /\ less < Pow2[Wide] /\ less < Pow2[HalfBits]
    BY <1>0, <1>1, <1>5, <2>1
  <2> HIDE DEF less
  <2>3. PICK h \in 0 .. Wide - 1 : Pow2[h] <= less /\ less < 2 * Pow2[h]
    BY <2>2, TopBit
  <2>4. Smeared(less) = 2 * Pow2[h] - 1
    BY <2>2, <2>3, SmearFills
  <2>5. h < HalfBits
    <3> SUFFICES ASSUME h >= HalfBits PROVE FALSE
      BY <1>0
    <3>1. h \in 0 .. Wide /\ HalfBits \in 0 .. Wide
      BY <1>0
    <3>2. Pow2[h] >= Pow2[HalfBits]
      <4>1. CASE h = HalfBits
        BY <1>0, <4>1
      <4>2. CASE HalfBits < h
        <5>1. Pow2[HalfBits] \in Nat /\ Pow2[h] \in Nat /\ 2 * Pow2[HalfBits] <= Pow2[h]
          BY <3>1, <4>2, Pow2Grows, Pow2Steps
        <5> QED
          BY <5>1
      <4> QED
        BY <1>0, <4>1, <4>2
    <3>3. Pow2[h] \in Nat
      BY <3>1, Pow2Steps
    <3> QED
      BY ONLY <1>0, <2>2, <2>3, <3>2, <3>3
  <2>6. Pow2[h] \in Nat /\ Pow2[h + 1] = 2 * Pow2[h] /\ Pow2[h] >= 1
    <3>1. h \in 0 .. Wide
      BY <1>0
    <3>2. Pow2[h] \in Nat /\ Pow2[h + 1] = 2 * Pow2[h]
      BY Pow2Steps
    <3> QED
      BY <3>1, <3>2, Pow2Grows
  <2>7. Pow2[h + 1] < Pow2[Wide]
    <3>1. h + 1 \in 0 .. Wide /\ h + 1 < Wide /\ Wide \in 0 .. Wide
      BY <1>0, <2>5
    <3>2. 2 * Pow2[h + 1] <= Pow2[Wide]
      BY <3>1, Pow2Grows
    <3>3. Pow2[h + 1] \in Nat /\ Pow2[h + 1] >= 1
      BY <2>6
    <3> QED
      BY ONLY <1>0, <3>2, <3>3
  <2>8. up = Pow2[h + 1]
    <3>1. Smeared(less) + 1 = Pow2[h + 1] /\ Pow2[h + 1] \in Nat
      BY <2>4, <2>6
    <3> QED
      BY <1>0, <2>7, <3>1, DivBelow
  <2> HIDE DEF up
  <2>9. h + 1 \in 0 .. HalfBits /\ h + 1 > 0 /\ h + 1 - 1 = h
    BY <1>0, <2>5
  <2>10. NextPowerOf2(n) = Pow2[h + 1] /\ n <= Pow2[h + 1] /\ Pow2[h] < n
    BY <1>1, <1>2, <2>1, <2>3, <2>6, <2>8
  <2> QED
    BY <1>5, <2>9, <2>10
<1> QED
  BY <1>1, <1>3, <1>4, <1>5

-----------------------------------------------------------------------------
(***************************************************************************)
(* Config: the file.                                                       *)
(***************************************************************************)
(* The values of a key.                                                    *)
Values(k) ==
  IF k \in Numbers THEN 0 .. Uint16Max ELSE IF k \in Strings THEN Texts ELSE BOOLEAN

AnyValue == Int \cup Texts \cup BOOLEAN
Fields == [Keys -> AnyValue]

(* A line that sets a key gives it a value of its type, which fits in 16   *)
(* bits if it is a number.                                                 *)
LEMMA ValueTypes ==
  ASSUME ConfigAssumption, NEW line \in Lines, Sets(line)
  PROVE  /\ line.key \in Keys
         /\ Value(line) \in Values(line.key)
         /\ line.key = "dir_listing" => Value(line) = line.flag
<1>1. line.key \in Keys
  BY DEF Sets, Keys, Numbers, Strings
<1>2. CASE line.key \in Numbers
  <2>1. line.number \in 0 .. Uint16Max
    BY <1>2 DEF Sets, Numbers, Strings
  <2> QED
    BY <1>1, <1>2, <2>1 DEF Value, Values, Numbers, Strings
<1>3. CASE line.key \in Strings
  <2>1. line.text \in Texts
    BY <1>3 DEF Lines, Sets
  <2> QED
    BY <1>1, <1>3, <2>1 DEF Value, Values, Numbers, Strings
<1>4. CASE line.key = "dir_listing"
  <2>1. line.flag \in BOOLEAN
    BY <1>4 DEF Lines, Sets, Numbers, Strings
  <2> QED
    BY <1>1, <1>4, <2>1 DEF Value, Values, Numbers, Strings
<1> QED
  BY <1>1, <1>2, <1>3, <1>4 DEF Keys

(* What load_config_defaults leaves.                                       *)
LEMMA FreshTypes ==
  ASSUME ConfigAssumption, NEW flag \in BOOLEAN
  PROVE  /\ Fresh(flag) \in Fields
         /\ \A k \in Keys : Fresh(flag)[k] \in Values(k)
         /\ \A k \in Keys \ {"dir_listing"} : Fresh(flag)[k] = Defaults[k]
         /\ Fresh(flag)["dir_listing"] = flag
<1>1. /\ Defaults["http_port"] \in 0 .. Uint16Max
      /\ Defaults["conn_queue_size"] \in 0 .. Uint16Max
      /\ Defaults["lock_file_path"] \in Texts
      /\ Defaults["server_user"] \in Texts
  BY DEF ConfigAssumption
<1>2. ASSUME NEW k \in Keys PROVE Fresh(flag)[k] \in Values(k)
  <2>1. Fresh(flag)[k] = IF k = "dir_listing" THEN flag ELSE Defaults[k]
    BY DEF Fresh
  <2>2. CASE k = "dir_listing"
    BY <2>1, <2>2 DEF Values, Numbers, Strings
  <2>3. CASE k \in Numbers
    BY <1>1, <2>1, <2>3 DEF Values, Numbers
  <2>4. CASE k \in Strings
    BY <1>1, <2>1, <2>4 DEF Values, Numbers, Strings
  <2> QED
    BY <2>2, <2>3, <2>4 DEF Keys
<1>3. Fresh(flag) \in Fields
  <2>1. Uint16Max \in Int
    BY ConfigAssumption, Pow2Steps DEF ConfigAssumption, Uint16Max, Wide
  <2>2. \A k \in Keys : Values(k) \subseteq AnyValue
    BY <2>1 DEF Values, AnyValue
  <2> QED
    BY <1>2, <2>2 DEF Fresh, Fields
<1> QED
  BY <1>2, <1>3 DEF Fresh, Keys, Numbers, Strings

(* What a line makes of the fields.                                        *)
Change(c, line) == IF Sets(line) THEN [c EXCEPT ![line.key] = Value(line)] ELSE c

(* Parsing goes through the lines, one change after another.               *)
LEMMA ParseRuns ==
  ASSUME ConfigAssumption, NEW start \in Fields, NEW lines \in Seq(Lines)
  PROVE  \E run \in [0 .. Len(lines) -> Fields] :
           /\ run[0] = start
           /\ \A k \in 1 .. Len(lines) : run[k] = Change(run[k - 1], lines[k])
           /\ Parse(start, lines) = PostProcess(run[Len(lines)])
<1> DEFINE n == Len(lines)
<1>0. n \in Nat /\ \A k \in 1 .. n : lines[k] \in Lines
  OBVIOUS
<1>1. ASSUME NEW c \in Fields, NEW line \in Lines PROVE Change(c, line) \in Fields
  <2>1. CASE Sets(line)
    <3>1. line.key \in Keys /\ Value(line) \in AnyValue
      BY <2>1, ValueTypes DEF Values, AnyValue
    <3> QED
      BY <2>1, <3>1 DEF Change, Fields
  <2>2. CASE ~Sets(line)
    BY <2>2 DEF Change
  <2> QED
    BY <2>1, <2>2
<1> HIDE DEF n
<1> DEFINE G == [x \in (1 .. n) \X Fields |-> Change(x[2], lines[x[1]])]
<1>2. G \in [(1 .. n) \X Fields -> Fields]
  BY <1>0, <1>1
<1>3. PICK f \in [0 .. n -> Fields] : Iterates(f, n, start, G)
  <2> HIDE DEF G
  <2> QED
    BY <1>0, <1>2, RecursionExists, Zenon
<1>4. f[0] = start
  BY <1>3 DEF Iterates
<1>5. ASSUME NEW k \in 1 .. n PROVE f[k] = Change(f[k - 1], lines[k])
  <2>1. <<k, f[k - 1]>> \in (1 .. n) \X Fields
    BY <1>0, <1>3
  <2> QED
    BY <1>3, <2>1 DEF Iterates
<1> HIDE DEF G
<1> DEFINE run == CHOOSE g : g = [k \in 0 .. n |-> IF k = 0 THEN start
                                                  ELSE Change(g[k - 1], lines[k])]
<1>6. run = [k \in 0 .. n |-> IF k = 0 THEN start ELSE Change(run[k - 1], lines[k])]
  <2>1. f = [k \in 0 .. n |-> IF k = 0 THEN start ELSE Change(f[k - 1], lines[k])]
    BY <1>0, <1>3, <1>4, <1>5
  <2> QED
    BY <2>1, Zenon
<1>7. Parse(start, lines) = PostProcess(run[n])
  BY DEF Parse, Change, n
<1> HIDE DEF run
<1>8. run[0] = start /\ \A k \in 1 .. n : run[k] = Change(run[k - 1], lines[k])
  BY <1>0, <1>6
<1> DEFINE P == {k \in Nat : k <= n => run[k] \in Fields}
<1>9. P = Nat
  <2>1. 0 \in P
    BY <1>8
  <2>2. ASSUME NEW k \in P PROVE k + 1 \in P
    <3> SUFFICES ASSUME k + 1 <= n PROVE run[k + 1] \in Fields
      OBVIOUS
    <3>1. run[k] \in Fields /\ k + 1 \in 1 .. n /\ k + 1 - 1 = k
      BY <1>0
    <3>2. run[k + 1] = Change(run[k], lines[k + 1])
      BY <1>8, <3>1
    <3> QED
      BY <1>0, <1>1, <3>1, <3>2
  <2> HIDE DEF P
  <2>3. P \in SUBSET Nat
    BY DEF P
  <2> QED
    BY <2>1, <2>2, <2>3, Induction
<1>10. run \in [0 .. n -> Fields]
  <2>1. \A k \in 0 .. n : run[k] \in Fields
    BY <1>0, <1>9
  <2>2. run = [k \in 0 .. n |-> run[k]]
    BY <1>6, Zenon
  <2> QED
    BY <2>1, <2>2
<1> QED
  BY <1>7, <1>8, <1>10 DEF n

(* A key has the value of the last of the first n lines that sets it, and  *)
(* of the defaults if there is none.                                       *)
LastOf(lines, k, n) ==
  {m \in 1 .. n : /\ Sets(lines[m]) /\ lines[m].key = k
                  /\ \A j \in m + 1 .. n : ~(Sets(lines[j]) /\ lines[j].key = k)}

FollowsLines(c, start, lines, n) ==
  \A k \in Keys :
    /\ LastOf(lines, k, n) = {} => c[k] = start[k]
    /\ \A m \in LastOf(lines, k, n) : c[k] = Value(lines[m])

(* Of all lines, it is the latest.                                         *)
LEMMA LastIsLatest ==
  ASSUME NEW lines \in Seq(Lines), NEW k
  PROVE  LastOf(lines, k, Len(lines)) = Latest(lines, k)
BY DEF LastOf, Latest

(* The last of n lines and one more.                                       *)
LEMMA LastOfNext ==
  ASSUME NEW lines, NEW k, NEW n \in Nat
  PROVE  LastOf(lines, k, n + 1)
           = IF Sets(lines[n + 1]) /\ lines[n + 1].key = k THEN {n + 1} ELSE LastOf(lines, k, n)
<1> DEFINE Q(m) == Sets(lines[m]) /\ lines[m].key = k
<1>0. \A i \in Nat : LastOf(lines, k, i) = {m \in 1 .. i : Q(m) /\ \A j \in m + 1 .. i : ~Q(j)}
  BY DEF LastOf
<1> HIDE DEF Q
<1>1. CASE Q(n + 1)
  <2>1. \A m \in 1 .. n : n + 1 \in m + 1 .. n + 1
    OBVIOUS
  <2>2. n + 1 \in 1 .. n + 1 /\ n + 1 + 1 .. n + 1 = {} /\ n + 1 \in Nat
    OBVIOUS
  <2>3. \A m \in 1 .. n + 1 : m \in 1 .. n \/ m = n + 1
    OBVIOUS
  <2>4. LastOf(lines, k, n + 1) = {n + 1}
    BY <1>0, <1>1, <2>1, <2>2, <2>3
  <2> QED
    BY <1>1, <2>4 DEF Q
<1>2. CASE ~Q(n + 1)
  <2>1. ASSUME NEW m \in 1 .. n
        PROVE  (\A j \in m + 1 .. n : ~Q(j)) <=> (\A j \in m + 1 .. n + 1 : ~Q(j))
    <3>1. \A j \in m + 1 .. n + 1 : j \in m + 1 .. n \/ j = n + 1
      OBVIOUS
    <3>2. \A j \in m + 1 .. n : j \in m + 1 .. n + 1
      OBVIOUS
    <3> QED
      BY <1>2, <3>1, <3>2
  <2>2. \A m \in 1 .. n + 1 : Q(m) => m \in 1 .. n
    BY <1>2
  <2>3. \A m \in 1 .. n : m \in 1 .. n + 1
    OBVIOUS
  <2>4. LastOf(lines, k, n + 1) = LastOf(lines, k, n)
    BY <1>0, <2>1, <2>2, <2>3, n + 1 \in Nat
  <2> QED
    BY <1>2, <2>4 DEF Q
<1> QED
  BY <1>1, <1>2

(* So parse_and_validate_config_file gives a key what its last line says:  *)
(* by induction over the lines.                                            *)
LEMMA ParseFollowsLines ==
  ASSUME ConfigAssumption, NEW start \in Fields, NEW lines \in Seq(Lines)
  PROVE  \E c \in Fields : /\ Parse(start, lines) = PostProcess(c)
                           /\ FollowsLines(c, start, lines, Len(lines))
<1> DEFINE n == Len(lines)
<1>0. n \in Nat /\ \A k \in 1 .. n : lines[k] \in Lines
  OBVIOUS
<1>1. PICK run \in [0 .. n -> Fields] :
        /\ run[0] = start
        /\ \A k \in 1 .. n : run[k] = Change(run[k - 1], lines[k])
        /\ Parse(start, lines) = PostProcess(run[n])
  BY ParseRuns
<1> HIDE DEF n
<1> DEFINE P == {i \in Nat : i <= n => FollowsLines(run[i], start, lines, i)}
<1>2. 0 \in P
  BY <1>1 DEF FollowsLines, LastOf
<1>3. ASSUME NEW i \in P PROVE i + 1 \in P
  <2> SUFFICES ASSUME i + 1 <= n PROVE FollowsLines(run[i + 1], start, lines, i + 1)
    OBVIOUS
  <2>1. /\ i \in Nat /\ i \in 0 .. n /\ i + 1 \in 1 .. n /\ i + 1 - 1 = i
        /\ FollowsLines(run[i], start, lines, i)
    BY <1>0
  <2> HIDE DEF P
  <2>2. run[i + 1] = Change(run[i], lines[i + 1]) /\ run[i] \in Fields /\ lines[i + 1] \in Lines
    BY <1>0, <1>1, <2>1
  <2> SUFFICES ASSUME NEW k \in Keys
               PROVE  /\ LastOf(lines, k, i + 1) = {} => run[i + 1][k] = start[k]
                      /\ \A m \in LastOf(lines, k, i + 1) : run[i + 1][k] = Value(lines[m])
    BY DEF FollowsLines
  <2>3. LastOf(lines, k, i + 1)
          = IF Sets(lines[i + 1]) /\ lines[i + 1].key = k THEN {i + 1} ELSE LastOf(lines, k, i)
    BY <2>1, LastOfNext
  <2>4. CASE Sets(lines[i + 1]) /\ lines[i + 1].key = k
    <3>1. run[i + 1][k] = Value(lines[i + 1])
      BY <2>2, <2>4 DEF Change, Fields
    <3> QED
      BY <2>3, <2>4, <3>1
  <2>5. CASE ~(Sets(lines[i + 1]) /\ lines[i + 1].key = k)
    <3>1. run[i + 1][k] = run[i][k]
      BY <2>2, <2>5 DEF Change, Fields
    <3> QED
      BY <2>1, <2>3, <2>5, <3>1 DEF FollowsLines
  <2> QED
    BY <2>4, <2>5
<1>4. P = Nat
  <2> HIDE DEF P
  <2>1. P \in SUBSET Nat
    BY DEF P
  <2> QED
    BY <1>2, <1>3, <2>1, Induction
<1>5. FollowsLines(run[n], start, lines, n)
  BY <1>0, <1>4
<1> QED
  BY <1>0, <1>1, <1>5 DEF n

(* What a file asks for.                                                   *)
LEMMA RequestedTypes ==
  ASSUME ConfigAssumption, NEW lines \in Seq(Lines), NEW k \in Keys \ {"dir_listing"}
  PROVE  Requested(lines, k) \in Values(k)
<1>1. CASE Latest(lines, k) = {}
  BY <1>1, FreshTypes DEF Requested
<1>2. CASE Latest(lines, k) # {}
  <2> DEFINE m == CHOOSE m \in Latest(lines, k) : TRUE
  <2>1. m \in Latest(lines, k)
    BY <1>2
  <2>2. Requested(lines, k) = Value(lines[m])
    BY <1>2 DEF Requested
  <2> HIDE DEF m
  <2>3. lines[m] \in Lines /\ Sets(lines[m]) /\ lines[m].key = k
    BY <2>1 DEF Latest
  <2> QED
    BY <2>2, <2>3, ValueTypes
<1> QED
  BY <1>1, <1>2

(* The fields of a configuration in terms of its file.                     *)
LEMMA ParsedFields ==
  ASSUME ConfigAssumption, NEW lines \in Seq(Lines), NEW flag \in BOOLEAN
  PROVE  LET c == Parse(Fresh(flag), lines)
             path == Requested(lines, "lock_file_path")
             kept == IF Len(path) > 0 /\ path[Len(path)] # "/" THEN Len(path) - 1 ELSE Len(path)
         IN  /\ \A k \in {"http_port", "server_user"} : c[k] = Requested(lines, k)
             /\ \A m \in Latest(lines, "dir_listing") : c.dir_listing = lines[m].flag
             /\ Latest(lines, "dir_listing") = {} => c.dir_listing = flag
             /\ c.lock_file_path = SubSeq(path, 1, kept)
             /\ c.conn_queue_size
                  = NextPowerOf2(Requested(lines, "conn_queue_size")) % Pow2[HalfBits]
<1>1. PICK b \in Fields : /\ Parse(Fresh(flag), lines) = PostProcess(b)
                          /\ FollowsLines(b, Fresh(flag), lines, Len(lines))
  BY FreshTypes, ParseFollowsLines
<1>2. ASSUME NEW k \in Keys
      PROVE  /\ Latest(lines, k) = {} => b[k] = Fresh(flag)[k]
             /\ \A m \in Latest(lines, k) : b[k] = Value(lines[m])
  BY <1>1, LastIsLatest DEF FollowsLines
<1>3. ASSUME NEW k \in Keys \ {"dir_listing"} PROVE b[k] = Requested(lines, k)
  <2>1. CASE Latest(lines, k) = {}
    BY <1>2, <2>1, FreshTypes DEF Requested
  <2>2. CASE Latest(lines, k) # {}
    BY <1>2, <2>2 DEF Requested
  <2> QED
    BY <2>1, <2>2
<1>4. ASSUME NEW m \in Latest(lines, "dir_listing") PROVE b["dir_listing"] = lines[m].flag
  <2>1. lines[m] \in Lines /\ Sets(lines[m]) /\ lines[m].key = "dir_listing"
    BY DEF Latest
  <2> QED
    BY <1>2, <2>1, ValueTypes DEF Keys
<1>5. Latest(lines, "dir_listing") = {} => b["dir_listing"] = flag
  BY <1>2, FreshTypes DEF Keys
<1> DEFINE path == Requested(lines, "lock_file_path")
           kept == IF Len(path) > 0 /\ path[Len(path)] # "/" THEN Len(path) - 1 ELSE Len(path)
           c == PostProcess(b)
<1>6. /\ b["lock_file_path"] = path
      /\ b["conn_queue_size"] = Requested(lines, "conn_queue_size")
      /\ b["http_port"] = Requested(lines, "http_port")
      /\ b["server_user"] = Requested(lines, "server_user")
  BY <1>3 DEF Keys, Numbers, Strings
<1>7. /\ c["http_port"] = b["http_port"] /\ c["server_user"] = b["server_user"]
      /\ c["dir_listing"] = b["dir_listing"]
      /\ c["lock_file_path"] = SubSeq(path, 1, kept)
      /\ c["conn_queue_size"] = NextPowerOf2(b["conn_queue_size"]) % Pow2[HalfBits]
  <2> HIDE DEF path
  <2>1. DOMAIN b = Keys
    BY DEF Fields
  <2> QED
    BY <1>6, <2>1 DEF PostProcess, Keys, Numbers, Strings
<1> HIDE DEF c, path
<1> QED
  BY <1>1, <1>4, <1>5, <1>6, <1>7 DEF c, path

-----------------------------------------------------------------------------
(***************************************************************************)
(* Config: the lock and the reload.                                        *)
(***************************************************************************)
(* What init_config or reload_configuration makes of a file, when the      *)
(* allocator has left flag in dir_listing.                                 *)
Made(file, flag) == [conf |-> Parse(Fresh(flag), file), from |-> file]
Configurations == {Made(file, flag) : file \in Files, flag \in BOOLEAN}

ConfigTypes ==
  /\ heap \in Seq(Configurations \cup {Freed}) /\ conf_data \in Nat
  /\ signal \in {"start", "exited", "idle", "wrlock", "locked", "free"}
  /\ rpc \in [Readers -> {"idle", "first", "second", "unlock"}]
  /\ seen \in [Readers -> SUBSET Nat]

(* Where conf_data points while the signal thread is at a step.            *)
CurrentIsLast ==
  /\ signal \in {"start", "exited"} => heap = << >> /\ conf_data = 0
  /\ signal = "idle" => conf_data > 0 /\ conf_data = Len(heap)
  /\ signal = "wrlock" => conf_data > 0 /\ conf_data = Len(heap) - 1
  /\ signal \in {"locked", "free"} => conf_data > 1 /\ conf_data = Len(heap)

(* Which addresses are allocated; calloc has made the first one.           *)
OfStart(c) == c = Freed \/ \E file \in Files : c = Made(file, FALSE)

Kept ==
  /\ \A a \in DOMAIN heap :
       heap[a] # Freed <=> \/ a = conf_data
                           \/ signal \in {"wrlock", "locked", "free"} /\ a >= Len(heap) - 1
  /\ Len(heap) > 0 => OfStart(heap[1])

(* A reader that has the lock has seen the current configuration only, and *)
(* a writer has the lock alone.                                            *)
Readership ==
  /\ reading = {r \in Readers : rpc[r] # "idle"}
  /\ writing = (signal = "locked")
  /\ reading # {} => ~writing /\ conf_data > 0
  /\ \A r \in Readers : /\ seen[r] \subseteq {conf_data}
                        /\ rpc[r] = "idle" => seen[r] = {}

ConfigInv == ConfigTypes /\ CurrentIsLast /\ Kept /\ Readership

-----------------------------------------------------------------------------
(* What is freed is told from what is not.                                 *)
LEMMA FreedIsNone ==
  ASSUME ConfigAssumption, NEW file \in Files, NEW flag \in BOOLEAN
  PROVE  Made(file, flag) \in Configurations /\ Made(file, flag) # Freed
<1>1. Made(file, flag).from # NoFile
  BY DEF Made, ConfigAssumption
<1> QED
  BY <1>1 DEF Configurations, Freed

(* Nothing is allocated at first.                                          *)
LEMMA ConfigInitHolds == ConfigInit => ConfigInv
<1> SUFFICES ASSUME ConfigInit PROVE ConfigInv
  OBVIOUS
<1>1. ConfigTypes /\ CurrentIsLast /\ Kept
  BY DEF ConfigInit, ConfigTypes, CurrentIsLast, Kept
<1>2. Readership
  BY DEF ConfigInit, Readership
<1> QED
  BY <1>1, <1>2 DEF ConfigInv

(* init_config: one configuration, or the end of the program.              *)
LEMMA InitConfigKeeps ==
  ASSUME ConfigAssumption, ConfigInv, NEW file \in Files \cup {NoFile}, InitConfig(file)
  PROVE  ConfigInv'
<1> USE DEF ConfigInv
<1>1. /\ heap = << >> /\ conf_data = 0 /\ reading = {}
      /\ \A r \in Readers : rpc[r] = "idle" /\ seen[r] = {}
  BY DEF InitConfig, CurrentIsLast, Readership
<1>2. CASE signal' = "exited" /\ UNCHANGED <<heap, conf_data>>
  BY <1>1, <1>2 DEF InitConfig, threads, ConfigTypes, CurrentIsLast, Kept, Readership
<1>3. CASE file \in Files /\ signal' = "idle" /\ Allocate(file, FALSE) /\ conf_data' = 1
  <2>1. Made(file, FALSE) \in Configurations /\ Made(file, FALSE) # Freed
    BY <1>3, FreedIsNone
  <2>2. /\ heap' \in Seq(Configurations \cup {Freed}) /\ Len(heap') = 1
        /\ DOMAIN heap' = {1} /\ heap'[1] = Made(file, FALSE)
    <3>1. heap' = Append(<< >>, Made(file, FALSE))
      BY <1>1, <1>3 DEF Allocate, Made
    <3>2. \A S : \A x \in S : /\ Append(<< >>, x) \in Seq(S) /\ Len(Append(<< >>, x)) = 1
                             /\ DOMAIN Append(<< >>, x) = {1} /\ Append(<< >>, x)[1] = x
      OBVIOUS
    <3> HIDE DEF Made, Configurations
    <3>3. Made(file, FALSE) \in Configurations \cup {Freed}
      BY <2>1
    <3> QED
      BY <3>1, <3>2, <3>3
  <2>3. ConfigTypes' /\ CurrentIsLast'
    BY <1>3, <2>2 DEF InitConfig, threads, ConfigTypes, CurrentIsLast
  <2>4. Kept'
    <3>1. OfStart(heap'[1])
      BY <1>3, <2>2 DEF OfStart
    <3> QED
      BY <1>3, <2>1, <2>2, <3>1 DEF Kept
  <2>5. Readership'
    BY <1>1, <1>3 DEF InitConfig, threads, Readership, ConfigTypes
  <2> QED
    BY <2>3, <2>4, <2>5
<1> QED
  BY <1>2, <1>3 DEF InitConfig

(* reload_configuration allocates one more, behind the current one.        *)
LEMMA ReloadKeeps ==
  ASSUME ConfigAssumption, ConfigInv, NEW file \in Files \cup {NoFile}, Reload(file)
  PROVE  ConfigInv'
<1> USE DEF ConfigInv
<1>1. CASE signal' = "idle" /\ UNCHANGED heap
  BY <1>1 DEF Reload, lock, threads, ConfigTypes, CurrentIsLast, Kept, Readership
<1>2. ASSUME file \in Files, NEW flag \in BOOLEAN, Allocate(file, flag), signal' = "wrlock"
      PROVE  ConfigInv'
  <2>1. /\ heap \in Seq(Configurations \cup {Freed})
        /\ Made(file, flag) \in Configurations /\ Made(file, flag) # Freed
    BY <1>2, FreedIsNone DEF ConfigTypes
  <2>2. /\ heap' = Append(heap, Made(file, flag))
        /\ heap' \in Seq(Configurations \cup {Freed})
        /\ Len(heap') = Len(heap) + 1 /\ Len(heap) \in Nat
        /\ \A a \in 1 .. Len(heap) : heap'[a] = heap[a]
        /\ heap'[Len(heap) + 1] = Made(file, flag)
    BY <1>2, <2>1 DEF Allocate, Made
  <2>3. /\ signal = "idle" /\ conf_data > 0 /\ conf_data = Len(heap)
        /\ UNCHANGED <<conf_data, reading, writing, rpc, seen>>
    BY DEF Reload, CurrentIsLast, lock, threads
  <2>4. ConfigTypes'
    BY <1>2, <2>2, <2>3 DEF ConfigTypes
  <2>5. CurrentIsLast'
    BY <1>2, <2>2, <2>3 DEF CurrentIsLast
  <2>6. Kept'
    <3>1. \A a \in 1 .. Len(heap) : heap[a] # Freed <=> (a = conf_data)
      BY <2>3 DEF Kept
    <3>2. \A a \in 1 .. Len(heap) + 1 : a \in 1 .. Len(heap) \/ a = Len(heap) + 1
      BY <2>2
    <3>3. ASSUME NEW a \in 1 .. Len(heap) + 1
          PROVE  heap'[a] # Freed <=> (a = conf_data \/ a >= Len(heap))
      BY <2>1, <2>2, <2>3, <3>1, <3>2
    <3>4. OfStart(heap'[1])
      <4>1. Len(heap) > 0 /\ 1 \in 1 .. Len(heap)
        BY <2>2, <2>3
      <4> QED
        BY <2>2, <4>1 DEF Kept
    <3>5. DOMAIN heap' = 1 .. Len(heap) + 1 /\ Len(heap') - 1 = Len(heap)
      BY <2>2
    <3> QED
      BY <1>2, <2>3, <3>3, <3>4, <3>5 DEF Kept
  <2>7. Readership'
    BY <1>2, <2>3 DEF Readership
  <2> QED
    BY <2>4, <2>5, <2>6, <2>7
<1>3. CASE /\ file # NoFile /\ \E flag \in BOOLEAN : Allocate(file, flag)
           /\ signal' = "wrlock"
  BY <1>2, <1>3
<1> QED
  BY <1>1, <1>3 DEF Reload

(* conf_data moves on while nobody reads.                                  *)
LEMMA SwapKeeps ==
  ASSUME ConfigAssumption, ConfigInv, Swap
  PROVE  ConfigInv'
<1> USE DEF ConfigInv, Swap, threads
<1>1. /\ signal = "wrlock" /\ conf_data > 0 /\ conf_data = Len(heap) - 1
      /\ Len(heap) \in Nat /\ reading = {}
  BY DEF CurrentIsLast, ConfigTypes
<1>2. ConfigTypes'
  BY <1>1 DEF ConfigTypes
<1>3. CurrentIsLast'
  BY <1>1 DEF CurrentIsLast
<1>4. Kept'
  <2>1. DOMAIN heap = 1 .. Len(heap)
    BY DEF ConfigTypes
  <2>2. \A a \in 1 .. Len(heap) : a >= Len(heap) - 1 <=> a = Len(heap) - 1 \/ a = Len(heap)
    BY <1>1
  <2>3. \A a \in 1 .. Len(heap) : heap[a] # Freed <=> (a = conf_data \/ a >= Len(heap) - 1)
    BY <1>1, <2>1 DEF Kept
  <2>4. \A a \in 1 .. Len(heap) : heap[a] # Freed <=> (a = Len(heap) \/ a >= Len(heap) - 1)
    BY <1>1, <2>2, <2>3
  <2> QED
    BY <1>1, <2>1, <2>4 DEF Kept
<1>5. Readership'
  BY <1>1 DEF Readership
<1> QED
  BY <1>2, <1>3, <1>4, <1>5

(* The lock is free again, the old configuration still there.              *)
LEMMA UnlockKeeps ==
  ASSUME ConfigAssumption, ConfigInv, Unlock
  PROVE  ConfigInv'
BY DEF Unlock, threads, ConfigInv, ConfigTypes, CurrentIsLast, Kept, Readership

(* Of the two that are allocated the one before conf_data is freed.        *)
LEMMA FreeOldKeeps ==
  ASSUME ConfigAssumption, ConfigInv, FreeOld
  PROVE  ConfigInv'
<1> USE DEF ConfigInv
<1>1. /\ signal = "free" /\ conf_data > 1 /\ conf_data = Len(heap) /\ Len(heap) \in Nat
      /\ heap \in Seq(Configurations \cup {Freed}) /\ signal' = "idle"
      /\ UNCHANGED <<conf_data, reading, writing, rpc, seen>>
  BY DEF FreeOld, CurrentIsLast, ConfigTypes, lock, threads
<1>2. /\ heap' \in Seq(Configurations \cup {Freed})
      /\ Len(heap') = Len(heap) /\ DOMAIN heap' = 1 .. Len(heap) /\ DOMAIN heap = 1 .. Len(heap)
      /\ \A a \in 1 .. Len(heap) :
           heap'[a] = IF a = Len(heap) - 1 THEN Freed ELSE heap[a]
  <2>1. heap' = [heap EXCEPT ![Len(heap) - 1] = Freed]
    BY DEF FreeOld
  <2>2. heap' \in Seq(Configurations \cup {Freed}) /\ Len(heap') = Len(heap)
    BY <1>1, <2>1
  <2> QED
    BY <1>1, <2>1, <2>2
<1>3. ConfigTypes' /\ CurrentIsLast'
  BY <1>1, <1>2 DEF ConfigTypes, CurrentIsLast
<1>4. Kept'
  <2>1. \A a \in 1 .. Len(heap) :
          heap[a] # Freed <=> (a = conf_data \/ a >= Len(heap) - 1)
    BY <1>1, <1>2 DEF Kept
  <2>2. \A a \in 1 .. Len(heap) : heap'[a] # Freed <=> (a = conf_data)
    <3> TAKE a \in 1 .. Len(heap)
    <3>1. a = conf_data \/ a = Len(heap) - 1 \/ a < Len(heap) - 1
      BY <1>1
    <3>2. heap'[a] = IF a = Len(heap) - 1 THEN Freed ELSE heap[a]
      BY <1>2
    <3>3. heap[a] # Freed <=> (a = conf_data \/ a >= Len(heap) - 1)
      BY <2>1
    <3>4. CASE a = conf_data
      <4>1. a # Len(heap) - 1
        BY <1>1, <3>4
      <4> QED
        BY <3>2, <3>3, <3>4, <4>1
    <3>5. CASE a = Len(heap) - 1
      <4>1. a # conf_data
        BY <1>1, <3>5
      <4> QED
        BY <3>2, <3>5, <4>1
    <3>6. CASE a < Len(heap) - 1
      <4>1. a # conf_data /\ a # Len(heap) - 1 /\ ~(a >= Len(heap) - 1)
        BY <1>1, <3>6
      <4> QED
        BY <3>2, <3>3, <4>1
    <3> QED
      BY <3>1, <3>4, <3>5, <3>6
  <2>3. OfStart(heap'[1])
    <3>1. OfStart(heap[1]) /\ OfStart(Freed) /\ 1 \in 1 .. Len(heap)
      <4>1. OfStart(heap[1]) /\ 1 \in 1 .. Len(heap)
        BY <1>1 DEF Kept
      <4>2. OfStart(Freed)
        BY DEF OfStart
      <4> QED
        BY <4>1, <4>2
    <3> QED
      BY <1>2, <3>1
  <2> QED
    BY <1>1, <1>2, <2>2, <2>3 DEF Kept
<1>5. Readership'
  BY <1>1 DEF Readership
<1> QED
  BY <1>3, <1>4, <1>5

(* A reader gets in only while no writer waits or writes.                  *)
LEMMA ReadLockKeeps ==
  ASSUME ConfigAssumption, ConfigInv, NEW r \in Readers, ReadLock(r)
  PROVE  ConfigInv'
<1> USE DEF ConfigInv, ReadLock
<1>1. ConfigTypes' /\ CurrentIsLast' /\ Kept'
  BY DEF ConfigTypes, CurrentIsLast, Kept
<1>2. Readership'
  BY DEF Readership, ConfigTypes, MayRead
<1> QED
  BY <1>1, <1>2

(* A reader looks at what is current, and it does not change meanwhile.    *)
LEMMA LookKeeps ==
  ASSUME ConfigAssumption, ConfigInv, NEW r \in Readers, Look(r)
  PROVE  ConfigInv'
<1> USE DEF ConfigInv, Look, lock
<1>1. ConfigTypes' /\ CurrentIsLast' /\ Kept'
  BY DEF ConfigTypes, CurrentIsLast, Kept
<1>2. Readership'
  BY DEF Readership, ConfigTypes
<1> QED
  BY <1>1, <1>2

(* A reader that has gone has nothing in view.                             *)
LEMMA UnlockReadKeeps ==
  ASSUME ConfigAssumption, ConfigInv, NEW r \in Readers, UnlockRead(r)
  PROVE  ConfigInv'
<1> USE DEF ConfigInv, UnlockRead
<1>1. ConfigTypes' /\ CurrentIsLast' /\ Kept'
  BY DEF ConfigTypes, CurrentIsLast, Kept
<1>2. Readership'
  BY DEF Readership, ConfigTypes
<1> QED
  BY <1>1, <1>2

(* Every step keeps the invariant.                                         *)
LEMMA ConfigInvariance == ConfigSpec => []ConfigInv
<1>1. ConfigInit => ConfigInv
  BY ConfigInitHolds
<1>2. ConfigInv /\ [ConfigNext]_configVars => ConfigInv'
  <2> SUFFICES ASSUME ConfigInv, [ConfigNext]_configVars PROVE ConfigInv'
    OBVIOUS
  <2> USE ConfigAssumption
  <2>1. CASE \E file \in Files \cup {NoFile} : InitConfig(file) \/ Reload(file)
    BY <2>1, InitConfigKeeps, ReloadKeeps
  <2>2. CASE Swap \/ Unlock \/ FreeOld
    BY <2>2, SwapKeeps, UnlockKeeps, FreeOldKeeps
  <2>3. CASE \E r \in Readers : Reader(r)
    BY <2>3, ReadLockKeeps, LookKeeps, UnlockReadKeeps DEF Reader
  <2>4. CASE UNCHANGED configVars
    BY <2>4 DEF configVars, ConfigInv, ConfigTypes, CurrentIsLast, Kept, Readership
  <2> QED
    BY <2>1, <2>2, <2>3, <2>4 DEF ConfigNext
<1> QED
  BY <1>1, <1>2, PTL DEF ConfigSpec

-----------------------------------------------------------------------------
(* config_lock is held by those who read, a writer is alone, and exactly the *)
(* current configuration is allocated and, during a reload, one more: none *)
(* is lost and none freed that is in use (config.c:293-300).               *)
THEOREM TypeCorrect == ConfigSpec => []TypeOK
<1>1. ConfigInv => TypeOK
  <2> SUFFICES ASSUME ConfigInv PROVE TypeOK
    OBVIOUS
  <2> USE DEF ConfigInv
  <2>1. conf_data \in 0 .. Len(heap)
    BY DEF ConfigTypes, CurrentIsLast
  <2> QED
    BY <2>1 DEF ConfigTypes, Kept, Readership, TypeOK
<1> QED
  BY <1>1, ConfigInvariance, PTL

(* From rdlock to unlock a thread reads one configuration and not a freed  *)
(* one, however many reloads go by (handler_static.c:126, response.c:61).  *)
THEOREM ReadersKeepOne == ConfigSpec => []ReadersSeeOneConfig
<1>1. ConfigInv => ReadersSeeOneConfig
  <2> SUFFICES ASSUME ConfigInv, NEW r \in Readers, NEW a \in seen[r], NEW b \in seen[r]
               PROVE  a = b /\ heap[a] # Freed
    BY DEF ReadersSeeOneConfig
  <2> USE DEF ConfigInv
  <2>1. a = conf_data /\ b = conf_data /\ conf_data > 0
    BY DEF Readership
  <2>2. conf_data \in DOMAIN heap
    BY <2>1 DEF ConfigTypes, CurrentIsLast
  <2> QED
    BY <2>1, <2>2 DEF Kept
<1> QED
  BY <1>1, ConfigInvariance, PTL

(* The current configuration is made of its file alone.                    *)
LEMMA CurrentIsMade ==
  ASSUME ConfigInv, conf_data # 0
  PROVE  \E file \in Files, flag \in BOOLEAN :
           heap[conf_data] = Made(file, flag) /\ (conf_data = 1 => ~flag)
<1> USE DEF ConfigInv
<1>1. heap \in Seq(Configurations \cup {Freed}) /\ conf_data \in DOMAIN heap
  BY DEF ConfigTypes, CurrentIsLast
<1>2. heap[conf_data] # Freed
  BY <1>1 DEF Kept
<1>3. heap[conf_data] \in Configurations
  BY <1>1, <1>2
<1>4. CASE conf_data = 1
  <2>1. Len(heap) > 0
    BY <1>1
  <2> QED
    BY <1>2, <1>4, <2>1 DEF Kept, OfStart
<1>5. CASE conf_data # 1
  BY <1>3, <1>5 DEF Configurations
<1> QED
  BY <1>4, <1>5

(* A reload gives every field what the last line for it in the file says,  *)
(* or its default, whatever was in force before and wherever bad lines are *)
(* skipped (config.c:84-88); dir_listing may be what malloc returned       *)
(* (config.c:210).                                                         *)
THEOREM FileIsInForce == ConfigSpec => []FileDecides
<1>1. ConfigInv => FileDecides
  <2> SUFFICES ASSUME ConfigInv, conf_data # 0 PROVE FileDecides
    BY DEF FileDecides
  <2> USE ConfigAssumption
  <2>1. PICK file \in Files, flag \in BOOLEAN :
          heap[conf_data] = Made(file, flag) /\ (conf_data = 1 => ~flag)
    BY CurrentIsMade
  <2> DEFINE c == heap[conf_data].conf
             path == Requested(file, "lock_file_path")
             kept == IF Len(path) > 0 /\ path[Len(path)] # "/" THEN Len(path) - 1 ELSE Len(path)
  <2>2. c = Parse(Fresh(flag), file) /\ heap[conf_data].from = file /\ file \in Seq(Lines)
    BY <2>1 DEF Made, ConfigAssumption
  <2>3. /\ \A k \in {"http_port", "server_user"} : c[k] = Requested(file, k)
        /\ \A m \in Latest(file, "dir_listing") : c.dir_listing = file[m].flag
        /\ Latest(file, "dir_listing") = {} => c.dir_listing = flag
        /\ c.lock_file_path = SubSeq(path, 1, kept)
    BY <2>2, ParsedFields
  <2>4. path \in Seq(STRING)
    <3>1. path \in Values("lock_file_path")
      BY <2>2, RequestedTypes DEF Keys, Strings, Numbers
    <3> QED
      BY <3>1 DEF Values, Numbers, Strings, Texts
  <2> HIDE DEF c, path
  <2>5. /\ Len(SubSeq(path, 1, kept)) = kept /\ kept \in Len(path) - 1 .. Len(path)
    BY <2>4
  <2>6. conf_data = 1 /\ Latest(file, "dir_listing") = {} => ~c.dir_listing
    BY <2>1, <2>3
  <2>7. \A k \in {"http_port", "server_user"} :
          IF EndsBad(file, k) THEN c[k] \in Given[k] ELSE c[k] = Requested(file, k)
    <3>1. file \in Files
      BY <2>1
    <3>2. \A k \in {"http_port", "server_user"} : Requested(file, k) \in Given[k]
      BY <3>1 DEF Given, Keys, Numbers, Strings
    <3> QED
      BY <2>3, <3>2
  <2> QED
    BY <2>2, <2>3, <2>5, <2>6, <2>7 DEF FileDecides, c, path
<1> QED
  BY <1>1, ConfigInvariance, PTL

(* Asked for no more than half of what the field can hold, a queue gets the *)
(* least power of two that is enough (util.c:38-49, config.c:198-199).     *)
THEOREM SizesArePowers == ConfigSpec => []PowerOfTwoSizes
<1>1. ConfigInv => PowerOfTwoSizes
  <2> SUFFICES ASSUME ConfigInv, conf_data # 0 PROVE PowerOfTwoSizes
    BY DEF PowerOfTwoSizes
  <2> USE ConfigAssumption
  <2>1. PICK file \in Files, flag \in BOOLEAN : heap[conf_data] = Made(file, flag)
    BY CurrentIsMade
  <2> DEFINE size == heap[conf_data].conf.conn_queue_size
             asked == Requested(file, "conn_queue_size")
  <2>2. heap[conf_data].from = file /\ file \in Seq(Lines)
    BY <2>1 DEF Made, ConfigAssumption
  <2>3. size = NextPowerOf2(asked) % Pow2[HalfBits]
    <3>1. heap[conf_data].conf = Parse(Fresh(flag), file)
      BY <2>1 DEF Made
    <3> QED
      BY <2>2, <3>1, ParsedFields
  <2>4. asked \in 0 .. Uint16Max
    <3>1. asked \in Values("conn_queue_size")
      BY <2>2, RequestedTypes DEF Keys, Strings, Numbers
    <3> QED
      BY <3>1 DEF Values, Numbers
  <2> HIDE DEF size, asked
  <2>5. PICK e \in 0 .. HalfBits :
          /\ NextPowerOf2(asked) = Pow2[e] /\ asked <= Pow2[e]
          /\ IF asked < 2 THEN e = 0 ELSE e > 0 /\ Pow2[e - 1] < asked
    BY <2>4, RoundsUp
  <2>6. /\ HalfBits \in 1 .. Wide /\ Wide \in Nat /\ e \in 0 .. Wide
        /\ HalfBits - 1 \in 0 .. Wide /\ HalfBits \in 0 .. Wide
    BY DEF ConfigAssumption, Wide
  <2>7. /\ Pow2[HalfBits] \in Nat /\ Pow2[HalfBits] = 2 * Pow2[HalfBits - 1]
        /\ Pow2[HalfBits - 1] \in Nat /\ Pow2[HalfBits - 1] >= 1 /\ Pow2[e] \in Nat
    BY <2>6, Pow2Steps, Pow2Grows
  <2>8. asked \in Nat /\ asked < Pow2[HalfBits]
    BY <2>4, <2>7 DEF Uint16Max
  <2>9. CASE e = HalfBits
    <3>1. asked >= 2 /\ Pow2[HalfBits - 1] < asked
      BY <2>5, <2>6, <2>8, <2>9
    <3> QED
      BY <2>2, <2>7, <2>8, <3>1 DEF PowerOfTwoSizes, asked
  <2>10. CASE e < HalfBits
    <3>1. Pow2[e] < Pow2[HalfBits] /\ Pow2[e] <= Pow2[HalfBits - 1]
      <4>1. 2 * Pow2[e] <= Pow2[HalfBits]
        BY <2>6, <2>10, Pow2Grows
      <4> QED
        BY <2>7, <4>1
    <3>2. size = Pow2[e]
      BY <2>3, <2>5, <2>7, <3>1, DivBelow
    <3>3. asked <= Pow2[HalfBits - 1]
      BY <2>5, <2>7, <2>8, <3>1
    <3>4. size >= asked /\ (asked > 0 => size < 2 * asked)
      <4>1. CASE asked < 2
        BY <2>5, <2>8, <3>2, <4>1, Pow2Steps
      <4>2. CASE asked >= 2
        <5>1. e - 1 \in 0 .. Wide - 1 /\ e - 1 + 1 = e /\ e \in 1 .. Wide
          BY <2>5, <2>6, <2>8, <4>2
        <5>2. Pow2[e] = 2 * Pow2[e - 1] /\ Pow2[e - 1] \in Nat
          BY <2>6, <5>1, Pow2Steps
        <5> QED
          BY <2>5, <2>7, <2>8, <3>2, <4>2, <5>2
      <4> QED
        BY <2>8, <4>1, <4>2
    <3>5. e \in 0 .. HalfBits - 1
      BY <2>5, <2>6, <2>10 DEF ConfigAssumption
    <3> QED
      BY <2>2, <3>2, <3>4, <3>5 DEF PowerOfTwoSizes, size, asked
  <2> QED
    BY <2>5, <2>6, <2>9, <2>10
<1> QED
  BY <1>1, ConfigInvariance, PTL
=============================================================================
