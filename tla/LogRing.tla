------------------------------ MODULE LogRing ------------------------------
(***************************************************************************)
(* The logger of src/src/logger.c: every thread formats its messages and   *)
(* puts them into a ring (log_write); one logger thread takes them out in  *)
(* batches and writes them to the access log and the event log. A full ring*)
(* drops access messages and blocks the writers of event messages.         *)
(*                                                                         *)
(* As in WorkQueue a critical section is one action and the wait set of    *)
(* each condition variable is explicit. The logger is also a writer: it    *)
(* reports a failed write with l_warn, through its own ring.               *)
(***************************************************************************)
EXTENDS Integers, Sequences, SequencesExt, Selection

CONSTANTS
  Producers,  \* the threads that log, the logger thread excepted
  Logger,     \* the logger thread
  Size,       \* ring_size: log_queue_size rounded up to a power of two
  Batch,      \* BATCH_SIZE
  MaxWrites,  \* bound: messages per producer
  JoinFirst,  \* TRUE: the producers have ended when logger_shutdown is called
  Faults,     \* the files a writev may fail on: subset of {"access", "event"}
  NoMsg       \* content of a slot or variable never written

ASSUME LogAssumption ==
  /\ Size \in Nat \ {0} /\ Batch \in Nat \ {0} /\ MaxWrites \in Nat
  /\ Logger \notin Producers
  /\ JoinFirst \in BOOLEAN
  /\ Faults \subseteq {"access", "event"}

VARIABLES
  entries, head, tail,  \* the fields of log_ring_t
  shutdown,   \* the flag of logger_t
  not_empty,  \* TRUE while the logger sleeps on not_empty
  not_full,   \* the threads asleep on not_full
  pc,         \* what each thread is doing: see TypeOK
  msg, next,  \* per thread: its locals entry and next_tail in log_write
  written,    \* number of messages each producer has handed to log_write
  batch,      \* local_batch of the logger, what is still to be written
  owed,       \* history: event messages stored, not written and not given up
  spoiled     \* history: a message was stored with an outdated next_tail, or
              \* the events of a batch were skipped

ring == <<entries, head, tail>>
history == <<written, owed, spoiled>>
vars == <<ring, shutdown, not_empty, not_full, pc, msg, next, batch, history>>

Threads == Producers \cup {Logger}
Slots == 0 .. Size - 1
Messages == [from : Threads, n : 0 .. MaxWrites, target : {"access", "event"}]

ASSUME NoMsgAssumption == NoMsg \notin Messages

(* The mask ring_size - 1 of the code is a remainder: it is a power of two.*)
After(i) == (i + 1) % Size

Count == (tail - head) % Size

Queued == [i \in 1 .. Count |-> entries[(head + i - 1) % Size]]

-----------------------------------------------------------------------------
Init ==
  /\ entries = [i \in Slots |-> NoMsg] /\ head = 0 /\ tail = 0
  /\ shutdown = FALSE
  /\ not_empty = FALSE /\ not_full = {}
  /\ pc = [t \in Threads |-> IF t = Logger THEN "grab" ELSE "idle"]
  /\ msg = [t \in Threads |-> NoMsg]
  /\ next = [t \in Threads |-> 0]
  /\ written = [t \in Producers |-> 0]
  /\ batch = << >> /\ owed = << >> /\ spoiled = FALSE

(* log_write returns to its caller, and its locals are gone.               *)
Return(t) ==
  /\ pc' = [pc EXCEPT ![t] = IF t = Logger THEN "grab" ELSE "idle"]
  /\ msg' = [msg EXCEPT ![t] = NoMsg]
  /\ next' = [next EXCEPT ![t] = 0]

Sleep(t) == not_full' = not_full \cup {t}

(***************************************************************************)
(* Mistakes this code could have: each is a definition below with one      *)
(* thing wrong, and breaks a property stated at the end.                   *)
(***************************************************************************)

(* A message is stored and the logger is not told.                         *)
StoreSilently(t, m, nextTail) ==
  /\ entries' = [entries EXCEPT ![tail] = m]
  /\ tail' = nextTail
  /\ Return(t)
  /\ owed' = IF m.target = "event" /\ t # Logger THEN Append(owed, m) ELSE owed
  /\ spoiled' = (spoiled \/ nextTail # After(tail))
  /\ UNCHANGED <<head, not_empty, not_full>>

(* A full ring is overwritten.                                             *)
WriteOver(t, m) ==
  /\ entries' = [entries EXCEPT ![tail] = m]
  /\ tail' = After(tail)
  /\ not_empty' = FALSE
  /\ Return(t)
  /\ owed' = IF m.target = "event" /\ t # Logger THEN Append(owed, m) ELSE owed
  /\ UNCHANGED <<head, not_full, spoiled, shutdown, batch>>

(* The whole ring is taken, whatever the size of the batch array.          *)
GrabAll ==
  /\ pc[Logger] = "grab" /\ ~not_empty
  /\ head # tail
  /\ batch' = Queued /\ head' = tail
  /\ not_full' = {}
  /\ pc' = [pc EXCEPT ![Logger] = "access"]
  /\ UNCHANGED <<entries, tail, shutdown, not_empty, msg, next, history>>

(* Space is made and the blocked writers are not told.                     *)
GrabSilently ==
  /\ pc[Logger] = "grab" /\ ~not_empty
  /\ head # tail
  /\ LET n == IF Count < Batch THEN Count ELSE Batch
     IN  batch' = SubSeq(Queued, 1, n) /\ head' = (head + n) % Size
  /\ pc' = [pc EXCEPT ![Logger] = "access"]
  /\ UNCHANGED <<entries, tail, shutdown, not_empty, not_full, msg, next, history>>

(* The flag is set and the logger sleeps on.                               *)
ShutdownSilently ==
  /\ ~shutdown
  /\ JoinFirst => \A p \in Producers : pc[p] = "idle"
  /\ shutdown' = TRUE
  /\ UNCHANGED <<ring, not_empty, not_full, pc, msg, next, batch, history>>

-----------------------------------------------------------------------------
(* The end of log_write: store m at the tail, make nextTail the tail.      *)
Store(t, m, nextTail) ==
  /\ entries' = [entries EXCEPT ![tail] = m]
  /\ tail' = nextTail
  /\ not_empty' = FALSE
  /\ Return(t)
  /\ owed' = IF m.target = "event" /\ t # Logger THEN Append(owed, m) ELSE owed
  /\ spoiled' = (spoiled \/ nextTail # After(tail))
  /\ UNCHANGED <<head, not_full>>

(* log_write up to its first pthread_cond_wait. next_tail is computed here,*)
(* before the wait. A full ring drops an access message and makes an event *)
(* message wait, or drops it if the logger is shutting down.               *)
Write(t, m) ==
  LET full == After(tail) = head IN
  /\ \/ /\ ~full
        /\ Store(t, m, After(tail))
     \/ /\ full /\ (m.target = "access" \/ shutdown)
        /\ Return(t)
        /\ UNCHANGED <<ring, not_empty, not_full, owed, spoiled>>
     \/ /\ full /\ m.target = "event" /\ ~shutdown
        /\ Sleep(t)
        /\ pc' = [pc EXCEPT ![t] = "wait"]
        /\ msg' = [msg EXCEPT ![t] = m]
        /\ next' = [next EXCEPT ![t] = After(tail)]
        /\ UNCHANGED <<ring, not_empty, owed, spoiled>>
  /\ UNCHANGED <<shutdown, batch>>

LogWrite(p, target) ==
  /\ pc[p] = "idle" /\ written[p] < MaxWrites /\ pc[Logger] # "exit"
  /\ JoinFirst => ~shutdown
  /\ written' = [written EXCEPT ![p] = @ + 1]
  /\ Write(p, [from |-> p, n |-> written[p], target |-> target])

(* A thread woken from not_full: its next_tail is the one of before.       *)
Resume(t) ==
  /\ pc[t] = "wait" /\ t \notin not_full /\ pc[Logger] # "exit"
  /\ \/ /\ shutdown
        /\ Return(t)
        /\ UNCHANGED <<ring, not_empty, not_full, owed, spoiled>>
     \/ /\ ~shutdown /\ next[t] = head
        /\ Sleep(t)
        /\ UNCHANGED <<ring, not_empty, pc, msg, next, owed, spoiled>>
     \/ /\ ~shutdown /\ next[t] # head
        /\ Store(t, msg[t], next[t])
  /\ UNCHANGED <<shutdown, batch, written>>

-----------------------------------------------------------------------------
(* logger_thread                                                           *)
LoggerSleep ==
  /\ pc[Logger] = "grab" /\ ~not_empty
  /\ head = tail /\ ~shutdown
  /\ not_empty' = TRUE
  /\ UNCHANGED <<ring, shutdown, not_full, pc, msg, next, batch, history>>

LoggerExit ==
  /\ pc[Logger] = "grab" /\ ~not_empty
  /\ head = tail /\ shutdown
  /\ pc' = [pc EXCEPT ![Logger] = "exit"]
  /\ UNCHANGED <<ring, shutdown, not_empty, not_full, msg, next, batch, history>>

(* Take up to BATCH_SIZE entries and wake every blocked writer.            *)
Grab ==
  /\ pc[Logger] = "grab" /\ ~not_empty
  /\ head # tail
  /\ LET n == IF Count < Batch THEN Count ELSE Batch
     IN  /\ batch' = SubSeq(Queued, 1, n)
         /\ head' = (head + n) % Size
  /\ not_full' = {}
  /\ pc' = [pc EXCEPT ![Logger] = "access"]
  /\ UNCHANGED <<entries, tail, shutdown, not_empty, msg, next, history>>

Has(target) == \E i \in DOMAIN batch : batch[i].target = target

Events == [from : Producers, n : 0 .. MaxWrites, target : {"event"}]

EventsOf(s) == Select(s, Events)

WriteAccess ==
  /\ pc[Logger] = "access"
  /\ pc' = [pc EXCEPT ![Logger] = "event"]
  /\ UNCHANGED <<ring, shutdown, not_empty, not_full, msg, next, batch, history>>

(* writev on the access log fails: warn and continue with the next batch,  *)
(* the events of this one unwritten.                                       *)
WriteAccessFails ==
  /\ pc[Logger] = "access" /\ Has("access") /\ "access" \in Faults
  /\ pc' = [pc EXCEPT ![Logger] = "warn"]
  /\ spoiled' = (spoiled \/ Has("event"))
  /\ batch' = << >>
  /\ UNCHANGED <<ring, shutdown, not_empty, not_full, msg, next, written, owed>>

SettleBatch ==
  /\ owed' = Select(owed, Messages \ ToSet(batch))
  /\ batch' = << >>

WriteEvent ==
  /\ pc[Logger] = "event"
  /\ pc' = [pc EXCEPT ![Logger] = "grab"]
  /\ SettleBatch
  /\ UNCHANGED <<ring, shutdown, not_empty, not_full, msg, next, written, spoiled>>

(* writev on the event log fails: its messages are given up, with a        *)
(* warning.                                                                *)
WriteEventFails ==
  /\ pc[Logger] = "event" /\ Has("event") /\ "event" \in Faults
  /\ pc' = [pc EXCEPT ![Logger] = "warn"]
  /\ SettleBatch
  /\ UNCHANGED <<ring, shutdown, not_empty, not_full, msg, next, written, spoiled>>

Warn ==
  /\ pc[Logger] = "warn"
  /\ Write(Logger, [from |-> Logger, n |-> 0, target |-> "event"])
  /\ UNCHANGED written

(* logger_shutdown, up to the join.                                        *)
Shutdown ==
  /\ ~shutdown
  /\ JoinFirst => \A p \in Producers : pc[p] = "idle"
  /\ shutdown' = TRUE
  /\ not_empty' = FALSE /\ not_full' = {}
  /\ UNCHANGED <<ring, pc, msg, next, batch, history>>

(* POSIX lets pthread_cond_wait return without a signal.                   *)
SpuriousWakeup(t) ==
  /\ t \in not_full \/ (t = Logger /\ not_empty)
  /\ not_full' = not_full \ {t}
  /\ not_empty' = (not_empty /\ t # Logger)
  /\ UNCHANGED <<ring, shutdown, pc, msg, next, batch, history>>

-----------------------------------------------------------------------------
LoggerStep ==
  \/ LoggerSleep \/ LoggerExit \/ Grab \/ WriteAccess \/ WriteAccessFails
  \/ WriteEvent \/ WriteEventFails \/ Warn \/ Resume(Logger)

Next ==
  \/ \E p \in Producers : \E target \in {"access", "event"} : LogWrite(p, target)
  \/ \E p \in Producers : Resume(p)
  \/ LoggerStep
  \/ Shutdown
  \/ \E t \in Threads : SpuriousWakeup(t)

Spec == Init /\ [][Next]_vars

(* A thread that can run is eventually scheduled; nothing makes a producer *)
(* log or the server shut down.                                            *)
FairSpec ==
  /\ Spec
  /\ WF_vars(LoggerStep)
  /\ \A p \in Producers : WF_vars(Resume(p))

-----------------------------------------------------------------------------
(* The indices stay inside the ring, a batch inside its array, and a thread*)
(* asleep on not_full is one that waits in log_write.                      *)
TypeOK ==
  /\ entries \in [Slots -> Messages \cup {NoMsg}]
  /\ head \in Slots /\ tail \in Slots
  /\ shutdown \in BOOLEAN /\ not_empty \in BOOLEAN /\ spoiled \in BOOLEAN
  /\ pc \in [Threads -> {"idle", "wait", "grab", "access", "event", "warn", "exit"}]
  /\ not_full \subseteq {t \in Threads : pc[t] = "wait"}
  /\ not_empty => pc[Logger] = "grab"
  /\ msg \in [Threads -> Messages \cup {NoMsg}]
  /\ next \in [Threads -> Slots]
  /\ written \in [Producers -> 0 .. MaxWrites]
  /\ batch \in Seq(Messages) /\ Len(batch) <= Batch
  /\ owed \in Seq(Messages)

(***************************************************************************)
(* EventsAccounted (log_write, logger_thread): as long as no message has   *)
(* been stored with an outdated next_tail and no batch has been cut short  *)
(* by a failed access write, the event messages accepted and not yet       *)
(* written are those of the batch and of the ring, each once, in the order *)
(* they were accepted.                                                     *)
(***************************************************************************)
EventsAccounted == ~spoiled => owed = EventsOf(batch \o Queued)

(* WakeupsReachLogger (log_write, logger_shutdown): the logger sleeps only *)
(* beside an empty ring, and never through a shutdown; no writer sleeps    *)
(* through a shutdown either.                                              *)
WakeupsReachLogger ==
  /\ not_empty => head = tail /\ ~shutdown
  /\ shutdown => not_full = {}

(* BlockedWritersMove (log_write, logger_thread): a blocked writer gets on *)
(* unless its next_tail becomes outdated, the logger itself is blocked on  *)
(* the full ring by a warning of its own, or the logger shuts down.        *)
BlockedWritersMove ==
  \A p \in Producers :
    (pc[p] = "wait") ~>
      (pc[p] # "wait" \/ next[p] # After(tail) \/ pc[Logger] = "wait" \/ shutdown)

(* ShutdownDrains (logger_shutdown): "Wait for the logger to finish        *)
(* draining the ring" (logger.c:266) ends, if the event log can be written *)
(* to from some time on; the access log may fail for ever.                 *)
ShutdownDrains ==
  <>[][~WriteEventFails]_vars => (shutdown ~> pc[Logger] = "exit")

(* EventsKept: "threads will block until space is available for event log  *)
(* messages" (celeritas.conf.dist:57), they are not dropped. Those accepted*)
(* and not yet written are still in the batch or in the ring.              *)
EventsKept == ToSet(owed) \subseteq ToSet(batch \o Queued)
=============================================================================
