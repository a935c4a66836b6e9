------------------------------- MODULE Config -------------------------------
(***************************************************************************)
(* The configuration (src/src/config.c): how the lines of the file become  *)
(* a config_data, init_config at the start, and reload_configuration on a  *)
(* SIGHUP against the threads that read conf_data under config_lock.       *)
(*                                                                         *)
(* One key of each kind cfg_map knows stands for its like. A line is blank *)
(* (or a comment), has no '=', or gives a key a trimmed value that reads   *)
(* as a number (no text at all as 0), as a flag, or just as a text.        *)
(*                                                                         *)
(* The names are not those of Daemon, the other half of the process: one   *)
(* module proves theorems about both.                                      *)
(***************************************************************************)
EXTENDS Integers, Sequences, FiniteSets

CONSTANTS
  Files,       \* contents the administrator may give the file
  NoFile,      \* no file that can be opened
  Readers,     \* threads that read the configuration
  HalfBits,    \* bits of a uint16_t
  Defaults,    \* load_config_defaults: all fields but dir_listing
  MaxLen,      \* of each string field, its size
  MaxReloads   \* bound of the number of SIGHUPs

Wide == 2 * HalfBits   \* bits of a uint32_t

Pow2[n \in 0 .. Wide] == IF n = 0 THEN 1 ELSE 2 * Pow2[n - 1]

Uint16Max == Pow2[HalfBits] - 1
Numbers == {"http_port", "conn_queue_size"}
Strings == {"lock_file_path", "server_user"}
Keys    == Numbers \cup Strings \cup {"dir_listing"}
Texts   == Seq(STRING)
Blank   == [is |-> "blank"]
Lines   == [is : {"blank", "nodelim"}]
           \cup [key : Strings, text : Texts]
           \cup [key : STRING \ Strings, text : Texts]
           \cup [key : STRING \ Strings, number : Int]
           \cup [key : STRING \ Strings, flag : BOOLEAN]
Freed   == [from |-> NoFile]   \* what an address holds after free()

ASSUME ConfigAssumption ==
  /\ HalfBits \in 1 .. 16 /\ MaxReloads \in Nat
  /\ Files \subseteq Seq(Lines) /\ NoFile \notin Files
  /\ MaxLen \in [Strings -> Nat \ {0}]
  /\ Defaults \in [http_port : 0 .. Uint16Max, conn_queue_size : 0 .. Uint16Max,
                   lock_file_path : Texts, server_user : Texts]

VARIABLES
  heap,        \* by address, the configurations: fields, and what file they are from
  conf_data,   \* address of the current one, 0 before init_config
  reading,     \* readers that hold config_lock
  writing,     \* config_lock is held for writing
  rpc, seen,   \* of each reader: where it is, the addresses it looked at
  signal,      \* where reload_configuration is in the signal thread
  reloads      \* SIGHUPs handled

configVars == <<heap, conf_data, reading, writing, rpc, seen, signal, reloads>>
lock == <<conf_data, reading, writing>>
threads == <<rpc, seen>>

-----------------------------------------------------------------------------
(* A number as the set of its bits, and back; v |= v >> k.                 *)
Bits(v) == {i \in 0 .. Wide - 1 : (v \div Pow2[i]) % 2 = 1}

FromBits(bits) ==
  LET sum[i \in 0 .. Wide] ==
        IF i = 0 THEN 0
        ELSE IF i - 1 \in bits THEN sum[i - 1] + Pow2[i - 1] ELSE sum[i - 1]
  IN  sum[Wide]

Smear(bits, k) == bits \cup {i \in 0 .. Wide - 1 : i + k \in bits}

(* The highest bit smeared over all lower ones.                            *)
Smeared(v) == FromBits(Smear(Smear(Smear(Smear(Smear(Bits(v), 1), 2), 4), 8), 16))

-----------------------------------------------------------------------------
(***************************************************************************)
(* Mistakes this code could have.                                          *)
(***************************************************************************)

(* next_power_of_2 without the first decrement.                            *)
NextPowerOf2TooBig(n) == (Smeared(n) + 1) % Pow2[Wide]

(* Without config_lock.                                                    *)
SwapUnlocked ==
  /\ signal = "wrlock"
  /\ writing' = TRUE /\ signal' = "locked" /\ conf_data' = Len(heap)
  /\ UNCHANGED <<heap, reading, threads, reloads>>

(* Readers are let in while a writer waits, or while one writes.           *)
MayReadFirst == ~writing
MayReadAnytime == signal # "wrlock"

-----------------------------------------------------------------------------
(***************************************************************************)
(* The file.                                                               *)
(***************************************************************************)

(* next_power_of_2: a decrement, the smearing, an increment, in 32 bits.   *)
NextPowerOf2(n) ==
  LET up == (Smeared((n - 1) % Pow2[Wide]) + 1) % Pow2[Wide]
  IN  IF up = 0 THEN 1 ELSE up

(* Whether a line sets its key. One that does not, and is not blank, makes *)
(* handle_cfg_error run.                                                   *)
Sets(line) ==
  /\ "key" \in DOMAIN line
  /\ \/ line.key = "dir_listing" /\ "flag" \in DOMAIN line
     \/ line.key \in Numbers /\ "number" \in DOMAIN line /\ line.number \in 0 .. Uint16Max
     \/ line.key \in Strings /\ Len(line.text) < MaxLen[line.key]

Bad(line) == line # Blank /\ ~Sets(line)

Value(line) ==
  CASE line.key \in Numbers -> line.number
    [] line.key \in Strings -> line.text
    [] OTHER                -> line.flag

(* The size is rounded in 32 bits and stored in 16; the path loses its     *)
(* last character unless that is a slash. (An empty path has none: the byte*)
(* in front of the field is overwritten, the unused last one of doc_root.) *)
PostProcess(c) ==
  LET path == c.lock_file_path
      n == Len(path)
      chop == n > 0 /\ path[n] # "/"
  IN  [c EXCEPT !.conn_queue_size = NextPowerOf2(@) % Pow2[HalfBits],
                !.lock_file_path = SubSeq(path, 1, IF chop THEN n - 1 ELSE n)]

(* A mistake this code could have: a bad line of a file that is read again *)
(* ends its parsing.                                                       *)
ParseToFirstBad(start, lines) ==
  LET after[k \in 0 .. Len(lines)] ==
        IF k = 0 THEN start
        ELSE IF Sets(lines[k]) /\ \A j \in 1 .. k : ~Bad(lines[j])
             THEN [after[k - 1] EXCEPT ![lines[k].key] = Value(lines[k])]
             ELSE after[k - 1]
  IN  PostProcess(after[Len(lines)])

(* parse_and_validate_config_file: a later line overrides an earlier one,  *)
(* a bad one leaves what is there.                                         *)
Parse(start, lines) ==
  LET after[k \in 0 .. Len(lines)] ==
        IF k = 0 THEN start
        ELSE IF Sets(lines[k]) THEN [after[k - 1] EXCEPT ![lines[k].key] = Value(lines[k])]
        ELSE after[k - 1]
  IN  PostProcess(after[Len(lines)])

(* load_config_defaults leaves dir_listing as the allocator gave it.       *)
Fresh(flag) == [k \in Keys |-> IF k = "dir_listing" THEN flag ELSE Defaults[k]]

Allocate(file, flag) ==
  heap' = Append(heap, [conf |-> Parse(Fresh(flag), file), from |-> file])

-----------------------------------------------------------------------------
(***************************************************************************)
(* The signal thread and the readers. The file is what the administrator   *)
(* has made of it by the time it is read.                                  *)
(***************************************************************************)
ConfigInit ==
  /\ heap = << >> /\ conf_data = 0 /\ reading = {} /\ writing = FALSE
  /\ rpc = [r \in Readers |-> "idle"] /\ seen = [r \in Readers |-> {}]
  /\ signal = "start" /\ reloads = 0

(* init_config: calloc; any error ends the program.                        *)
InitConfig(file) ==
  /\ signal = "start"
  /\ IF file = NoFile \/ \E k \in DOMAIN file : Bad(file[k])
     THEN signal' = "exited" /\ UNCHANGED <<heap, conf_data>>
     ELSE signal' = "idle" /\ Allocate(file, FALSE) /\ conf_data' = 1
  /\ UNCHANGED <<reading, writing, threads, reloads>>

(* reload_configuration: malloc; with no memory or no file the current one *)
(* stays. A bad line is only logged.                                       *)
Reload(file) ==
  /\ signal = "idle" /\ reloads < MaxReloads
  /\ reloads' = reloads + 1
  /\ \/ signal' = "idle" /\ UNCHANGED heap
     \/ /\ file # NoFile
        /\ \E flag \in BOOLEAN : Allocate(file, flag)
        /\ signal' = "wrlock"
  /\ UNCHANGED <<lock, threads>>

Swap ==
  /\ signal = "wrlock" /\ reading = {}
  /\ writing' = TRUE /\ signal' = "locked" /\ conf_data' = Len(heap)
  /\ UNCHANGED <<heap, reading, threads, reloads>>

Unlock ==
  /\ signal = "locked"
  /\ writing' = FALSE /\ signal' = "free"
  /\ UNCHANGED <<heap, conf_data, reading, threads, reloads>>

FreeOld ==
  /\ signal = "free"
  /\ heap' = [heap EXCEPT ![Len(heap) - 1] = Freed] /\ signal' = "idle"
  /\ UNCHANGED <<lock, threads, reloads>>

(* With PTHREAD_RWLOCK_PREFER_WRITER_NONRECURSIVE_NP a waiting writer goes *)
(* before any new reader.                                                  *)
MayRead == ~writing /\ signal # "wrlock"

(* Every reader locks, looks at a field or at the bytes of one (strncpy),  *)
(* and unlocks.                                                            *)
ReadLock(r) ==
  /\ rpc[r] = "idle" /\ conf_data # 0 /\ MayRead
  /\ reading' = reading \cup {r} /\ rpc' = [rpc EXCEPT ![r] = "first"]
  /\ UNCHANGED <<heap, conf_data, writing, seen, signal, reloads>>

Look(r) ==
  /\ rpc[r] \in {"first", "second"}
  /\ seen' = [seen EXCEPT ![r] = @ \cup {conf_data}]
  /\ rpc' = [rpc EXCEPT ![r] = IF @ = "first" THEN "second" ELSE "unlock"]
  /\ UNCHANGED <<heap, lock, signal, reloads>>

UnlockRead(r) ==
  /\ rpc[r] = "unlock"
  /\ reading' = reading \ {r}
  /\ rpc' = [rpc EXCEPT ![r] = "idle"] /\ seen' = [seen EXCEPT ![r] = {}]
  /\ UNCHANGED <<heap, conf_data, writing, signal, reloads>>

Reader(r) == ReadLock(r) \/ Look(r) \/ UnlockRead(r)

ConfigNext ==
  \/ \E file \in Files \cup {NoFile} : InitConfig(file) \/ Reload(file)
  \/ Swap \/ Unlock \/ FreeOld
  \/ \E r \in Readers : Reader(r)

(* The threads are scheduled; nobody has to send a SIGHUP or to read.      *)
ConfigFairness ==
  /\ WF_configVars(Swap) /\ WF_configVars(Unlock) /\ WF_configVars(FreeOld)
  /\ \A r \in Readers : WF_configVars(Look(r)) /\ WF_configVars(UnlockRead(r))

ConfigSpec == ConfigInit /\ [][ConfigNext]_configVars /\ ConfigFairness

-----------------------------------------------------------------------------
(* Only the current configuration and, during a reload, one more are       *)
(* allocated; a writer has the lock alone.                                 *)
TypeOK ==
  /\ conf_data \in 0 .. Len(heap)
  /\ signal \in {"start", "exited", "idle", "wrlock", "locked", "free"}
  /\ reading = {r \in Readers : rpc[r] # "idle"}
  /\ \A a \in DOMAIN heap :
       heap[a] # Freed <=> \/ a = conf_data
                           \/ signal \in {"wrlock", "locked", "free"} /\ a >= Len(heap) - 1
  /\ writing => reading = {}

(* A reader works with one configuration from lock to unlock, though its   *)
(* copy of a path takes many steps and conf_data changes under it, and one *)
(* that is not freed (handler_static.c:126, response.c:61).                *)
ReadersSeeOneConfig ==
  \A r \in Readers : \A a, b \in seen[r] : a = b /\ heap[a] # Freed

(* The last line of a file that gives k a value the code accepts.          *)
Latest(lines, k) ==
  {n \in DOMAIN lines : /\ Sets(lines[n]) /\ lines[n].key = k
                        /\ \A m \in n + 1 .. Len(lines) : ~(Sets(lines[m]) /\ lines[m].key = k)}

Requested(lines, k) ==
  IF Latest(lines, k) = {} THEN Defaults[k]
  ELSE Value(lines[CHOOSE n \in Latest(lines, k) : TRUE])

(* A line for k after which no good one for k comes, though k is written   *)
(* there: what it has to say of k is lost.                                 *)
EndsBad(lines, k) ==
  \E n \in DOMAIN lines :
    /\ Bad(lines[n]) /\ "key" \in DOMAIN lines[n] /\ lines[n].key = k
    /\ \A m \in n + 1 .. Len(lines) : ~(Sets(lines[m]) /\ lines[m].key = k)

(* What the good lines of any file, or a default, give k.                  *)
Given == [k \in Keys \ {"dir_listing"} |-> {Requested(file, k) : file \in Files}]

(* The file decides, for a reload as for a start: a field has what the last*)
(* line for it says, wherever other lines are bad, and its default when it *)
(* has none; nothing is left of the configuration before. Where the last   *)
(* line for a field is bad, a start refuses the file and a reload promises *)
(* an "original value" (config.c:84-88), which may be the default as well  *)
(* as the one in force: no more is asked than that it is one some good     *)
(* file gives, never something made of the bad line. dir_listing has no    *)
(* default (config.c:210) and may be anything if a reload does not set it. *)
FileDecides ==
  conf_data # 0 =>
    LET c == heap[conf_data].conf
        lines == heap[conf_data].from
        path == Requested(lines, "lock_file_path")
        kept == Len(c.lock_file_path)
    IN  /\ \A k \in {"http_port", "server_user"} :
             IF EndsBad(lines, k) THEN c[k] \in Given[k] ELSE c[k] = Requested(lines, k)
        /\ \A n \in Latest(lines, "dir_listing") :
             EndsBad(lines, "dir_listing") \/ c.dir_listing = lines[n].flag
        /\ conf_data = 1 /\ Latest(lines, "dir_listing") = {} => ~c.dir_listing
        /\ \/ EndsBad(lines, "lock_file_path")
           \/ /\ c.lock_file_path = SubSeq(path, 1, kept)
              /\ kept \in Len(path) - 1 .. Len(path)

(* The queues need a power of two, and get the least one that holds what   *)
(* was asked for, up to half of the range. (Above that the power does not  *)
(* fit into the field, and 0 is stored: not claimed here to be right.)     *)
PowerOfTwoSizes ==
  conf_data # 0 =>
    LET size == heap[conf_data].conf.conn_queue_size
        lines == heap[conf_data].from
        asked == Requested(lines, "conn_queue_size")
    IN  asked <= Pow2[HalfBits - 1] /\ ~EndsBad(lines, "conn_queue_size") =>
          /\ \E e \in 0 .. HalfBits - 1 : size = Pow2[e]
          /\ size >= asked /\ (asked > 0 => size < 2 * asked)

(* However many readers come and go, a reload comes to its end: they do    *)
(* not starve the writer.                                                  *)
ReloadCompletes == signal = "wrlock" ~> signal = "idle"
=============================================================================
