------------------------------- MODULE Logger -------------------------------
(***************************************************************************)
(* Logger: threads call write_log, which counts the line, changes the file *)
(* on a new day or after m_split_lines lines, and then queues the line for *)
(* the writer thread or, if init got no queue_size, writes it itself.      *)
(* m_close_log is false.                                                   *)
(*                                                                         *)
(* The queue is the one BoundedFifo specifies.  The stream has no lock of  *)
(* its own: the writer thread uses it while a rotation closes and opens it.*)
(* Each call on it is one step here; a line written between close and open *)
(* goes nowhere.  write_log reads tm_mday several times under the mutex;   *)
(* the model reads it once.                                                *)
(***************************************************************************)
EXTENDS Naturals, Sequences, FiniteSets, SequencesExt

CONSTANTS
  Callers,        (* the threads that log                                  *)
  Lines,          (* bound: lines each of them logs                        *)
  m_split_lines,
  QueueSizes,     (* what init is called with as queue_size                *)
  Days,           (* bound: the days that the clock goes through           *)
  NoLine          (* the writer has no line in hand                        *)

ASSUME LoggerAssumption ==
  /\ IsFiniteSet(Callers) /\ Callers # {}
  /\ Lines \in Nat \ {0} /\ m_split_lines \in Nat \ {0}
  /\ QueueSizes \subseteq Nat /\ Days \in Nat \ {0}

VARIABLES
  queue_size,         (* capacity of m_log_queue, 0 if there is none       *)
  today,              (* the day that time() returns                       *)
  tm_mday,            (* the day in the static buffer of localtime()       *)
  m_count, m_today,
  m_mutex,            (* the callers that hold the mutex: none or one      *)
  m_log_queue, m_done,
  m_log_filestream,   (* the open file, or Closed                          *)
  files,              (* the lines in each log file                        *)
  pc, current_time, calls,   (* per caller: position, time(), lines logged *)
  new_log_path,       (* the file that the rotation under way will open    *)
  hand,               (* one_log of the writer thread                      *)
  wpc,                (* the writer thread: run, exit                      *)
  lost                (* history: lines written to a closed stream         *)

vars == <<queue_size, today, tm_mday, m_count, m_today, m_mutex, m_log_queue, m_done,
          m_log_filestream, files, pc, current_time, calls, new_log_path, hand, wpc, lost>>

callerVars == <<pc, current_time, calls, m_count, m_today, m_mutex, tm_mday, new_log_path>>
streamVars == <<m_log_filestream, files, lost>>
queueVars == <<queue_size, m_log_queue, m_done, hand, wpc>>

Line == Callers \X (1 .. Lines)

ASSUME NoLineAssumption == NoLine \notin Line

(* A log file: its day, and m_count/m_split_lines, 0 for the day's first.  *)
File == (1 .. Days) \X (0 .. (Cardinality(Callers) * Lines) \div m_split_lines)
Closed == <<0, 0>>

m_is_async == queue_size > 0

(* The line a caller is about to log.                                      *)
one_log(t) == <<t, calls[t] + 1>>

(* init opens the day's first file.                                        *)
Init ==
  /\ queue_size \in QueueSizes
  /\ today = 1 /\ tm_mday = 1 /\ m_today = 1 /\ m_count = 0
  /\ m_mutex = {}
  /\ m_log_queue = << >> /\ m_done = FALSE
  /\ m_log_filestream = <<1, 0>>
  /\ files = [f \in File |-> << >>]
  /\ pc = [t \in Callers |-> "idle"]
  /\ current_time = [t \in Callers |-> 1]
  /\ calls = [t \in Callers |-> 0]
  /\ new_log_path = Closed
  /\ hand = NoLine
  /\ wpc = IF m_is_async THEN "run" ELSE "exit"
  /\ lost = {}

----------------------------------------------------------------------------
(* Writing a line on the stream, and opening a file with fstream::out.     *)
write(line) ==
  IF m_log_filestream = Closed
  THEN lost' = lost \cup {line} /\ UNCHANGED files
  ELSE files' = [files EXCEPT ![m_log_filestream] = Append(@, line)] /\ UNCHANGED lost

open(f) ==
  /\ m_log_filestream' = f
  /\ files' = [files EXCEPT ![f] = << >>]

(* Midnight.                                                               *)
Midnight ==
  /\ today < Days
  /\ today' = today + 1
  /\ UNCHANGED <<callerVars, streamVars, queueVars>>

(* write_log begins: get_time asks for the time ...                        *)
GetTime(t) ==
  /\ pc[t] = "idle" /\ calls[t] < Lines
  /\ current_time' = [current_time EXCEPT ![t] = today]
  /\ pc' = [pc EXCEPT ![t] = "localtime"]
  /\ UNCHANGED <<today, calls, m_count, m_today, m_mutex, tm_mday, new_log_path>>
  /\ UNCHANGED <<streamVars, queueVars>>

(* ... and localtime converts it into a buffer that all threads share.     *)
LocalTime(t) ==
  /\ pc[t] = "localtime"
  /\ tm_mday' = current_time[t]
  /\ pc' = [pc EXCEPT ![t] = "lock"]
  /\ UNCHANGED <<today, current_time, calls, m_count, m_today, m_mutex, new_log_path>>
  /\ UNCHANGED <<streamVars, queueVars>>

NewDay == tm_mday # m_today
SplitNow == (m_count + 1) % m_split_lines = 0

(* Under m_mutex the line is counted; without a rotation that is all.      *)
Count(t) ==
  /\ pc[t] = "lock" /\ m_mutex = {}
  /\ ~ NewDay /\ ~ SplitNow
  /\ m_count' = m_count + 1
  /\ pc' = [pc EXCEPT ![t] = "log"]
  /\ UNCHANGED <<today, current_time, calls, m_today, m_mutex, tm_mday, new_log_path>>
  /\ UNCHANGED <<streamVars, queueVars>>

(* On a new day the count starts again and the day's first file is next ...*)
RotateDay(t) ==
  /\ pc[t] = "lock" /\ m_mutex = {}
  /\ NewDay
  /\ m_mutex' = {t}
  /\ m_count' = 0
  /\ m_today' = tm_mday
  /\ new_log_path' = <<tm_mday, 0>>
  /\ pc' = [pc EXCEPT ![t] = "drain"]
  /\ UNCHANGED <<today, current_time, calls, tm_mday>>
  /\ UNCHANGED <<streamVars, queueVars>>

(* Fault: the count starts again with each file.                           *)
RotateSplitResets(t) ==
  /\ pc[t] = "lock" /\ m_mutex = {}
  /\ ~ NewDay /\ SplitNow
  /\ m_mutex' = {t}
  /\ m_count' = 0
  /\ new_log_path' = <<tm_mday, (m_count + 1) \div m_split_lines>>
  /\ pc' = [pc EXCEPT ![t] = "drain"]
  /\ UNCHANGED <<today, current_time, calls, m_today, tm_mday>>
  /\ UNCHANGED <<streamVars, queueVars>>

(* Fault: the mutex is free during the rotation.                           *)
RotateSplitUnlocked(t) ==
  /\ pc[t] = "lock" /\ m_mutex = {}
  /\ ~ NewDay /\ SplitNow
  /\ UNCHANGED m_mutex
  /\ m_count' = m_count + 1
  /\ new_log_path' = <<tm_mday, (m_count + 1) \div m_split_lines>>
  /\ pc' = [pc EXCEPT ![t] = "drain"]
  /\ UNCHANGED <<today, current_time, calls, m_today, tm_mday>>
  /\ UNCHANGED <<streamVars, queueVars>>

(* ... every m_split_lines lines it is the next numbered one.              *)
RotateSplit(t) ==
  /\ pc[t] = "lock" /\ m_mutex = {}
  /\ ~ NewDay /\ SplitNow
  /\ m_mutex' = {t}
  /\ m_count' = m_count + 1
  /\ new_log_path' = <<tm_mday, (m_count + 1) \div m_split_lines>>
  /\ pc' = [pc EXCEPT ![t] = "drain"]
  /\ UNCHANGED <<today, current_time, calls, m_today, tm_mday>>
  /\ UNCHANGED <<streamVars, queueVars>>

(* An asynchronous logger waits, with the mutex, for the queue to be empty.*)
Drain(t) ==
  /\ pc[t] = "drain"
  /\ m_is_async => m_log_queue = << >>
  /\ pc' = [pc EXCEPT ![t] = "close"]
  /\ UNCHANGED <<today, current_time, calls, m_count, m_today, m_mutex, tm_mday, new_log_path>>
  /\ UNCHANGED <<streamVars, queueVars>>

(* The stream is closed ...                                                *)
CloseFile(t) ==
  /\ pc[t] = "close"
  /\ m_log_filestream' = Closed
  /\ pc' = [pc EXCEPT ![t] = "open"]
  /\ UNCHANGED <<today, current_time, calls, m_count, m_today, m_mutex, tm_mday, new_log_path>>
  /\ UNCHANGED <<files, lost, queueVars>>

(* ... and opened again, and the mutex released.                           *)
OpenFile(t) ==
  /\ pc[t] = "open"
  /\ open(new_log_path)
  /\ new_log_path' = Closed
  /\ m_mutex' = {}
  /\ pc' = [pc EXCEPT ![t] = "log"]
  /\ UNCHANGED <<today, current_time, calls, m_count, m_today, tm_mday, lost, queueVars>>

Return(t) ==
  /\ pc' = [pc EXCEPT ![t] = "idle"]
  /\ calls' = [calls EXCEPT ![t] = @ + 1]
  /\ UNCHANGED <<today, current_time, m_count, m_today, m_mutex, tm_mday, new_log_path>>

(* Fault: the line goes into a full queue.                                 *)
PushLineFull(t) ==
  /\ pc[t] = "log" /\ m_is_async
  /\ m_log_queue' = Append(m_log_queue, one_log(t))
  /\ Return(t)
  /\ UNCHANGED <<queue_size, m_done, hand, wpc, streamVars>>

(* The line goes into the queue, when there is room ...                    *)
PushLine(t) ==
  /\ pc[t] = "log" /\ m_is_async
  /\ Len(m_log_queue) < queue_size
  /\ m_log_queue' = Append(m_log_queue, one_log(t))
  /\ Return(t)
  /\ UNCHANGED <<queue_size, m_done, hand, wpc, streamVars>>

(* Fault: the line is written without the mutex.                           *)
WriteLineUnlocked(t) ==
  /\ pc[t] = "log" /\ ~ m_is_async
  /\ write(one_log(t))
  /\ Return(t)
  /\ UNCHANGED <<m_log_filestream, queueVars>>

(* ... or is written at once, under the mutex.                             *)
WriteLine(t) ==
  /\ pc[t] = "log" /\ ~ m_is_async
  /\ m_mutex = {}
  /\ write(one_log(t))
  /\ Return(t)
  /\ UNCHANGED <<m_log_filestream, queueVars>>

(* async_write_log takes a line, writes it without the mutex, and ends     *)
(* when pop returns false.                                                 *)
PopLine ==
  /\ wpc = "run" /\ hand = NoLine
  /\ m_log_queue # << >>
  /\ hand' = Head(m_log_queue)
  /\ m_log_queue' = Tail(m_log_queue)
  /\ UNCHANGED <<queue_size, today, m_done, wpc, callerVars, streamVars>>

(* Fault: the writer takes the mutex, which a rotation holds while it      *)
(* waits for the writer.                                                   *)
AsyncWriteLocked ==
  /\ hand # NoLine
  /\ m_mutex = {}
  /\ write(hand)
  /\ hand' = NoLine
  /\ UNCHANGED <<queue_size, today, m_log_filestream, m_log_queue, m_done, wpc, callerVars>>

AsyncWrite ==
  /\ hand # NoLine
  /\ write(hand)
  /\ hand' = NoLine
  /\ UNCHANGED <<queue_size, today, m_log_filestream, m_log_queue, m_done, wpc, callerVars>>

(* Fault: the writer leaves as soon as it is told to.                      *)
EndWriterEarly ==
  /\ wpc = "run" /\ hand = NoLine
  /\ m_done
  /\ wpc' = "exit"
  /\ UNCHANGED <<queue_size, today, m_log_queue, m_done, hand, callerVars, streamVars>>

EndWriter ==
  /\ wpc = "run" /\ hand = NoLine
  /\ m_log_queue = << >> /\ m_done
  /\ wpc' = "exit"
  /\ UNCHANGED <<queue_size, today, m_log_queue, m_done, hand, callerVars, streamVars>>

(* The destructor, when the callers have ended: set_done ...               *)
SetDone ==
  /\ \A t \in Callers : pc[t] = "idle" /\ calls[t] = Lines
  /\ m_is_async /\ ~ m_done
  /\ m_done' = TRUE
  /\ UNCHANGED <<queue_size, today, m_log_queue, hand, wpc, callerVars, streamVars>>

(* ... join, and close.                                                    *)
Shutdown ==
  /\ \A t \in Callers : pc[t] = "idle" /\ calls[t] = Lines
  /\ wpc = "exit" /\ m_log_filestream # Closed
  /\ m_log_filestream' = Closed
  /\ UNCHANGED <<today, files, lost, callerVars, queueVars>>

(* The destructor has returned.                                            *)
Stopped == m_log_filestream = Closed /\ \A t \in Callers : pc[t] = "idle"

CallerStep(t) ==
  \/ GetTime(t) \/ LocalTime(t)
  \/ Count(t) \/ RotateDay(t) \/ RotateSplit(t)
  \/ Drain(t) \/ CloseFile(t) \/ OpenFile(t)
  \/ PushLine(t) \/ WriteLine(t)

WriterStep == PopLine \/ AsyncWrite \/ EndWriter

Next ==
  \/ \E t \in Callers : CallerStep(t)
  \/ WriterStep
  \/ SetDone \/ Shutdown
  \/ Midnight
  \/ Stopped /\ UNCHANGED vars

Spec == Init /\ [][Next]_vars

(* Every thread that can run is scheduled.                                 *)
FairSpec ==
  /\ Spec
  /\ \A t \in Callers : WF_vars(CallerStep(t))
  /\ WF_vars(WriterStep) /\ WF_vars(SetDone \/ Shutdown)

----------------------------------------------------------------------------
(* Every variable holds a value the code's types allow.                    *)
TypeOK ==
  /\ today \in 1 .. Days /\ tm_mday \in 1 .. Days /\ m_today \in 1 .. Days
  /\ m_count \in 0 .. Cardinality(Callers) * Lines
  /\ m_mutex \in SUBSET Callers
  /\ m_log_queue \in Seq(Line) /\ Len(m_log_queue) <= queue_size
  /\ m_done \in BOOLEAN
  /\ m_log_filestream \in File \cup {Closed}
  /\ files \in [File -> Seq(Line)]
  /\ pc \in [Callers -> {"idle", "localtime", "lock", "drain", "close", "open", "log"}]
  /\ current_time \in [Callers -> 1 .. Days]
  /\ calls \in [Callers -> 0 .. Lines]
  /\ new_log_path \in File \cup {Closed}
  /\ hand \in Line \cup {NoLine}
  /\ wpc \in {"run", "exit"}
  /\ lost \in SUBSET Line

Written(line) == \E f \in File : \E i \in DOMAIN files[f] : files[f][i] = line

(* A rotation opens a new file: no line that is in a log file goes away,   *)
(* until midnight, when a rotation may go back to yesterday's file.        *)
FilesOnlyGrow == [][today' = 1 => \A f \in File : IsPrefix(files[f], files'[f])]_vars

(* The destructor waits for the writer thread: when it returns on the day  *)
(* of the start every line logged is in a file, except the ones a rotation *)
(* has lost.                                                               *)
AllWritten == (Stopped /\ today = 1) => \A l \in Line : Written(l) \/ l \in lost

(* Without a queue no line is written to a stream that a rotation has      *)
(* closed, also over midnight: all of it happens under the mutex.          *)
SyncLosesNothing == ~ m_is_async => lost = {}

(* With a queue, a rotation waits for it to be empty, so it can lose no    *)
(* more than the line in the writer's hand and one line of each caller     *)
(* that has its number and has not queued it yet; on one day there are     *)
(* m_count/m_split_lines rotations.                                        *)
LossBounded ==
  today = 1 => Cardinality(lost) <= Cardinality(Callers) * (m_count \div m_split_lines)

(* Nobody waits for ever: a rotation that waits for the writer while it    *)
(* holds the mutex goes on, all calls return and the destructor too.       *)
ShutsDown == <>Stopped
=============================================================================
