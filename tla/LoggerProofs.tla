---------------------------- MODULE LoggerProofs ----------------------------
(***************************************************************************)
(* What write_log and its writer thread keep, for every number of callers, *)
(* lines and lines per file: the types, that a rotation never empties a    *)
(* file that has lines, that no line goes away unless a rotation loses it, *)
(* and how many can be lost.                                               *)
(***************************************************************************)
EXTENDS Logger, FiniteSetTheorems, TLAPS

(* Where a caller is in write_log.                                         *)
Position == {"idle", "localtime", "lock", "drain", "close", "open", "log"}

(* A caller that changes the file holds the mutex, and it alone does.      *)
Rotating(t) == pc[t] \in {"drain", "close", "open"}

LockInv ==
  /\ \A t \in Callers : t \in m_mutex <=> Rotating(t)
  /\ \A t, u \in m_mutex : t = u

(* The lines that write_log has counted, each once.                        *)
Counted ==
  {l \in Line : \/ l[2] <= calls[l[1]]
                \/ l[2] = calls[l[1]] + 1 /\ (Rotating(l[1]) \/ pc[l[1]] = "log")}

CountInv ==
  /\ queue_size \in QueueSizes
  /\ \A t \in Callers : pc[t] # "idle" => calls[t] < Lines
  /\ m_count <= Cardinality(Counted)
  /\ \A t \in Callers : Rotating(t) => new_log_path \in File

TypeInv == TypeOK /\ LockInv /\ CountInv

(* The callers have ended.                                                 *)
Ended == \A t \in Callers : pc[t] = "idle" /\ calls[t] = Lines

(* The stream is closed only inside a rotation and at the end, and the     *)
(* writer leaves only when there is nothing left for it.                   *)
EndInv ==
  /\ m_done => Ended
  /\ wpc = "exit" => m_log_queue = << >> /\ hand = NoLine /\ (m_is_async => m_done)
  /\ ~ m_is_async => wpc = "exit" /\ lost = {}
  /\ \A t \in Callers : pc[t] = "open" => m_log_filestream = Closed
  /\ m_log_filestream = Closed =>
       (\E t \in Callers : pc[t] = "open") \/ (wpc = "exit" /\ Ended)

(* Before midnight there is one day only.                                  *)
DayInv ==
  today = 1 =>
    /\ tm_mday = 1 /\ m_today = 1
    /\ \A t \in Callers : current_time[t] = 1

(* The number of the last file that write_log has asked for.               *)
LastFile == m_count \div m_split_lines

(* Before midnight the file that a rotation will open is the last one; it  *)
(* and the files after it are still empty.                                 *)
FileInv ==
  today = 1 =>
    /\ \A f \in File : f[1] # 1 \/ f[2] > LastFile => files[f] = << >>
    /\ \A t \in Callers : Rotating(t) =>
         /\ new_log_path = <<1, LastFile>>
         /\ files[new_log_path] = << >>
         /\ m_log_filestream # Closed => m_log_filestream[2] < LastFile
    /\ m_log_filestream # Closed =>
         m_log_filestream[1] = 1 /\ m_log_filestream[2] <= LastFile

(* A line whose call has returned is in a file, lost or on its way.        *)
Queued(l) == \E i \in DOMAIN m_log_queue : m_log_queue[i] = l

WhereInv ==
  today = 1 =>
    \A l \in Line : l[2] <= calls[l[1]] =>
      Written(l) \/ l \in lost \/ l = hand \/ Queued(l)

(* The lines that a rotation which has drained the queue can still lose.   *)
Logging == {t \in Callers : pc[t] = "log"}
AtRisk == Cardinality(Logging) + Len(m_log_queue) + (IF hand = NoLine THEN 0 ELSE 1)

LossInv ==
  today = 1 =>
    /\ Cardinality(lost) <= Cardinality(Callers) * LastFile
    /\ \A t \in Callers :
         /\ pc[t] = "drain" =>
              Cardinality(lost) + Cardinality(Callers) <= Cardinality(Callers) * LastFile
         /\ pc[t] \in {"close", "open"} =>
              Cardinality(lost) + AtRisk <= Cardinality(Callers) * LastFile

----------------------------------------------------------------------------
(* What the provers need to know about the constants.                      *)
LEMMA Constants ==
  /\ IsFiniteSet(Callers) /\ Cardinality(Callers) \in Nat
  /\ IsFiniteSet(Line) /\ Cardinality(Line) = Cardinality(Callers) * Lines
  /\ Lines \in Nat /\ Lines # 0 /\ m_split_lines \in Nat /\ m_split_lines # 0
  /\ QueueSizes \subseteq Nat /\ Days \in Nat /\ Days # 0
<1>1. /\ IsFiniteSet(Callers)
      /\ Lines \in Nat /\ Lines # 0 /\ m_split_lines \in Nat /\ m_split_lines # 0
      /\ QueueSizes \subseteq Nat /\ Days \in Nat /\ Days # 0
  BY LoggerAssumption DEF LoggerAssumption
<1>2. Cardinality(Callers) \in Nat
  BY <1>1, FS_CardinalityType
<1>3. IsFiniteSet(1 .. Lines) /\ Cardinality(1 .. Lines) = Lines
  BY <1>1, FS_Interval, 1 \in Int, Lines \in Int, Lines - 1 + 1 = Lines
<1>4. IsFiniteSet(Line) /\ Cardinality(Line) = Cardinality(Callers) * Lines
  BY <1>1, <1>3, FS_Product DEF Line
<1> QED
  BY <1>1, <1>2, <1>4

(* Files are numbered by the quotient, which the count drives.             *)
LEMMA Quotient ==
  ASSUME NEW n \in Nat, NEW m \in Nat, n <= m
  PROVE  /\ n \div m_split_lines \in Nat
         /\ n \div m_split_lines <= m \div m_split_lines
         /\ (n + 1) % m_split_lines = 0 =>
              (n + 1) \div m_split_lines = (n \div m_split_lines) + 1
         /\ (n + 1) % m_split_lines # 0 =>
              (n + 1) \div m_split_lines = n \div m_split_lines
<1>1. m_split_lines \in Nat \ {0}
  BY Constants
<1>2. \A s \in Nat \ {0} :
        /\ n \div s \in Nat
        /\ n \div s <= m \div s
        /\ (n + 1) % s = 0 => (n + 1) \div s = (n \div s) + 1
        /\ (n + 1) % s # 0 => (n + 1) \div s = n \div s
  <2> SUFFICES ASSUME NEW s \in Nat \ {0}
               PROVE  /\ n \div s \in Nat
                      /\ n \div s <= m \div s
                      /\ (n + 1) % s = 0 => (n + 1) \div s = (n \div s) + 1
                      /\ (n + 1) % s # 0 => (n + 1) \div s = n \div s
    OBVIOUS
  <2>1. n \div s \in Nat
    OBVIOUS
  <2>2. n \div s <= m \div s
    OBVIOUS
  <2>3. (n + 1) % s = 0 => (n + 1) \div s = (n \div s) + 1
    OBVIOUS
  <2>4. (n + 1) % s # 0 => (n + 1) \div s = n \div s
    OBVIOUS
  <2> QED
    BY <2>1, <2>2, <2>3, <2>4
<1> QED
  BY <1>1, <1>2

(* A counted line has a file to go to.                                     *)
LEMMA FileOf ==
  ASSUME NEW d \in 1 .. Days, NEW n \in 0 .. Cardinality(Callers) * Lines
  PROVE  <<d, n \div m_split_lines>> \in File
<1>1. Cardinality(Callers) * Lines \in Nat
  BY Constants
<1>2. n \in Nat /\ n <= Cardinality(Callers) * Lines
  BY <1>1
<1>3. /\ n \div m_split_lines \in Nat
      /\ n \div m_split_lines <= (Cardinality(Callers) * Lines) \div m_split_lines
  BY <1>1, <1>2, Quotient
<1>4. (Cardinality(Callers) * Lines) \div m_split_lines \in Nat
  BY <1>1, Quotient
<1> QED
  BY <1>3, <1>4 DEF File

(* Every day has its first file.                                           *)
LEMMA DayFirst ==
  ASSUME NEW d \in 1 .. Days
  PROVE  <<d, 0>> \in File
<1>1. (Cardinality(Callers) * Lines) \div m_split_lines \in Nat
  BY Constants, Quotient
<1> QED
  BY <1>1 DEF File

(* A closed stream has no file.                                            *)
LEMMA ClosedNoFile == Closed \notin File
<1>1. Days \in Nat
  BY Constants
<1> QED
  BY <1>1 DEF Closed, File
----------------------------------------------------------------------------
(* The count.                                                              *)
LEMMA CountedFinite ==
  ASSUME TypeOK
  PROVE  /\ IsFiniteSet(Counted) /\ Cardinality(Counted) \in Nat
         /\ Cardinality(Counted) <= Cardinality(Callers) * Lines
<1>1. Counted \in SUBSET Line
  BY DEF Counted
<1> QED
  BY <1>1, Constants, FS_Subset, FS_CardinalityType

(* Passing through the lock counts one line more.                          *)
LEMMA CountedGrows ==
  ASSUME TypeInv, NEW t \in Callers, pc[t] = "lock",
         NEW x \in {"log", "drain"},
         pc' = [pc EXCEPT ![t] = x], UNCHANGED calls
  PROVE  /\ Cardinality(Counted') = Cardinality(Counted) + 1
         /\ Cardinality(Counted') <= Cardinality(Callers) * Lines
<1>1. pc \in [Callers -> Position] /\ calls \in [Callers -> 0 .. Lines] /\ Lines \in Nat
  BY Constants DEF TypeInv, TypeOK, Position
<1>2. calls[t] < Lines
  BY DEF TypeInv, CountInv
<1>3. one_log(t) \in Line /\ one_log(t)[1] = t /\ one_log(t)[2] = calls[t] + 1
  BY <1>1, <1>2 DEF one_log, Line
<1>4. one_log(t) \notin Counted
  BY <1>1, <1>3 DEF Counted, Rotating
<1>5. \A l \in Line : l = one_log(t) <=> l[1] = t /\ l[2] = calls[t] + 1
  BY <1>1 DEF Line, one_log
<1>6. \A l \in Line : l[1] \in Callers
  BY DEF Line
<1>7. Counted' = Counted \cup {one_log(t)}
  <2>1. ASSUME NEW l \in Line
        PROVE  l \in Counted' <=> l \in Counted \/ l = one_log(t)
    <3>1. CASE l[1] = t
      <4>1. pc'[t] = x /\ calls'[t] = calls[t]
        BY <1>1
      <4>2. l \in Counted <=> l[2] <= calls[t]
        BY <3>1 DEF Counted, Rotating
      <4>3. l \in Counted' <=> l[2] <= calls[t] \/ l[2] = calls[t] + 1
        BY <3>1, <4>1 DEF Counted, Rotating
      <4> QED
        BY <3>1, <4>2, <4>3, <1>5
    <3>2. CASE l[1] # t
      BY <3>2, <1>1, <1>5, <1>6 DEF Counted, Rotating
    <3> QED
      BY <3>1, <3>2
  <2> QED
    BY <2>1, <1>3 DEF Counted
<1>8. IsFiniteSet(Counted)
  BY CountedFinite DEF TypeInv
<1>9. Cardinality(Counted') = Cardinality(Counted) + 1
  BY <1>4, <1>7, <1>8, FS_AddElement
<1>10. Counted' \in SUBSET Line
  BY DEF Counted
<1> QED
  BY <1>9, <1>10, Constants, FS_Subset

(* The other steps of a call leave the count of counted lines alone.       *)
LEMMA CountedSame ==
  ASSUME TypeInv, NEW t \in Callers, NEW x,
         \/ /\ UNCHANGED calls
            /\ \/ pc[t] \in {"idle", "localtime"} /\ x \in {"localtime", "lock"}
               \/ Rotating(t) /\ x \in {"close", "open", "log"}
         \/ pc[t] = "log" /\ x = "idle" /\ calls' = [calls EXCEPT ![t] = @ + 1],
         pc' = [pc EXCEPT ![t] = x]
  PROVE  Counted' = Counted
<1>1. pc \in [Callers -> Position] /\ calls \in [Callers -> 0 .. Lines] /\ Lines \in Nat
  BY Constants DEF TypeInv, TypeOK, Position
<1>2. \A l \in Line : l[1] \in Callers /\ l[2] \in Nat
  BY <1>1 DEF Line
<1>3. ASSUME NEW l \in Line
      PROVE  l \in Counted' <=> l \in Counted
  <2>1. CASE l[1] = t
    <3> DEFINE Through(p) == p \in {"drain", "close", "open", "log"}
    <3>1. pc'[t] = x
      BY <1>1
    <3>2. l \in Counted <=> l[2] <= calls[t] \/ (l[2] = calls[t] + 1 /\ Through(pc[t]))
      BY <2>1 DEF Counted, Rotating
    <3>3. l \in Counted' <=> l[2] <= calls'[t] \/ (l[2] = calls'[t] + 1 /\ Through(x))
      BY <2>1, <3>1 DEF Counted, Rotating
    <3>4. CASE calls' = calls /\ (Through(pc[t]) <=> Through(x))
      BY <3>2, <3>3, <3>4
    <3>5. CASE calls'[t] = calls[t] + 1 /\ pc[t] = "log" /\ x = "idle"
      BY <3>2, <3>3, <3>5, <1>1, <1>2
    <3>6. \/ calls' = calls /\ (Through(pc[t]) <=> Through(x))
          \/ calls'[t] = calls[t] + 1 /\ pc[t] = "log" /\ x = "idle"
      BY <1>1 DEF Rotating
    <3> QED
      BY <3>4, <3>5, <3>6
  <2>2. CASE l[1] # t
    BY <2>2, <1>1, <1>2 DEF Counted, Rotating
  <2> QED
    BY <2>1, <2>2
<1> QED
  BY <1>3 DEF Counted
----------------------------------------------------------------------------
(* The type invariant.                                                     *)
LEMMA TypeInit == Init => TypeInv
<1> SUFFICES ASSUME Init
             PROVE  TypeInv
  OBVIOUS
<1>1. Cardinality(Callers) * Lines \in Nat /\ Days \in Nat \ {0}
  BY Constants
<1>2. <<1, 0>> \in File
  BY <1>1, DayFirst
<1>3. TypeOK
  <2>1. /\ 1 \in 1 .. Days /\ 0 \in 0 .. Lines /\ 0 \in 0 .. Cardinality(Callers) * Lines
        /\ queue_size \in Nat
    BY <1>1, Constants DEF Init
  <2>2. m_log_queue \in Seq(Line) /\ Len(m_log_queue) <= queue_size
    BY <2>1 DEF Init
  <2>3. /\ files \in [File -> Seq(Line)]
        /\ pc \in [Callers -> Position]
        /\ current_time \in [Callers -> 1 .. Days]
        /\ calls \in [Callers -> 0 .. Lines]
    BY <2>1 DEF Init, Position
  <2> QED
    BY <1>2, <2>1, <2>2, <2>3 DEF Init, TypeOK, Position
<1>4. LockInv
  BY DEF Init, LockInv, Rotating
<1>5. CountInv
  BY <1>3, CountedFinite DEF Init, CountInv, Rotating
<1> QED
  BY <1>3, <1>4, <1>5 DEF TypeInv

(* A line is well typed.                                                   *)
LEMMA LineTyped ==
  ASSUME TypeInv, NEW t \in Callers, pc[t] # "idle"
  PROVE  one_log(t) \in Line /\ calls[t] + 1 \in 0 .. Lines
<1>1. calls[t] \in 0 .. Lines /\ calls[t] < Lines /\ Lines \in Nat
  BY Constants DEF TypeInv, TypeOK, CountInv
<1> QED
  BY <1>1 DEF one_log, Line

(* Writing a line keeps the files and the lost lines well typed.           *)
LEMMA WriteTyped ==
  ASSUME TypeOK, NEW l \in Line, write(l)
  PROVE  files' \in [File -> Seq(Line)] /\ lost' \in SUBSET Line
<1>1. files \in [File -> Seq(Line)] /\ lost \in SUBSET Line
      /\ m_log_filestream \in File \cup {Closed}
  BY DEF TypeOK
<1>2. CASE m_log_filestream = Closed
  BY <1>1, <1>2 DEF write
<1>3. CASE m_log_filestream # Closed
  <2>1. Append(files[m_log_filestream], l) \in Seq(Line)
    BY <1>1, <1>3
  <2> QED
    BY <1>1, <1>3, <2>1 DEF write
<1> QED
  BY <1>2, <1>3

LEMMA TypeStep == TypeInv /\ [Next]_vars => TypeInv'
<1> SUFFICES ASSUME TypeInv, [Next]_vars
             PROVE  TypeInv'
  OBVIOUS
<1>1. /\ pc \in [Callers -> Position] /\ calls \in [Callers -> 0 .. Lines]
      /\ TypeOK /\ LockInv /\ CountInv
      /\ Lines \in Nat /\ Cardinality(Callers) * Lines \in Nat
  BY Constants DEF TypeInv, TypeOK, Position
<1>2. queue_size \in Nat /\ m_count \in Nat
  BY <1>1, Constants DEF CountInv, TypeOK
<1>3. ASSUME NEW t \in Callers, GetTime(t) \/ LocalTime(t)
      PROVE  TypeInv'
  <2>1. TypeOK'
    <3>1. CASE GetTime(t)
      BY <1>1, <3>1 DEF TypeOK, GetTime, streamVars, queueVars
    <3>2. CASE LocalTime(t)
      BY <1>1, <3>2 DEF TypeOK, LocalTime, streamVars, queueVars
    <3> QED
      BY <1>3, <3>1, <3>2
  <2>2. LockInv'
    BY <1>1, <1>3 DEF LockInv, Rotating, GetTime, LocalTime
  <2>3. Counted' = Counted
    BY <1>3, CountedSame DEF GetTime, LocalTime
  <2>4. CountInv'
    BY <1>1, <1>3, <2>3
    DEF CountInv, Rotating, GetTime, LocalTime, queueVars
  <2> QED
    BY <2>1, <2>2, <2>4 DEF TypeInv
<1>4. ASSUME NEW t \in Callers, Count(t) \/ RotateDay(t) \/ RotateSplit(t)
      PROVE  TypeInv'
  <2>1. PICK x \in {"log", "drain"} :
          /\ pc[t] = "lock" /\ pc' = [pc EXCEPT ![t] = x] /\ UNCHANGED calls
          /\ m_mutex = {} /\ m_mutex' = IF x = "log" THEN {} ELSE {t}
    BY <1>4 DEF Count, RotateDay, RotateSplit
  <2>2. m_count' \in Nat /\ m_count' <= m_count + 1
    BY <1>2, <1>4 DEF Count, RotateDay, RotateSplit
  <2>3. /\ Cardinality(Counted') = Cardinality(Counted) + 1
        /\ Cardinality(Counted') <= Cardinality(Callers) * Lines
    BY <2>1, CountedGrows
  <2>4. Cardinality(Counted) \in Nat
    BY <1>1, CountedFinite
  <2>5. m_count' <= Cardinality(Counted') /\ m_count' \in 0 .. Cardinality(Callers) * Lines
    BY <1>1, <1>2, <2>2, <2>3, <2>4 DEF CountInv
  <2>6. x = "log" => new_log_path' = new_log_path
    BY <1>4, <2>1, <1>1 DEF Count, RotateDay, RotateSplit, Position
  <2>7. x = "drain" => new_log_path' \in File
    <3>1. tm_mday \in 1 .. Days
      BY <1>1 DEF TypeOK
    <3>2. CASE RotateDay(t)
      BY <3>1, <3>2, DayFirst DEF RotateDay
    <3>3. CASE RotateSplit(t)
      BY <2>5, <3>1, <3>3, FileOf DEF RotateSplit
    <3>4. CASE Count(t)
      BY <1>1, <2>1, <3>4 DEF Count
    <3> QED
      BY <1>4, <3>2, <3>3, <3>4
  <2>8. TypeOK'
    BY <1>1, <1>4, <2>1, <2>5, <2>6, <2>7
    DEF TypeOK, Count, RotateDay, RotateSplit, streamVars, queueVars
  <2>9. LockInv'
    BY <1>1, <2>1 DEF LockInv, Rotating
  <2>10. CountInv'
    BY <1>1, <1>4, <2>1, <2>5, <2>6, <2>7
    DEF CountInv, LockInv, Rotating, Count, RotateDay, RotateSplit, queueVars
  <2> QED
    BY <2>8, <2>9, <2>10 DEF TypeInv
<1>5. ASSUME NEW t \in Callers, Drain(t) \/ CloseFile(t) \/ OpenFile(t)
      PROVE  TypeInv'
  <2>1. Rotating(t) /\ m_mutex = {t} /\ new_log_path \in File
    BY <1>1, <1>5 DEF Rotating, Drain, CloseFile, OpenFile, LockInv, CountInv, TypeOK
  <2>2. TypeOK'
    <3>1. CASE Drain(t)
      BY <1>1, <3>1 DEF TypeOK, Drain, streamVars, queueVars
    <3>2. CASE CloseFile(t)
      BY <1>1, <3>2 DEF TypeOK, CloseFile, queueVars
    <3>3. CASE OpenFile(t)
      <4>1. files' \in [File -> Seq(Line)]
        BY <1>1, <3>3, <2>1 DEF TypeOK, OpenFile, open
      <4> QED
        BY <1>1, <3>3, <2>1, <4>1 DEF TypeOK, OpenFile, open, queueVars
    <3> QED
      BY <1>5, <3>1, <3>2, <3>3
  <2>3. LockInv'
    BY <1>1, <1>5, <2>1 DEF LockInv, Rotating, Drain, CloseFile, OpenFile
  <2>4. Counted' = Counted
    BY <1>5, <2>1, CountedSame DEF Drain, CloseFile, OpenFile
  <2>5. CountInv'
    BY <1>1, <1>5, <2>1, <2>3, <2>4
    DEF CountInv, LockInv, Rotating, Drain, CloseFile, OpenFile, queueVars
  <2> QED
    BY <2>2, <2>3, <2>5 DEF TypeInv
<1>6. ASSUME NEW t \in Callers, PushLine(t) \/ WriteLine(t)
      PROVE  TypeInv'
  <2>1. pc[t] = "log" /\ Return(t)
    BY <1>6 DEF PushLine, WriteLine
  <2>2. one_log(t) \in Line /\ calls[t] + 1 \in 0 .. Lines
    BY <2>1, LineTyped
  <2>3. files' \in [File -> Seq(Line)] /\ lost' \in SUBSET Line
    BY <1>1, <1>6, <2>2, WriteTyped DEF TypeOK, PushLine, WriteLine, streamVars
  <2>4. m_log_queue' \in Seq(Line) /\ Len(m_log_queue') <= queue_size
    <3>1. m_log_queue \in Seq(Line) /\ Len(m_log_queue) \in Nat /\ Len(m_log_queue) <= queue_size
      BY <1>1 DEF TypeOK
    <3>2. CASE PushLine(t)
      <4>1. /\ m_log_queue' = Append(m_log_queue, one_log(t))
            /\ Len(m_log_queue) < queue_size
        BY <3>2 DEF PushLine
      <4> QED
        BY <1>2, <2>2, <3>1, <4>1
    <3>3. CASE WriteLine(t)
      BY <3>1, <3>3 DEF WriteLine, queueVars
    <3> QED
      BY <1>6, <3>2, <3>3
  <2>5. TypeOK'
    BY <1>1, <1>6, <2>1, <2>2, <2>3, <2>4
    DEF TypeOK, Return, PushLine, WriteLine, streamVars, queueVars
  <2>6. LockInv'
    BY <1>1, <2>1 DEF LockInv, Rotating, Return
  <2>7. Counted' = Counted
    BY <2>1, CountedSame DEF Return
  <2>8. CountInv'
    BY <1>1, <1>6, <2>1, <2>7
    DEF CountInv, Rotating, Return, PushLine, WriteLine, queueVars
  <2> QED
    BY <2>5, <2>6, <2>8 DEF TypeInv
<1>7. ASSUME UNCHANGED callerVars, UNCHANGED queue_size, TypeOK'
      PROVE  TypeInv'
  <2>1. Counted' = Counted
    BY <1>7 DEF Counted, Rotating, callerVars
  <2> QED
    BY <1>1, <1>7, <2>1 DEF TypeInv, LockInv, CountInv, Rotating, callerVars
<1>8. CASE PopLine
  <2>1. Head(m_log_queue) \in Line /\ Tail(m_log_queue) \in Seq(Line)
        /\ Len(Tail(m_log_queue)) <= Len(m_log_queue)
    BY <1>1, <1>8 DEF PopLine, TypeOK
  <2> QED
    BY <1>1, <1>2, <1>7, <1>8, <2>1 DEF PopLine, TypeOK, callerVars, streamVars
<1>9. CASE AsyncWrite
  <2>1. hand \in Line
    BY <1>1, <1>9 DEF AsyncWrite, TypeOK
  <2>2. files' \in [File -> Seq(Line)] /\ lost' \in SUBSET Line
    BY <1>1, <1>9, <2>1, WriteTyped DEF AsyncWrite
  <2> QED
    BY <1>1, <1>7, <1>9, <2>2 DEF AsyncWrite, TypeOK, callerVars
<1>10. CASE EndWriter \/ SetDone \/ Shutdown
  BY <1>1, <1>7, <1>10
  DEF EndWriter, SetDone, Shutdown, TypeOK, callerVars, streamVars, queueVars
<1>11. CASE Midnight
  BY <1>1, <1>7, <1>11, Constants DEF Midnight, TypeOK, callerVars, streamVars, queueVars
<1>12. CASE UNCHANGED vars
  BY <1>1, <1>7, <1>12 DEF vars, TypeOK, callerVars
<1> QED
  BY <1>3, <1>4, <1>5, <1>6, <1>8, <1>9, <1>10, <1>11, <1>12
  DEF Next, CallerStep, WriterStep

(* The logger's state stays typed: the queue never exceeds the queue_size  *)
(* that init got, a line is counted once, and a rotation asks only for     *)
(* file numbers that the count allows.                                     *)
THEOREM TypeCorrect == Spec => []TypeOK
<1>1. TypeInv => TypeOK
  BY DEF TypeInv
<1> QED
  BY <1>1, TypeInit, TypeStep, PTL DEF Spec
----------------------------------------------------------------------------
(* The stream and the end.                                                 *)
LEMMA EndInit == Init => EndInv
<1> SUFFICES ASSUME Init
             PROVE  EndInv
  OBVIOUS
<1>1. m_log_filestream # Closed
  BY DEF Init, Closed
<1> QED
  BY <1>1 DEF Init, EndInv, m_is_async

(* A caller that takes a step has not ended, so nobody has told the writer *)
(* to end.                                                                 *)
LEMMA CallerAlive ==
  ASSUME TypeInv, EndInv, NEW t \in Callers, CallerStep(t)
  PROVE  /\ ~ Ended /\ ~ m_done
         /\ wpc = "exit" => ~ m_is_async
         /\ UNCHANGED <<today, queue_size, m_done, hand, wpc>>
<1>1. pc[t] # "idle" \/ calls[t] < Lines
  BY DEF CallerStep, GetTime, LocalTime, Count, RotateDay, RotateSplit, Drain, CloseFile,
         OpenFile, PushLine, WriteLine
<1>2. ~ Ended
  BY <1>1, Constants DEF Ended, TypeInv, TypeOK
<1>3. UNCHANGED <<today, queue_size, m_done, hand, wpc>>
  BY DEF CallerStep, GetTime, LocalTime, Count, RotateDay, RotateSplit, Drain, CloseFile,
         OpenFile, PushLine, WriteLine, Return, queueVars
<1> QED
  BY <1>2, <1>3 DEF EndInv

(* While nobody rotates and not all have ended, the stream is open.        *)
LEMMA StreamOpen ==
  ASSUME TypeInv, EndInv, ~ Ended, \A t \in Callers : pc[t] # "open"
  PROVE  m_log_filestream \in File /\ m_log_filestream # Closed
<1> QED
  BY ClosedNoFile DEF EndInv, TypeInv, TypeOK

LEMMA EndStep == TypeInv /\ EndInv /\ [Next]_vars => EndInv'
<1> SUFFICES ASSUME TypeInv, EndInv, [Next]_vars
             PROVE  EndInv'
  OBVIOUS
<1>1. /\ pc \in [Callers -> Position] /\ calls \in [Callers -> 0 .. Lines]
      /\ Lines \in Nat /\ LockInv /\ TypeOK
  BY Constants DEF TypeInv, TypeOK, Position
<1>2. ASSUME NEW t \in Callers, CallerStep(t)
      PROVE  EndInv'
  <2>1. /\ ~ Ended /\ ~ m_done
        /\ wpc = "exit" => ~ m_is_async
        /\ UNCHANGED <<today, queue_size, m_done, hand, wpc>>
    BY <1>2, CallerAlive
  <2>2. UNCHANGED m_is_async
    BY <2>1 DEF m_is_async
  <2>3. ASSUME UNCHANGED lost, m_log_queue' = m_log_queue \/ m_is_async,
               \A u \in Callers : pc'[u] = "open" => m_log_filestream' = Closed,
               m_log_filestream' = Closed => \E u \in Callers : pc'[u] = "open"
        PROVE  EndInv'
    BY <2>1, <2>2, <2>3 DEF EndInv
  <2>4. CASE GetTime(t) \/ LocalTime(t) \/ Count(t) \/ RotateDay(t) \/ RotateSplit(t)
             \/ Drain(t)
    <3>1. PICK x \in Position : pc' = [pc EXCEPT ![t] = x] /\ x # "open" /\ pc[t] # "open"
      BY <2>4 DEF GetTime, LocalTime, Count, RotateDay, RotateSplit, Drain, Position
    <3>2. UNCHANGED <<m_log_filestream, lost, m_log_queue>>
      BY <2>4 DEF GetTime, LocalTime, Count, RotateDay, RotateSplit, Drain, streamVars, queueVars
    <3> QED
      BY <1>1, <2>1, <2>3, <3>1, <3>2 DEF EndInv
  <2>5. CASE CloseFile(t)
    BY <1>1, <2>3, <2>5 DEF CloseFile, queueVars
  <2>6. CASE OpenFile(t)
    <3>1. \A u \in Callers : pc[u] = "open" => u = t
      BY <1>1, <2>6 DEF LockInv, Rotating, OpenFile
    <3>2. new_log_path \in File
      BY <2>6 DEF TypeInv, CountInv, Rotating, OpenFile
    <3>3. m_log_filestream' # Closed
      BY <2>6, <3>2, ClosedNoFile DEF OpenFile, open
    <3> QED
      BY <1>1, <2>3, <2>6, <3>1, <3>3 DEF OpenFile, queueVars
  <2>7. CASE PushLine(t)
    BY <1>1, <2>1, <2>3, <2>7 DEF PushLine, Return, streamVars, EndInv
  <2>8. CASE WriteLine(t)
    <3>1. \A u \in Callers : ~ Rotating(u)
      BY <1>1, <2>8 DEF WriteLine, LockInv
    <3>2. m_log_filestream # Closed
      BY <2>1, <3>1, StreamOpen DEF Rotating
    <3>3. UNCHANGED <<lost, m_log_filestream, m_log_queue>>
      BY <2>8, <3>2 DEF WriteLine, write, queueVars
    <3>4. \A u \in Callers : pc'[u] # "open"
      BY <1>1, <2>8, <3>1 DEF WriteLine, Return, Rotating
    <3> QED
      BY <2>3, <3>2, <3>3, <3>4
  <2> QED
    BY <1>2, <2>4, <2>5, <2>6, <2>7, <2>8 DEF CallerStep
<1>3. CASE PopLine
  BY <1>3 DEF PopLine, EndInv, Ended, m_is_async, callerVars, streamVars
<1>4. CASE AsyncWrite
  <2>1. wpc # "exit" /\ m_is_async
    BY <1>4 DEF AsyncWrite, EndInv
  <2> QED
    BY <1>4, <2>1 DEF AsyncWrite, EndInv, Ended, m_is_async, callerVars
<1>5. CASE EndWriter
  BY <1>5 DEF EndWriter, EndInv, Ended, m_is_async, callerVars, streamVars
<1>6. CASE SetDone
  BY <1>6 DEF SetDone, EndInv, Ended, m_is_async, callerVars, streamVars
<1>7. CASE Shutdown
  BY <1>7 DEF Shutdown, EndInv, Ended, m_is_async, callerVars, queueVars
<1>8. CASE Midnight
  BY <1>8 DEF Midnight, EndInv, Ended, m_is_async, callerVars, streamVars, queueVars
<1>9. CASE UNCHANGED vars
  BY <1>9 DEF vars, EndInv, Ended, m_is_async
<1> QED
  BY <1>2, <1>3, <1>4, <1>5, <1>6, <1>7, <1>8, <1>9 DEF Next, WriterStep

(* Without a queue every line goes to an open file, for every number of    *)
(* callers and over any number of midnights: write_log writes under the    *)
(* mutex that a rotation holds from close to open.                         *)
THEOREM SyncKeepsAll == Spec => []SyncLosesNothing
<1>1. Init => TypeInv /\ EndInv
  BY TypeInit, EndInit
<1>2. TypeInv /\ EndInv /\ [Next]_vars => TypeInv' /\ EndInv'
  BY TypeStep, EndStep
<1>3. EndInv => SyncLosesNothing
  BY DEF EndInv, SyncLosesNothing
<1> QED
  BY <1>1, <1>2, <1>3, PTL DEF Spec
----------------------------------------------------------------------------
(* The files, up to midnight.                                              *)
LEMMA PrefixFacts ==
  ASSUME NEW S, NEW s \in Seq(S), NEW x \in S
  PROVE  /\ IsPrefix(s, s) /\ IsPrefix(s, Append(s, x))
<1>1. IsPrefix(s, s)
  BY DEF IsPrefix
<1>2. IsPrefix(s, Append(s, x))
  <2>1. Len(s) \in Nat /\ Len(s) <= Len(Append(s, x))
    OBVIOUS
  <2>2. SubSeq(s, 1, Len(s)) = SubSeq(Append(s, x), 1, Len(s))
    OBVIOUS
  <2> QED
    BY <2>1, <2>2 DEF IsPrefix
<1> QED
  BY <1>1, <1>2

(* The day of a step that ends before midnight.                            *)
LEMMA SameDay ==
  ASSUME TypeInv, [Next]_vars, today' = 1
  PROVE  today = 1 /\ ~ Midnight
<1>1. today \in Nat /\ today # 0
  BY Constants DEF TypeInv, TypeOK
<1>2. ~ Midnight
  BY <1>1 DEF Midnight
<1> QED
  BY <1>1, <1>2
  DEF Next, CallerStep, WriterStep, GetTime, LocalTime, Count, RotateDay, RotateSplit, Drain,
      CloseFile, OpenFile, PushLine, WriteLine, Return, PopLine, AsyncWrite, EndWriter,
      SetDone, Shutdown, vars

LEMMA DayInit == Init => DayInv
<1> QED
  BY DEF Init, DayInv

LEMMA DayStep == TypeInv /\ DayInv /\ [Next]_vars => DayInv'
<1> SUFFICES ASSUME TypeInv, DayInv, [Next]_vars, today' = 1
             PROVE  tm_mday' = 1 /\ m_today' = 1 /\ \A t \in Callers : current_time'[t] = 1
  BY DEF DayInv
<1>1. current_time \in [Callers -> 1 .. Days]
  BY DEF TypeInv, TypeOK
<1>2. today = 1 /\ ~ Midnight
  BY SameDay
<1>4. tm_mday = 1 /\ m_today = 1 /\ \A t \in Callers : current_time[t] = 1
  BY <1>2 DEF DayInv
<1>5. ASSUME NEW t \in Callers, CallerStep(t)
      PROVE  tm_mday' = 1 /\ m_today' = 1 /\ \A u \in Callers : current_time'[u] = 1
  <2>1. CASE GetTime(t)
    BY <1>1, <1>2, <1>4, <2>1 DEF GetTime
  <2>2. CASE ~ GetTime(t)
    BY <1>4, <1>5, <2>2
    DEF CallerStep, LocalTime, Count, RotateDay, RotateSplit, Drain, CloseFile, OpenFile,
        PushLine, WriteLine, Return
  <2> QED
    BY <2>1, <2>2
<1>6. CASE WriterStep \/ SetDone \/ Shutdown \/ UNCHANGED vars
  BY <1>4, <1>6
  DEF WriterStep, PopLine, AsyncWrite, EndWriter, SetDone, Shutdown, vars, callerVars
<1> QED
  BY <1>2, <1>5, <1>6 DEF Next
LEMMA FileInit == Init => FileInv
<1> SUFFICES ASSUME Init
             PROVE  FileInv
  OBVIOUS
<1>1. m_log_filestream[1] = 1 /\ m_log_filestream[2] = 0 /\ m_count = 0
  BY DEF Init
<1>2. LastFile \in Nat
  BY <1>1, Quotient DEF LastFile
<1> QED
  BY <1>1, <1>2 DEF Init, FileInv, Rotating

(* A step that moves neither the count nor the stream nor a file keeps it. *)
LEMMA FileFrame ==
  ASSUME FileInv, today = 1,
         UNCHANGED <<files, m_count, m_log_filestream, new_log_path>>,
         \A t \in Callers : Rotating(t)' => Rotating(t)
  PROVE  FileInv'
<1> QED
  BY DEF FileInv, LastFile

(* Writing a line adds it to the file that is open, which is not the one   *)
(* that a rotation is about to open.                                       *)
LEMMA FileWrite ==
  ASSUME TypeInv, FileInv, today = 1, NEW l \in Line, write(l),
         UNCHANGED <<m_count, m_log_filestream, new_log_path>>,
         \A t \in Callers : Rotating(t)' => Rotating(t)
  PROVE  /\ FileInv'
         /\ \A f \in File : IsPrefix(files[f], files'[f])
<1>1. /\ files \in [File -> Seq(Line)] /\ m_log_filestream \in File \cup {Closed}
      /\ \A t \in Callers : Rotating(t) => new_log_path \in File
      /\ m_count \in Nat
  BY Constants DEF TypeInv, TypeOK, CountInv
<1>2. LastFile \in Nat /\ LastFile' = LastFile
  BY <1>1, Quotient DEF LastFile
<1>3. CASE m_log_filestream = Closed
  <2>1. files' = files
    BY <1>3 DEF write
  <2> QED
    BY <1>1, <2>1, FileFrame, PrefixFacts
<1>4. CASE m_log_filestream # Closed
  <2>1. /\ m_log_filestream \in File
        /\ m_log_filestream[1] = 1 /\ m_log_filestream[2] <= LastFile
    BY <1>1, <1>4 DEF FileInv
  <2>2. files' = [files EXCEPT ![m_log_filestream] = Append(@, l)]
    BY <1>4 DEF write
  <2>3. \A f \in File : f # m_log_filestream => files'[f] = files[f]
    BY <1>1, <2>2
  <2>4. files'[m_log_filestream] = Append(files[m_log_filestream], l)
    BY <1>1, <2>1, <2>2
  <2>5. \A f \in File : IsPrefix(files[f], files'[f])
    BY <1>1, <2>3, <2>4, PrefixFacts
  <2>6. \A f \in File : f[2] \in Nat
    BY Constants, Quotient DEF File
  <2>7. \A f \in File : f[1] # 1 \/ f[2] > LastFile => files'[f] = << >>
    BY <1>2, <2>1, <2>3, <2>6 DEF FileInv
  <2>8. ASSUME NEW t \in Callers, Rotating(t)'
        PROVE  /\ new_log_path' = <<1, LastFile'>>
               /\ files'[new_log_path'] = << >>
               /\ m_log_filestream'[2] < LastFile'
    <3>1. /\ new_log_path = <<1, LastFile>> /\ files[new_log_path] = << >>
          /\ m_log_filestream[2] < LastFile
      BY <1>4, <2>8 DEF FileInv
    <3>2. new_log_path \in File /\ new_log_path[2] = LastFile
      BY <1>1, <2>8, <3>1
    <3>3. new_log_path # m_log_filestream
      BY <1>2, <2>1, <2>6, <3>1, <3>2
    <3> QED
      BY <1>2, <2>3, <3>1, <3>2, <3>3
  <2> QED
    BY <1>2, <2>1, <2>5, <2>7, <2>8 DEF FileInv
<1> QED
  BY <1>3, <1>4

(* One step, before midnight: the invariant goes on and every file keeps   *)
(* its lines.                                                              *)
LEMMA FileStep ==
  ASSUME TypeInv, EndInv, DayInv, FileInv, [Next]_vars, today' = 1
  PROVE  FileInv' /\ \A f \in File : IsPrefix(files[f], files'[f])
<1>1. /\ pc \in [Callers -> Position] /\ files \in [File -> Seq(Line)]
      /\ m_log_filestream \in File \cup {Closed}
      /\ m_count \in Nat /\ LockInv
  BY Constants DEF TypeInv, TypeOK, Position
<1>2. today = 1 /\ ~ Midnight /\ tm_mday = 1 /\ m_today = 1
  BY SameDay DEF DayInv
<1>3. LastFile \in Nat
  BY <1>1, Quotient DEF LastFile
<1>4. ASSUME UNCHANGED files
      PROVE  \A f \in File : IsPrefix(files[f], files'[f])
  BY <1>1, <1>4 DEF IsPrefix
<1>5. ASSUME NEW t \in Callers,
             GetTime(t) \/ LocalTime(t) \/ Drain(t) \/ PushLine(t)
      PROVE  FileInv' /\ UNCHANGED files
  <2>1. UNCHANGED <<files, m_count, m_log_filestream, new_log_path>>
    BY <1>5 DEF GetTime, LocalTime, Drain, PushLine, Return, streamVars
  <2>2. \A u \in Callers : Rotating(u)' => Rotating(u)
    BY <1>1, <1>5 DEF GetTime, LocalTime, Drain, PushLine, Return, Rotating
  <2> QED
    BY <1>2, <2>1, <2>2, FileFrame
<1>6. ASSUME NEW t \in Callers, Count(t)
      PROVE  FileInv' /\ UNCHANGED files
  <2>1. LastFile' = LastFile
    BY <1>1, <1>6, Quotient DEF Count, SplitNow, LastFile
  <2>2. \A u \in Callers : ~ Rotating(u)'
    BY <1>1, <1>6 DEF LockInv, Count, Rotating
  <2> QED
    BY <1>2, <1>6, <2>1, <2>2 DEF FileInv, Count, streamVars
<1>7. ASSUME NEW t \in Callers, RotateSplit(t)
      PROVE  FileInv' /\ UNCHANGED files
  <2>1. LastFile' = LastFile + 1
    BY <1>1, <1>7, Quotient DEF RotateSplit, SplitNow, LastFile
  <2>2. /\ new_log_path' = <<1, LastFile'>>
        /\ UNCHANGED <<files, m_log_filestream>>
    BY <1>2, <1>7 DEF RotateSplit, LastFile, streamVars
  <2>3. new_log_path' \in File
    BY <1>1, <1>7, TypeStep DEF TypeInv, CountInv, Rotating, RotateSplit
  <2>4. files[new_log_path'] = << >>
    BY <1>2, <1>3, <2>1, <2>2, <2>3 DEF FileInv
  <2>5. \A f \in File : f[2] \in Nat
    BY Constants, Quotient DEF File
  <2>6. m_log_filestream # Closed => m_log_filestream[1] = 1 /\ m_log_filestream[2] < LastFile'
    BY <1>1, <1>2, <1>3, <2>1, <2>5 DEF FileInv
  <2>7. \A f \in File : f[1] # 1 \/ f[2] > LastFile' => files[f] = << >>
    BY <1>2, <1>3, <2>1, <2>5 DEF FileInv
  <2>8. m_log_filestream # Closed => m_log_filestream[2] <= LastFile'
    BY <1>1, <1>3, <2>1, <2>5, <2>6
  <2> QED
    BY <2>2, <2>4, <2>6, <2>7, <2>8 DEF FileInv
<1>8. ASSUME NEW t \in Callers, RotateDay(t)
      PROVE  FALSE
  BY <1>2, <1>8 DEF RotateDay, NewDay
<1>9. ASSUME NEW t \in Callers, CloseFile(t)
      PROVE  FileInv' /\ UNCHANGED files
  <2>1. \A u \in Callers : Rotating(u)' => Rotating(u)
    BY <1>1, <1>9 DEF CloseFile, Rotating
  <2> QED
    BY <1>2, <1>9, <2>1 DEF FileInv, CloseFile, LastFile
<1>10. ASSUME NEW t \in Callers, OpenFile(t)
       PROVE  FileInv' /\ UNCHANGED files
  <2>1. Rotating(t) /\ new_log_path \in File
    BY <1>10 DEF TypeInv, CountInv, OpenFile, Rotating
  <2>2. new_log_path = <<1, LastFile>> /\ files[new_log_path] = << >>
    BY <1>2, <2>1 DEF FileInv
  <2>3. files' = files /\ m_log_filestream' = <<1, LastFile>> /\ LastFile' = LastFile
    BY <1>1, <1>10, <2>1, <2>2 DEF OpenFile, open, LastFile
  <2>4. \A u \in Callers : ~ Rotating(u)'
    BY <1>1, <1>10, <2>1 DEF LockInv, OpenFile, Rotating
  <2> QED
    BY <1>2, <1>3, <2>3, <2>4 DEF FileInv
<1>11. ASSUME NEW t \in Callers, WriteLine(t)
       PROVE  FileInv' /\ \A f \in File : IsPrefix(files[f], files'[f])
  <2>1. one_log(t) \in Line
    BY <1>11, LineTyped DEF WriteLine
  <2>2. \A u \in Callers : Rotating(u)' => Rotating(u)
    BY <1>1, <1>11 DEF WriteLine, Return, Rotating
  <2> QED
    BY <1>2, <1>11, <2>1, <2>2, FileWrite DEF WriteLine, Return
<1>12. CASE AsyncWrite
  <2>1. hand \in Line
    BY <1>12 DEF AsyncWrite, TypeInv, TypeOK
  <2> QED
    BY <1>2, <1>12, <2>1, FileWrite DEF AsyncWrite, callerVars, Rotating
<1>13. CASE PopLine \/ EndWriter \/ SetDone \/ UNCHANGED vars
  <2>1. UNCHANGED <<files, m_count, m_log_filestream, new_log_path, pc>>
    BY <1>13 DEF PopLine, EndWriter, SetDone, vars, callerVars, streamVars
  <2> QED
    BY <1>2, <1>4, <2>1, FileFrame DEF Rotating
<1>14. CASE Shutdown
  BY <1>2, <1>4, <1>14 DEF Shutdown, FileInv, Rotating, LastFile, callerVars
<1>15. ASSUME NEW t \in Callers, CallerStep(t)
       PROVE  FileInv' /\ \A f \in File : IsPrefix(files[f], files'[f])
  BY <1>4, <1>5, <1>6, <1>7, <1>8, <1>9, <1>10, <1>11, <1>15 DEF CallerStep
<1> QED
  BY <1>2, <1>12, <1>13, <1>14, <1>15 DEF Next, WriterStep

(* The invariant so far.                                                   *)
FilesInv == TypeInv /\ EndInv /\ DayInv /\ FileInv

LEMMA FilesInit == Init => FilesInv
<1> QED
  BY TypeInit, EndInit, DayInit, FileInit DEF FilesInv

LEMMA FilesStep == FilesInv /\ [Next]_vars => FilesInv'
<1> SUFFICES ASSUME FilesInv, [Next]_vars
             PROVE  FilesInv'
  OBVIOUS
<1>1. TypeInv' /\ EndInv' /\ DayInv'
  BY TypeStep, EndStep, DayStep DEF FilesInv
<1>2. CASE today' = 1
  BY <1>1, <1>2, FileStep DEF FilesInv
<1>3. CASE today' # 1
  BY <1>1, <1>3 DEF FilesInv, FileInv
<1> QED
  BY <1>2, <1>3

(* No rotation before midnight opens a file that has lines, although the   *)
(* writer goes on writing while the file changes: what is in a log file    *)
(* stays there, whatever m_split_lines is.                                 *)
THEOREM FilesNeverShrink == Spec => FilesOnlyGrow
<1>1. FilesInv /\ [Next]_vars => [today' = 1 => \A f \in File : IsPrefix(files[f], files'[f])]_vars
  BY FileStep DEF FilesInv
<1> QED
  BY <1>1, FilesInit, FilesStep, PTL DEF Spec, FilesOnlyGrow
----------------------------------------------------------------------------
(* Where a line is after its call has returned.                            *)
LEMMA WrittenStays ==
  ASSUME FilesInv, [Next]_vars, today' = 1, NEW l, Written(l)
  PROVE  Written(l)'
<1>1. files \in [File -> Seq(Line)] /\ files' \in [File -> Seq(Line)]
  BY TypeStep DEF FilesInv, TypeInv, TypeOK
<1>2. PICK f \in File : \E i \in DOMAIN files[f] : files[f][i] = l
  BY DEF Written
<1>3. PICK i \in DOMAIN files[f] : files[f][i] = l
  BY <1>2
<1>4. IsPrefix(files[f], files'[f])
  BY FileStep DEF FilesInv
<1>5. /\ files[f] \in Seq(Line) /\ files'[f] \in Seq(Line)
      /\ Len(files[f]) <= Len(files'[f])
      /\ SubSeq(files[f], 1, Len(files[f])) = SubSeq(files'[f], 1, Len(files[f]))
  BY <1>1, <1>4 DEF IsPrefix
<1>6. \A s, u \in Seq(Line) :
        Len(s) <= Len(u) /\ SubSeq(s, 1, Len(s)) = SubSeq(u, 1, Len(s)) =>
          \A j \in DOMAIN s : j \in DOMAIN u /\ u[j] = s[j]
  <2> SUFFICES ASSUME NEW s \in Seq(Line), NEW u \in Seq(Line), Len(s) <= Len(u),
                      SubSeq(s, 1, Len(s)) = SubSeq(u, 1, Len(s)),
                      NEW j \in DOMAIN s
               PROVE  j \in DOMAIN u /\ u[j] = s[j]
    OBVIOUS
  <2>1. j \in 1 .. Len(s) /\ Len(s) \in Nat /\ Len(u) \in Nat
    OBVIOUS
  <2>2. j \in DOMAIN u
    BY <2>1
  <2>3. SubSeq(s, 1, Len(s))[j] = s[j] /\ SubSeq(u, 1, Len(s))[j] = u[j]
    BY <2>1
  <2> QED
    BY <2>2, <2>3
<1>7. i \in DOMAIN files'[f] /\ files'[f][i] = l
  BY <1>3, <1>5, <1>6
<1> QED
  BY <1>7 DEF Written

LEMMA WritePuts ==
  ASSUME TypeInv, NEW l \in Line, write(l)
  PROVE  Written(l)' \/ l \in lost'
<1>1. files \in [File -> Seq(Line)] /\ m_log_filestream \in File \cup {Closed}
  BY DEF TypeInv, TypeOK
<1>2. CASE m_log_filestream = Closed
  BY <1>2 DEF write
<1>3. CASE m_log_filestream # Closed
  <2>1. /\ m_log_filestream \in File
        /\ files'[m_log_filestream] = Append(files[m_log_filestream], l)
    BY <1>1, <1>3 DEF write
  <2>2. files[m_log_filestream] \in Seq(Line)
    BY <1>1, <2>1
  <2>3. /\ Len(files[m_log_filestream]) + 1 \in DOMAIN files'[m_log_filestream]
        /\ files'[m_log_filestream][Len(files[m_log_filestream]) + 1] = l
    BY <2>1, <2>2
  <2> QED
    BY <2>1, <2>3 DEF Written
<1> QED
  BY <1>2, <1>3

LEMMA LostStays ==
  ASSUME [Next]_vars
  PROVE  lost \subseteq lost'
<1> QED
  BY DEF Next, CallerStep, WriterStep, GetTime, LocalTime, Count, RotateDay, RotateSplit, Drain,
         CloseFile, OpenFile, PushLine, WriteLine, PopLine, AsyncWrite, EndWriter, SetDone,
         Shutdown, Midnight, write, streamVars, vars

LEMMA WhereInit == Init => WhereInv
<1> SUFFICES ASSUME Init, NEW l \in Line, l[2] <= calls[l[1]]
             PROVE  FALSE
  BY DEF WhereInv
<1>1. l[1] \in Callers /\ l[2] \in 1 .. Lines /\ Lines \in Nat
  BY Constants DEF Line
<1> QED
  BY <1>1 DEF Init

LEMMA WhereStep ==
  ASSUME FilesInv, WhereInv, [Next]_vars
  PROVE  WhereInv'
<1> SUFFICES ASSUME today' = 1, NEW l \in Line, (l[2] <= calls[l[1]])'
             PROVE  (Written(l) \/ l \in lost \/ l = hand \/ Queued(l))'
  BY DEF WhereInv
<1>1. /\ TypeInv /\ calls \in [Callers -> 0 .. Lines] /\ Lines \in Nat
      /\ m_log_queue \in Seq(Line)
  BY Constants DEF FilesInv, TypeInv, TypeOK
<1>2. today = 1 /\ ~ Midnight
  BY <1>1, SameDay
<1>3. l[1] \in Callers /\ l[2] \in 1 .. Lines /\ l # NoLine
  BY NoLineAssumption DEF Line
<1>4. l[2] <= calls[l[1]] => Written(l) \/ l \in lost \/ l = hand \/ Queued(l)
  BY <1>2 DEF WhereInv
<1>5. Written(l) => Written(l)'
  BY WrittenStays
<1>6. l \in lost => l \in lost'
  BY LostStays
<1>7. CASE UNCHANGED <<calls, hand, m_log_queue>>
  BY <1>4, <1>5, <1>6, <1>7 DEF Queued
<1>8. ASSUME NEW t \in Callers, PushLine(t)
      PROVE  (Written(l) \/ l \in lost \/ l = hand \/ Queued(l))'
  <2>1. /\ m_log_queue' = Append(m_log_queue, one_log(t)) /\ hand' = hand
        /\ calls' = [calls EXCEPT ![t] = @ + 1]
    BY <1>8 DEF PushLine, Return
  <2>2. one_log(t) \in Line
    BY <1>1, <1>8, LineTyped DEF PushLine
  <2>3. Queued(l) => Queued(l)'
    <3> SUFFICES ASSUME NEW i \in DOMAIN m_log_queue, m_log_queue[i] = l
                 PROVE  i \in DOMAIN m_log_queue' /\ m_log_queue'[i] = l
      BY DEF Queued
    <3> QED
      BY <1>1, <2>1, <2>2
  <2>4. CASE l = one_log(t)
    <3>1. /\ Len(m_log_queue) + 1 \in DOMAIN m_log_queue'
          /\ m_log_queue'[Len(m_log_queue) + 1] = one_log(t)
      BY <1>1, <2>1, <2>2
    <3> QED
      BY <2>4, <3>1 DEF Queued
  <2>5. CASE l # one_log(t)
    <3>1. l[2] <= calls[l[1]]
      BY <1>1, <1>3, <2>1, <2>5 DEF one_log, Line
    <3> QED
      BY <1>4, <1>5, <1>6, <2>1, <2>3, <3>1
  <2> QED
    BY <2>4, <2>5
<1>9. ASSUME NEW t \in Callers, WriteLine(t)
      PROVE  (Written(l) \/ l \in lost \/ l = hand \/ Queued(l))'
  <2>1. /\ write(one_log(t)) /\ UNCHANGED <<hand, m_log_queue>>
        /\ calls' = [calls EXCEPT ![t] = @ + 1]
    BY <1>9 DEF WriteLine, Return, queueVars
  <2>2. one_log(t) \in Line
    BY <1>1, <1>9, LineTyped DEF WriteLine
  <2>3. CASE l = one_log(t)
    BY <1>1, <2>1, <2>3, WritePuts
  <2>4. CASE l # one_log(t)
    <3>1. l[2] <= calls[l[1]]
      BY <1>1, <1>3, <2>1, <2>4 DEF one_log, Line
    <3> QED
      BY <1>4, <1>5, <1>6, <2>1, <3>1 DEF Queued
  <2> QED
    BY <2>3, <2>4
<1>10. CASE PopLine
  <2>1. /\ m_log_queue # << >> /\ hand = NoLine /\ UNCHANGED calls
        /\ hand' = Head(m_log_queue) /\ m_log_queue' = Tail(m_log_queue)
    BY <1>10 DEF PopLine, callerVars
  <2>2. Queued(l) => l = hand' \/ Queued(l)'
    <3> SUFFICES ASSUME NEW i \in DOMAIN m_log_queue, m_log_queue[i] = l, i # 1
                 PROVE  Queued(l)'
      BY <1>1, <2>1 DEF Queued
    <3>1. i - 1 \in DOMAIN m_log_queue' /\ m_log_queue'[i - 1] = l
      BY <1>1, <2>1
    <3> QED
      BY <3>1 DEF Queued
  <2> QED
    BY <1>3, <1>4, <1>5, <1>6, <2>1, <2>2
<1>11. CASE AsyncWrite
  <2>1. write(hand) /\ UNCHANGED <<calls, m_log_queue>>
    BY <1>11 DEF AsyncWrite, callerVars
  <2>2. l = hand => Written(l)' \/ l \in lost'
    BY <1>1, <2>1, WritePuts
  <2> QED
    BY <1>4, <1>5, <1>6, <2>1, <2>2 DEF Queued
<1>12. CASE EndWriter \/ SetDone \/ Shutdown \/ UNCHANGED vars
  BY <1>7, <1>12 DEF EndWriter, SetDone, Shutdown, vars, callerVars, queueVars
<1>13. ASSUME NEW t \in Callers, CallerStep(t)
       PROVE  (Written(l) \/ l \in lost \/ l = hand \/ Queued(l))'
  <2>1. CASE PushLine(t) \/ WriteLine(t)
    BY <1>8, <1>9, <2>1
  <2>2. CASE ~ (PushLine(t) \/ WriteLine(t))
    BY <1>7, <1>13, <2>2
    DEF CallerStep, GetTime, LocalTime, Count, RotateDay, RotateSplit, Drain, CloseFile,
        OpenFile, queueVars
  <2> QED
    BY <2>1, <2>2
<1> QED
  BY <1>2, <1>10, <1>11, <1>12, <1>13 DEF Next, WriterStep

(* When the destructor has returned on the day of the start, every line of *)
(* every caller is in a file, or a rotation lost it while the stream was   *)
(* closed: nothing else between the queue and the file drops one.          *)
THEOREM NothingLeftBehind == Spec => []AllWritten
<1>1. Init => FilesInv /\ WhereInv
  BY FilesInit, WhereInit
<1>2. FilesInv /\ WhereInv /\ [Next]_vars => FilesInv' /\ WhereInv'
  BY FilesStep, WhereStep
<1>3. FilesInv /\ WhereInv => AllWritten
  <2> SUFFICES ASSUME FilesInv, WhereInv, Stopped, today = 1, NEW l \in Line
               PROVE  Written(l) \/ l \in lost
    BY DEF AllWritten
  <2>1. wpc = "exit" /\ Ended /\ m_log_queue = << >> /\ hand = NoLine
    BY DEF FilesInv, EndInv, Stopped
  <2>2. l[1] \in Callers /\ l[2] \in 1 .. Lines /\ l # NoLine /\ Lines \in Nat
    BY NoLineAssumption, Constants DEF Line
  <2>3. l[2] <= calls[l[1]]
    BY <2>1, <2>2 DEF Ended
  <2>4. ~ Queued(l)
    BY <2>1 DEF Queued
  <2> QED
    BY <2>1, <2>2, <2>3, <2>4 DEF WhereInv
<1> QED
  BY <1>1, <1>2, <1>3, PTL DEF Spec
----------------------------------------------------------------------------
(* How many lines the rotations lose.                                      *)
LEMMA Sizes ==
  ASSUME TypeInv
  PROVE  /\ IsFiniteSet(lost) /\ Cardinality(lost) \in Nat
         /\ IsFiniteSet(Logging) /\ Cardinality(Logging) \in Nat
         /\ LastFile \in Nat /\ Cardinality(Callers) * LastFile \in Nat
         /\ Len(m_log_queue) \in Nat /\ AtRisk \in Nat
<1>1. lost \in SUBSET Line /\ Logging \in SUBSET Callers /\ m_count \in Nat
      /\ m_log_queue \in Seq(Line)
  BY Constants DEF TypeInv, TypeOK, Logging
<1>2. /\ IsFiniteSet(lost) /\ Cardinality(lost) \in Nat
      /\ IsFiniteSet(Logging) /\ Cardinality(Logging) \in Nat
  BY <1>1, Constants, FS_Subset, FS_CardinalityType
<1>3. LastFile \in Nat
  BY <1>1, Quotient DEF LastFile
<1>4. Cardinality(Callers) * LastFile \in Nat
  BY <1>3, Constants
<1>5. Len(m_log_queue) \in Nat /\ AtRisk \in Nat
  BY <1>1, <1>2 DEF AtRisk
<1> QED
  BY <1>2, <1>3, <1>4, <1>5

LEMMA RiskTyped ==
  ASSUME TypeInv'
  PROVE  AtRisk' \in Nat
<1>1. Logging' \in SUBSET Callers /\ m_log_queue' \in Seq(Line)
  BY DEF TypeInv, TypeOK, Logging
<1>2. Cardinality(Logging') \in Nat
  BY <1>1, Constants, FS_Subset, FS_CardinalityType
<1> QED
  BY <1>1, <1>2 DEF AtRisk

LEMMA LossInit == Init => LossInv
<1> SUFFICES ASSUME Init
             PROVE  LossInv
  OBVIOUS
<1>1. TypeInv
  BY TypeInit
<1>2. Cardinality(lost) = 0
  BY FS_EmptySet DEF Init
<1> QED
  BY <1>1, <1>2, Sizes DEF Init, LossInv

(* A step that keeps the lost lines and the count, starts no rotation and  *)
(* puts no more lines at risk keeps the invariant.                         *)
LEMMA LossFrame ==
  ASSUME TypeInv, TypeInv', LossInv, today = 1, UNCHANGED <<lost, m_count>>,
         \A t \in Callers : pc'[t] = "drain" => pc[t] = "drain",
         \A t \in Callers : pc'[t] \in {"close", "open"} =>
                              pc[t] \in {"close", "open"} /\ AtRisk' <= AtRisk
  PROVE  LossInv'
<1>1. LastFile' = LastFile /\ Cardinality(lost') = Cardinality(lost)
  BY DEF LastFile
<1>2. /\ Cardinality(lost) \in Nat /\ AtRisk \in Nat /\ AtRisk' \in Nat
      /\ Cardinality(Callers) * LastFile \in Nat
  BY Sizes, RiskTyped
<1>3. ASSUME NEW t \in Callers, pc'[t] \in {"close", "open"}
      PROVE  Cardinality(lost) + AtRisk' <= Cardinality(Callers) * LastFile
  <2>1. Cardinality(lost) + AtRisk <= Cardinality(Callers) * LastFile /\ AtRisk' <= AtRisk
    BY <1>3 DEF LossInv
  <2> QED
    BY <1>2, <2>1
<1> QED
  BY <1>1, <1>3 DEF LossInv

(* A rotation that finds the queue empty puts at most one line for each    *)
(* caller at risk: of the others, the one each has in hand, and the        *)
(* writer's.                                                               *)
LEMMA DrainedRisk ==
  ASSUME TypeInv, NEW t \in Callers, Drain(t)
  PROVE  AtRisk' <= Cardinality(Callers)
<1>1. /\ pc \in [Callers -> Position] /\ m_log_queue \in Seq(Line)
      /\ Len(m_log_queue) <= queue_size /\ queue_size \in Nat
  BY Constants DEF TypeInv, TypeOK, CountInv, Position
<1>2. Logging' \in SUBSET (Callers \ {t})
  BY <1>1 DEF Logging, Drain
<1>3. /\ IsFiniteSet(Callers \ {t})
      /\ Cardinality(Callers \ {t}) = Cardinality(Callers) - 1
  BY Constants, FS_RemoveElement
<1>4. Cardinality(Logging') <= Cardinality(Callers) - 1 /\ Cardinality(Logging') \in Nat
  BY <1>2, <1>3, FS_Subset, FS_CardinalityType
<1>5. m_log_queue' = << >>
  BY <1>1 DEF Drain, m_is_async, queueVars
<1>6. Len(m_log_queue') = 0 /\ Cardinality(Callers) \in Nat
  BY <1>5, Constants
<1> QED
  BY <1>4, <1>5, <1>6 DEF AtRisk

LEMMA LossStep ==
  ASSUME FilesInv, LossInv, [Next]_vars
  PROVE  LossInv'
<1> SUFFICES ASSUME today' = 1
             PROVE  LossInv'
  BY DEF LossInv
<1>1. /\ TypeInv /\ TypeInv' /\ EndInv /\ LockInv /\ LockInv'
  BY TypeStep DEF FilesInv, TypeInv
<1>2. /\ pc \in [Callers -> Position] /\ m_log_queue \in Seq(Line) /\ m_count \in Nat
      /\ Len(m_log_queue) <= queue_size /\ queue_size \in Nat
  BY <1>1, Constants DEF TypeInv, TypeOK, CountInv, Position
<1>3. today = 1 /\ ~ Midnight /\ tm_mday = 1 /\ m_today = 1
  BY <1>1, SameDay DEF FilesInv, DayInv
<1>4. /\ IsFiniteSet(lost) /\ Cardinality(lost) \in Nat
      /\ IsFiniteSet(Logging) /\ Cardinality(Logging) \in Nat
      /\ LastFile \in Nat /\ Cardinality(Callers) * LastFile \in Nat
      /\ Len(m_log_queue) \in Nat /\ AtRisk \in Nat
      /\ Cardinality(Callers) \in Nat
  BY <1>1, Sizes, Constants
<1>5. ASSUME NEW t \in Callers, GetTime(t) \/ LocalTime(t) \/ CloseFile(t)
      PROVE  LossInv'
  <2>1. Logging' = Logging
    BY <1>2, <1>5 DEF Logging, GetTime, LocalTime, CloseFile
  <2>2. UNCHANGED <<lost, m_count, m_log_queue, hand>>
    BY <1>5 DEF GetTime, LocalTime, CloseFile, streamVars, queueVars
  <2>3. AtRisk' = AtRisk
    BY <2>1, <2>2 DEF AtRisk
  <2>4. \A u \in Callers : pc'[u] = "drain" => pc[u] = "drain"
    BY <1>2, <1>5 DEF GetTime, LocalTime, CloseFile
  <2>5. \A u \in Callers : pc'[u] \in {"close", "open"} => pc[u] \in {"close", "open"}
    BY <1>2, <1>5 DEF GetTime, LocalTime, CloseFile
  <2> QED
    BY <1>1, <1>3, <1>4, <2>2, <2>3, <2>4, <2>5, LossFrame
<1>6. ASSUME NEW t \in Callers, Count(t)
      PROVE  LossInv'
  <2>1. LastFile' = LastFile
    BY <1>2, <1>6, Quotient DEF Count, SplitNow, LastFile
  <2>2. \A u \in Callers : pc'[u] \notin {"drain", "close", "open"}
    BY <1>1, <1>2, <1>6 DEF LockInv, Rotating, Count
  <2> QED
    BY <1>3, <1>6, <2>1, <2>2 DEF LossInv, Count, streamVars
<1>7. ASSUME NEW t \in Callers, RotateSplit(t)
      PROVE  LossInv'
  <2>1. LastFile' = LastFile + 1
    BY <1>2, <1>7, Quotient DEF RotateSplit, SplitNow, LastFile
  <2>2. Cardinality(Callers) * LastFile' = Cardinality(Callers) * LastFile + Cardinality(Callers)
    BY <1>4, <2>1
  <2>3. \A u \in Callers : pc'[u] \notin {"close", "open"}
    BY <1>1, <1>2, <1>7 DEF LockInv, Rotating, RotateSplit
  <2>4. lost' = lost /\ Cardinality(lost) <= Cardinality(Callers) * LastFile
    BY <1>3, <1>7 DEF LossInv, RotateSplit, streamVars
  <2>5. /\ Cardinality(lost') + Cardinality(Callers) <= Cardinality(Callers) * LastFile'
        /\ Cardinality(lost') <= Cardinality(Callers) * LastFile'
    BY <1>4, <2>2, <2>4
  <2> QED
    BY <2>3, <2>5 DEF LossInv
<1>8. ASSUME NEW t \in Callers, RotateDay(t)
      PROVE  FALSE
  BY <1>3, <1>8 DEF RotateDay, NewDay
<1>9. ASSUME NEW t \in Callers, Drain(t)
      PROVE  LossInv'
  <2>1. UNCHANGED <<lost, m_count>>
    BY <1>9 DEF Drain, streamVars
  <2>2. \A u \in Callers : pc'[u] # "drain"
    BY <1>1, <1>2, <1>9 DEF Drain, LockInv, Rotating
  <2>3. AtRisk' <= Cardinality(Callers)
    BY <1>1, <1>9, DrainedRisk
  <2>4. /\ Cardinality(lost) + Cardinality(Callers) <= Cardinality(Callers) * LastFile
        /\ LastFile' = LastFile /\ AtRisk' \in Nat
    BY <1>1, <1>3, <1>9, <2>1, RiskTyped DEF LossInv, Drain, LastFile
  <2>5. /\ Cardinality(lost) + AtRisk' <= Cardinality(Callers) * LastFile
        /\ Cardinality(lost) <= Cardinality(Callers) * LastFile
    BY <1>4, <2>3, <2>4
  <2> QED
    BY <2>1, <2>2, <2>4, <2>5 DEF LossInv
<1>10. ASSUME NEW t \in Callers, OpenFile(t)
       PROVE  LossInv'
  <2>1. \A u \in Callers : pc'[u] \notin {"drain", "close", "open"}
    BY <1>1, <1>2, <1>10 DEF LockInv, Rotating, OpenFile
  <2> QED
    BY <1>3, <1>10, <2>1 DEF LossInv, OpenFile, LastFile
<1>11. ASSUME NEW t \in Callers, PushLine(t)
       PROVE  LossInv'
  <2>1. /\ pc[t] = "log" /\ pc' = [pc EXCEPT ![t] = "idle"]
        /\ m_log_queue' = Append(m_log_queue, one_log(t))
        /\ UNCHANGED <<lost, m_count, hand>>
    BY <1>11 DEF PushLine, Return, streamVars
  <2>2. Logging' = Logging \ {t} /\ t \in Logging
    BY <1>2, <2>1 DEF Logging
  <2>3. Cardinality(Logging') = Cardinality(Logging) - 1
    BY <1>4, <2>2, FS_RemoveElement
  <2>4. one_log(t) \in Line
    BY <1>1, <2>1, LineTyped
  <2>5. Len(m_log_queue') = Len(m_log_queue) + 1
    BY <1>2, <2>1, <2>4
  <2>6. AtRisk' = AtRisk
    BY <1>4, <2>1, <2>3, <2>5 DEF AtRisk
  <2>7. \A u \in Callers : u # t => pc'[u] = pc[u]
    BY <1>2, <2>1
  <2> QED
    BY <1>1, <1>2, <1>3, <1>4, <2>1, <2>6, <2>7, LossFrame
<1>12. ASSUME NEW t \in Callers, WriteLine(t)
       PROVE  LossInv'
  <2>1. \A u \in Callers : ~ Rotating(u) /\ ~ Rotating(u)'
    BY <1>1, <1>2, <1>12 DEF LockInv, WriteLine, Return
  <2>2. ~ Ended
    BY <1>12 DEF Ended, WriteLine
  <2>3. m_log_filestream # Closed
    BY <1>1, <2>1, <2>2, StreamOpen DEF Rotating
  <2>4. UNCHANGED <<lost, m_count>>
    BY <1>12, <2>3 DEF WriteLine, Return, write
  <2> QED
    BY <1>1, <1>3, <2>1, <2>4, LossFrame DEF Rotating
<1>13. CASE PopLine
  <2>1. /\ m_log_queue # << >> /\ hand = NoLine
        /\ hand' = Head(m_log_queue) /\ m_log_queue' = Tail(m_log_queue)
        /\ UNCHANGED <<pc, lost, m_count>>
    BY <1>13 DEF PopLine, callerVars, streamVars
  <2>2. Len(m_log_queue') = Len(m_log_queue) - 1 /\ Len(m_log_queue') \in Nat
    BY <1>2, <2>1
  <2>3. Logging' = Logging
    BY <2>1 DEF Logging
  <2>4. AtRisk' <= AtRisk
    BY <1>4, <2>1, <2>2, <2>3 DEF AtRisk
  <2> QED
    BY <1>1, <1>3, <2>1, <2>4, LossFrame
<1>14. CASE AsyncWrite
  <2>1. /\ hand # NoLine /\ hand' = NoLine /\ write(hand)
        /\ UNCHANGED <<pc, m_count, m_log_queue>>
    BY <1>14 DEF AsyncWrite, callerVars
  <2>2. Logging' = Logging
    BY <2>1 DEF Logging
  <2>3. AtRisk = AtRisk' + 1 /\ AtRisk' \in Nat /\ LastFile' = LastFile
    BY <1>4, <2>1, <2>2 DEF AtRisk, LastFile
  <2>4. CASE m_log_filestream # Closed
    <3>1. UNCHANGED lost
      BY <2>1, <2>4 DEF write
    <3>2. AtRisk' <= AtRisk
      <4>1. \A m, n \in Nat : n = m + 1 => m <= n
        OBVIOUS
      <4> QED
        BY <1>4, <2>3, <4>1
    <3> QED
      BY <1>1, <1>3, <2>1, <3>1, <3>2, LossFrame
  <2>5. CASE m_log_filestream = Closed
    <3>1. PICK u \in Callers : pc[u] = "open"
      BY <1>1, <2>1, <2>5 DEF EndInv
    <3>2. \A t \in Callers : pc'[t] # "drain"
      BY <1>1, <2>1, <3>1 DEF LockInv, Rotating
    <3>3. Cardinality(lost) + AtRisk <= Cardinality(Callers) * LastFile
      BY <1>3, <3>1 DEF LossInv
    <3>4. lost' = lost \cup {hand}
      BY <2>1, <2>5 DEF write
    <3>5. Cardinality(lost') \in Nat /\ Cardinality(lost') <= Cardinality(lost) + 1
      <4>1. Cardinality(lost') = IF hand \in lost THEN Cardinality(lost) ELSE Cardinality(lost) + 1
        BY <1>4, <3>4, FS_AddElement
      <4> QED
        BY <1>4, <4>1
    <3>6. /\ Cardinality(lost') + AtRisk' <= Cardinality(Callers) * LastFile'
          /\ Cardinality(lost') <= Cardinality(Callers) * LastFile'
      BY SMTT(30), <1>4, <2>3, <3>3, <3>5
    <3> QED
      BY <3>2, <3>6 DEF LossInv
  <2> QED
    BY <2>4, <2>5
<1>15. CASE EndWriter \/ SetDone \/ Shutdown \/ UNCHANGED vars
  <2>1. UNCHANGED <<pc, lost, m_count, m_log_queue, hand>>
    BY <1>15 DEF EndWriter, SetDone, Shutdown, vars, callerVars, streamVars, queueVars
  <2>2. AtRisk' <= AtRisk
    BY <1>4, <2>1 DEF AtRisk, Logging
  <2> QED
    BY <1>1, <1>3, <2>1, <2>2, LossFrame
<1> QED
  BY <1>3, <1>5, <1>6, <1>7, <1>8, <1>9, <1>10, <1>11, <1>12, <1>13, <1>14, <1>15
  DEF Next, CallerStep, WriterStep

(* A rotation that has waited for the empty queue loses at most one line   *)
(* for each caller, however the writer and the other callers are           *)
(* scheduled while the stream is closed.                                   *)
THEOREM LossIsBounded == Spec => []LossBounded
<1>1. Init => FilesInv /\ LossInv
  BY FilesInit, LossInit
<1>2. FilesInv /\ LossInv /\ [Next]_vars => FilesInv' /\ LossInv'
  BY FilesStep, LossStep
<1>3. LossInv => LossBounded
  BY DEF LossInv, LossBounded, LastFile
<1> QED
  BY <1>1, <1>2, <1>3, PTL DEF Spec
=============================================================================
