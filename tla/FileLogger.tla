------------------------------- MODULE FileLogger -------------------------------
(***************************************************************************)
(* The file logger: lines collect in a buffer, a full buffer becomes the   *)
(* next numbered file, the oldest file is removed, and an index file       *)
(* carries the number to the next process.                                 *)
(***************************************************************************)
EXTENDS Files

CONSTANTS BufferLen,    \* stringBufferLen
          MaxLogFiles,  \* maxFileCount
          LineLengths,  \* lengths of lines, the time and the level included
          MaxLines,     \* bound on the lines logged
          MaxFaults,    \* bound on failed writes
          MaxCrashes    \* bound on crashes of the process

ASSUME LoggerAssumption == BufferLen \in Nat \ {0} /\ MaxLogFiles \in Nat \ {0}

VARIABLES logger,       \* gFileLogger, NoLogger when there is none
          disk,         \* the numbered files and the index file of each kind
          logLevel,     \* gLoggerLogLevel
          printFn,      \* globalCustomLogPrintFn
          lines,        \* lines logged
          kept,         \* per kind, the lines accepted into a buffer
          lost,         \* per kind, those that a fault took
          faults,       \* failed writes: their number, and whether an index was among them
          crashes,
          tested        \* the level of a call that has found a logger and not yet its lock, or 0

loggerVars == <<logger, disk, logLevel, printFn, lines, kept, lost, faults, crashes, tested>>

Kinds == {"main", "level"}
LOG_LEVEL == [INFO |-> 3, WARN |-> 4, SILENT |-> 7]
NoLogger == [max |-> 0]
Empty == [len |-> 0, offset |-> 0, buffer |-> << >>, index |-> 0]
IndexOf(k) == disk.index[k]

LoggerInit ==
    /\ logger = NoLogger /\ logLevel = LOG_LEVEL.INFO /\ printFn = "default"
    /\ disk = [logs |-> [k \in Kinds |-> << >>], index |-> [k \in Kinds |-> NoFile]]
    /\ lines = 0 /\ kept = [k \in Kinds |-> {}] /\ lost = kept
    /\ faults = [count |-> 0, index |-> FALSE] /\ crashes = 0 /\ tested = 0

-----------------------------------------------------------------------------
(* Flushing *)

MutRotated(logs, p, max) == [i \in DOMAIN logs \ (IF p.index > max THEN {p.index - max} ELSE {}) |-> logs[i]]

\* The file that falls out of the window goes first.
Rotated(logs, p, max) == [i \in DOMAIN logs \ (IF p.index >= max THEN {p.index - max} ELSE {}) |-> logs[i]]

WithFile(logs, i, content) == [j \in DOMAIN logs \cup {i} |-> IF j = i THEN content ELSE logs[j]]

\* Either write may be refused, or empty its file and fail.
Outcomes == {"done", "refused", "cut", "index refused", "index cut"}

\* What a flush leaves on the disk and in the logger; the buffer is empty whatever happens.
flushLogToFile(lg, dk, k, outcome) ==
    LET p == lg.par[k]
        rotated == Rotated(dk.logs[k], p, lg.max)
        logs == CASE outcome = "refused" -> rotated
                  [] outcome = "cut" -> WithFile(rotated, p.index, << >>)
                  [] OTHER -> WithFile(rotated, p.index, writeFile(NoFile, FALSE, p.buffer).file)
        index == CASE outcome = "done" -> writeFile(dk.index[k], FALSE, <<p.index + 1>>).file
                   [] outcome = "index cut" -> << >>
                   [] OTHER -> dk.index[k]
    IN  IF p.offset = 0 THEN [logger |-> lg, disk |-> dk]
        ELSE [logger |-> [lg EXCEPT !.par[k].offset = 0, !.par[k].buffer = << >>,
                                    !.par[k].index = IF outcome \in {"refused", "cut"} THEN @ ELSE @ + 1],
              disk |-> [logs |-> [dk.logs EXCEPT ![k] = logs], index |-> [dk.index EXCEPT ![k] = index]]]

Fails(outcome) ==
    /\ outcome # "done" => faults.count < MaxFaults
    /\ faults' = IF outcome = "done" THEN faults
                 ELSE [count |-> faults.count + 1, index |-> faults.index \/ outcome \in {"index refused", "index cut"}]
Buffered(k) == Range(logger.par[k].buffer)
TakenBy(outcome, k) == IF outcome \in {"refused", "cut"} THEN Buffered(k) ELSE {}

-----------------------------------------------------------------------------
(* Creating and freeing *)

\* The number to go on with; an index file that is empty cannot be read.
LoadIndex(k, used) ==
    CASE ~used -> [st |-> "SUCCESS", p |-> Empty]
      [] ~fileExists(IndexOf(k)) -> [st |-> "SUCCESS", p |-> [Empty EXCEPT !.len = BufferLen]]
      [] readFile(IndexOf(k), "bytes").st # "SUCCESS" -> [st |-> "READ_FILE_FAILED", p |-> Empty]
      [] OTHER -> [st |-> "SUCCESS", p |-> [Empty EXCEPT !.len = BufferLen, !.index = readFile(IndexOf(k), "bytes").bytes[1]]]

\* The lines of a file that is about to be written again are given up.
Overwritten(k) == IF logger'.par[k].index \in DOMAIN disk.logs[k] THEN Range(disk.logs[k][logger'.par[k].index]) ELSE {}

\* A failure leaves no logger.
Open(all, filter, global) ==
    LET loaded == [k \in Kinds |-> LoadIndex(k, IF k = "main" THEN all ELSE filter # 0)]
    IN  /\ logger = NoLogger
        /\ IF \A k \in Kinds : loaded[k].st = "SUCCESS"
           THEN /\ logger' = [max |-> MaxLogFiles, all |-> all, filter |-> filter, stored |-> IF global THEN printFn ELSE "none",
                              par |-> [k \in Kinds |-> loaded[k].p]]
                /\ printFn' = IF global THEN "file" ELSE printFn
                /\ lost' = [k \in Kinds |-> lost[k] \cup (IF loaded[k].p.len = 0 THEN {} ELSE Overwritten(k))]
           ELSE UNCHANGED <<logger, printFn, lost>>
        /\ UNCHANGED <<disk, logLevel, lines, kept, faults, crashes, tested>>

createFileLogger(global) == Open(TRUE, 0, global)

\* A level that does not exist filters nothing.
createFileLoggerWithLevelFiltering(all, level, global) ==
    Open(all, IF level \in {LOG_LEVEL.INFO, LOG_LEVEL.WARN} THEN level ELSE 0, global)

\* Both buffers are flushed; one of the flushes may fail.
freeFileLogger(k, outcome) ==
    LET first == flushLogToFile(logger, disk, "main", IF k = "main" THEN outcome ELSE "done")
        second == flushLogToFile(first.logger, first.disk, "level", IF k = "level" THEN outcome ELSE "done")
    IN  /\ logger # NoLogger /\ Fails(outcome)
        /\ outcome # "done" => logger.par[k].offset # 0
        /\ logger' = NoLogger /\ disk' = second.disk
        /\ printFn' = IF logger.stored = "none" THEN printFn ELSE logger.stored
        /\ lost' = [lost EXCEPT ![k] = @ \cup TakenBy(outcome, k)]
        /\ UNCHANGED <<logLevel, lines, kept, crashes, tested>>

-----------------------------------------------------------------------------
(* Logging *)

KindOf(level) == IF level = logger.filter THEN {"level"} ELSE IF logger.all THEN {"main"} ELSE {}

\* The line is printed behind the others; when that fills the buffer they are flushed and it is
\* printed again at the start, cut when it is longer than the buffer.
PrintLine(level, length, outcome) ==
    /\ logger # NoLogger /\ lines < MaxLines
    /\ lines' = lines + 1
    /\ \E k \in KindOf(level) :
          LET p == logger.par[k]
              full == p.offset + length >= p.len
              done == IF full THEN flushLogToFile(logger, disk, k, outcome) ELSE [logger |-> logger, disk |-> disk]
              n == IF full /\ length > p.len THEN p.len - 1 ELSE length
          IN  /\ outcome # "done" => full /\ p.offset # 0
              /\ Fails(outcome)
              /\ logger' = [done.logger EXCEPT !.par[k].offset = @ + n, !.par[k].buffer = Append(@, lines')]
              /\ disk' = done.disk
              /\ kept' = [kept EXCEPT ![k] = @ \cup {lines'}]
              /\ lost' = [lost EXCEPT ![k] = @ \cup TakenBy(outcome, k)]
    /\ UNCHANGED <<logLevel, printFn, crashes>>

\* The level and the logger are looked at before the lock is taken.
IsLogged(level) == logLevel # LOG_LEVEL.SILENT /\ level >= logLevel /\ logger # NoLogger
fileLoggerLogPrintFn(level, length, outcome) ==
    /\ IsLogged(level) /\ PrintLine(level, length, outcome)
    /\ UNCHANGED tested

\* A call that is held up between the two prints to the logger it then finds.  If that has been
\* freed meanwhile, and there is no other, it follows a pointer to nothing: the process ends.
HeldUp(level) ==
    /\ tested = 0 /\ IsLogged(level) /\ tested' = level
    /\ UNCHANGED <<logger, disk, logLevel, printFn, lines, kept, lost, faults, crashes>>
LateLine(length, outcome) == tested # 0 /\ tested' = 0 /\ PrintLine(tested, length, outcome)
LateCrash ==
    /\ tested # 0 /\ tested' = 0 /\ logger = NoLogger /\ crashes < MaxCrashes
    /\ crashes' = crashes + 1 /\ logLevel' = LOG_LEVEL.INFO
    /\ UNCHANGED <<logger, disk, printFn, lines, kept, lost, faults>>

loggerSetLogLevel(level) ==
    /\ level # logLevel /\ logLevel' = level
    /\ UNCHANGED <<logger, disk, printFn, lines, kept, lost, faults, crashes, tested>>

\* The process ends, perhaps in the middle of a flush: where it stopped is what that write
\* would have left had it failed.
Crash(k, outcome) ==
    /\ logger # NoLogger /\ crashes < MaxCrashes
    /\ crashes' = crashes + 1 /\ tested' = 0
    /\ logger' = NoLogger /\ printFn' = "default" /\ logLevel' = LOG_LEVEL.INFO
    /\ disk' = IF outcome = "none" THEN disk ELSE flushLogToFile(logger, disk, k, outcome).disk
    /\ lost' = [j \in Kinds |-> lost[j] \cup Buffered(j)]
    /\ UNCHANGED <<lines, kept, faults>>

LoggerNext ==
    \/ \E global \in BOOLEAN : createFileLogger(global)
    \/ \E all \in BOOLEAN, level \in {0, LOG_LEVEL.WARN} : createFileLoggerWithLevelFiltering(all, level, TRUE)
    \/ \E k \in Kinds, outcome \in Outcomes : freeFileLogger(k, outcome)
    \/ \E level \in {LOG_LEVEL.INFO, LOG_LEVEL.WARN}, length \in LineLengths, outcome \in Outcomes :
          fileLoggerLogPrintFn(level, length, outcome)
    \/ \E level \in {LOG_LEVEL.INFO, LOG_LEVEL.WARN} : HeldUp(level)
    \/ \E length \in LineLengths, outcome \in Outcomes : LateLine(length, outcome)
    \/ LateCrash
    \/ \E level \in {LOG_LEVEL.INFO, LOG_LEVEL.SILENT} : loggerSetLogLevel(level)
    \/ \E k \in Kinds, outcome \in Outcomes \cup {"none"} : Crash(k, outcome)

-----------------------------------------------------------------------------
\* The lines of a kind, oldest file first, then the buffer.
RECURSIVE InFiles(_, _)
InFiles(logs, S) == IF S = {} THEN << >> ELSE LET i == CHOOSE j \in S : \A l \in S : j <= l IN logs[i] \o InFiles(logs, S \ {i})
ReadBack(k) == InFiles(disk.logs[k], DOMAIN disk.logs[k]) \o (IF logger = NoLogger THEN << >> ELSE logger.par[k].buffer)

\* As long as every index could be written (flushLogToFile), and through crashes anywhere in
\* a flush, the numbered files and the buffer hold the lines in the order they were logged,
\* no line twice; there are never more files than asked for; and the lines missing are the
\* oldest ones or were taken by a failed write or a crash. Freeing the logger gives the print
\* function back.
LogsKept ==
    /\ ~faults.index => \A k \in Kinds :
          LET read == ReadBack(k)
          IN  /\ \A i, j \in DOMAIN read : i < j => read[i] < read[j]
              /\ Cardinality(DOMAIN disk.logs[k]) <= MaxLogFiles
              /\ \A n \in kept[k] \ (lost[k] \cup Range(read)) : \A i \in DOMAIN read : n < read[i] \/ read[i] \in lost[k]
    /\ logger = NoLogger => printFn = "default"

\* The files of the application and those of the logger (FilesExact and LogsKept together).
FilesKept == FilesExact /\ LogsKept
=============================================================================
