------------------------------- MODULE LogFile -------------------------------
(***************************************************************************)
(* The log file that is rolled: a new one when the one in use is too long  *)
(* or a new day has come, and a flush now and then.  A message is one unit *)
(* long; an append brings one or several.                                  *)
(***************************************************************************)
EXTENDS Integers, Sequences

CONSTANTS RollSize,         \* rollSize_
          CheckEveryN,      \* checkEveryN_: appends between looks at the clock
          FlushInterval,    \* flushInterval_, in seconds
          SecondsPerDay,    \* kRollPerSeconds_
          MaxTime,          \* bound: seconds
          MaxFaults         \* bound: writes that fail

VARIABLES
    now,            \* time(NULL)
    lastRoll,       \* lastRoll_
    lastFlush,      \* lastFlush_
    startOfPeriod,  \* startOfPeriod_, as a day
    count,          \* count_
    writtenBytes,   \* writtenBytes_ of file_
    log,            \* history: what has been written, in all files
    onDisk,         \* history: how much of it is flushed
    late,           \* history: appends to file_ on a day that is not its own
    faults,         \* history: writes that have failed
    lost            \* history: the messages they have lost

fileVars == <<lastRoll, lastFlush, startOfPeriod, count, writtenBytes, log, onDisk, late, faults, lost>>

Day(t) == t \div SecondsPerDay

Init == /\ now = 1
        /\ lastRoll = 0 /\ lastFlush = 0 /\ startOfPeriod = 0
        /\ count = 0 /\ writtenBytes = 0
        /\ log = <<>> /\ onDisk = 0 /\ late = 0
        /\ faults = 0 /\ lost = {}

MayRoll == now > lastRoll

\* The name has the second in it: within a second of the last one there is no new file.
\* Closing the old file flushes it.
RollFile(bytes) ==
    IF MayRoll
    THEN /\ lastRoll' = now /\ lastFlush' = now
         /\ startOfPeriod' = Day(now)
         /\ writtenBytes' = 0
         /\ onDisk' = Len(log')
         /\ late' = 0
    ELSE /\ writtenBytes' = bytes
         /\ UNCHANGED <<lastRoll, lastFlush, startOfPeriod, onDisk, late>>

KeepFile(bytes) ==
    /\ writtenBytes' = bytes
    /\ late' = IF Day(now) # startOfPeriod THEN late + 1 ELSE late
    /\ UNCHANGED <<lastRoll, startOfPeriod>>

NewDay_Mutant == now - lastRoll > SecondsPerDay     \* seeded bug: a day after the last roll
NewDay == Day(now) # startOfPeriod

Due == count + 1 >= CheckEveryN

\* AppendFile::append, which gives up at an error: the bytes of the write that
\* failed are not counted, though some may be there.
Write(messages) ==
    \/ /\ log' = log \o messages
       /\ UNCHANGED <<faults, lost>>
    \/ /\ faults < MaxFaults /\ faults' = faults + 1
       /\ \E n \in 0 .. Len(messages) - 1 :
            /\ log' = log \o SubSeq(messages, 1, n)
            /\ lost' = lost \cup {messages[i] : i \in n + 1 .. Len(messages)}

Counted(messages) == IF faults' = faults THEN Len(messages) ELSE 0

AppendTo(messages) ==
    /\ Write(messages)
    /\ LET bytes == writtenBytes + Counted(messages)
       IN \/ /\ bytes > RollSize
             /\ RollFile(bytes)
             /\ UNCHANGED count
          \/ /\ bytes <= RollSize /\ ~Due
             /\ count' = count + 1
             /\ KeepFile(bytes)
             /\ UNCHANGED <<lastFlush, onDisk>>
          \/ /\ bytes <= RollSize /\ Due
             /\ count' = 0
             /\ IF NewDay THEN RollFile(bytes)
                ELSE /\ KeepFile(bytes)
                     /\ IF now - lastFlush > FlushInterval
                        THEN lastFlush' = now /\ onDisk' = Len(log')
                        ELSE UNCHANGED <<lastFlush, onDisk>>
    /\ UNCHANGED now

Flush == /\ onDisk' = Len(log)
         /\ UNCHANGED <<now, lastRoll, lastFlush, startOfPeriod, count, writtenBytes, log, late, faults, lost>>

Tick == /\ now < MaxTime
        /\ now' = now + 1
        /\ UNCHANGED fileVars
=============================================================================
