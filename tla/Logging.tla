------------------------------ MODULE Logging ------------------------------
(***************************************************************************)
(* The logging front end: a thread that logs has a Logger, which puts a    *)
(* line together and gives it to g_output when it is destroyed.  The time  *)
(* of a line is broken down once in a second by each thread, in the zone   *)
(* that is set; the number of the thread is known from its first line on.  *)
(*                                                                         *)
(* A walk of TimeZone with threads that log ends on the day on which they  *)
(* do, where the clock jumps from one second of interest to a later one.   *)
(***************************************************************************)
EXTENDS TimeZone, LogStream

CONSTANTS Loggers,          \* threads
          MaxSettings,      \* calls of setTimeZone, setLogLevel and fork
          None,             \* no line, no time

          \* characters of the parts of a line: 17, 8, 6 and 6 in the code
          kFormattedTime, kMicroseconds, kTidString, kLevelName, kStrerror, kBasename,
          SourceLine

\* Of a walk: the threads that log, the day and its seconds of interest, what is logged and
\* how many lines.
ASSUME LoggerAssumption ==
    /\ \A w \in Walks : /\ w.loggers \subseteq Loggers /\ w.lines \in Nat
                       /\ w.seconds \subseteq 0 .. kSecondsPerDay - 1
    /\ \A w \in Walks, m \in UNION {v.messages : v \in Walks} : m.level \in 0 .. 5

VARIABLES
    second,         \* the clock, within the day
    logTimeZone,    \* is g_logTimeZone the zone of the walk, or not valid
    zoneSet,        \* history: the second in which it was last set
    logLevel,       \* g_logLevel
    lines,          \* how many lines have been begun
    settings,       \* how many settings have been made
    pid,            \* the process: a child has the next number
    alive,          \* its threads
    cachedTid,      \* thread -> t_cachedTid
    lastSecond,     \* thread -> t_lastSecond
    time,           \* thread -> t_time, as the fields it is made of
    logger,         \* thread -> its Logger
    output,         \* the last line given to g_output
    aborted         \* has abort() been called

settingVars == <<logTimeZone, zoneSet, logLevel, settings, pid, alive>>
cacheVars == <<cachedTid, lastSecond, time>>
logVars == <<second, settingVars, cacheVars, lines, logger, output, aborted>>
allVars == <<zoneVars, logVars>>

TRACE == 0
DEBUG == 1
INFO == 2
WARN == 3
ERROR == 4
FATAL == 5

NoTid == <<>>
Tid(t) == <<pid, t>>                    \* gettid(2)
Now == day * kSecondsPerDay + second     \* Timestamp::now(), in seconds

LogInit == /\ ZoneInit
           /\ second = 0
           /\ logTimeZone \in {z \in BOOLEAN : walk.loggers = {} => ~z}    \* bound: nobody asks
           /\ zoneSet = None
           /\ logLevel = INFO
           /\ lines = 0 /\ settings = 0 /\ pid = 1 /\ alive = walk.loggers
           /\ cachedTid = [t \in Loggers |-> NoTid]
           /\ lastSecond = [t \in Loggers |-> 0]
           /\ time = [t \in Loggers |-> None]
           /\ logger = [t \in Loggers |-> None]
           /\ output = None
           /\ aborted = FALSE

-----------------------------------------------------------------------------
(* A line *)

Fresh_Mutant(t) == Now \div SecondsPerMinute # lastSecond[t] \div SecondsPerMinute    \* seeded bug
Fresh(t) == Now # lastSecond[t]

\* What snprintf(3) makes t_time of.
Stamp(tm) == [tm_year |-> tm.tm_year, tm_mon |-> tm.tm_mon, tm_mday |-> tm.tm_mday,
              tm_hour |-> tm.tm_hour, tm_min |-> tm.tm_min, tm_sec |-> tm.tm_sec]

FormattedTime(t) ==
    IF ~Fresh(t) THEN time[t]
    ELSE Stamp(IF logTimeZone THEN ToLocalTime(data, Now) ELSE ToUtcTime(Now))

CurrentTid(t) == IF cachedTid[t] = NoTid THEN Tid(t) ELSE cachedTid[t]

Header(level, savedErrno) ==
    LET buffer == EmptyBuffer ## Text("time", kFormattedTime)
                    ## Text("microseconds", kMicroseconds + IF logTimeZone THEN 0 ELSE 1)
                    ## Text("tid", kTidString) ## Text("level", kLevelName)
    IN  IF savedErrno = 0 THEN buffer
        ELSE buffer ## Text("strerror", kStrerror) ## Text(" (errno=", 8) ## Integer(savedErrno)
                ## Text(") ", 2)

\* LOG_TRACE and the others, up to the stream: the first three look at the level.
LogLine(t, m) ==
    /\ t \in alive /\ logger[t] = None /\ ~aborted
    /\ day = walk.day /\ lines < walk.lines
    /\ m.level <= INFO => logLevel <= m.level
    /\ lines' = lines + 1
    /\ lastSecond' = [lastSecond EXCEPT ![t] = Now]
    /\ time' = [time EXCEPT ![t] = FormattedTime(t)]
    /\ cachedTid' = [cachedTid EXCEPT ![t] = CurrentTid(t)]
    /\ logger' = [logger EXCEPT ![t] =
                    [thread |-> Tid(t), seconds |-> Now, zoneSet |-> zoneSet,
                     stamp |-> FormattedTime(t), utc |-> ~logTimeZone, tid |-> CurrentTid(t),
                     level |-> m.level, rest |-> m.pieces, buffer |-> Header(m.level, m.errno)]]
    /\ UNCHANGED <<zoneVars, second, settingVars, output, aborted>>

\* A piece is a set of texts where its number may be printed in several ways.
Stream(t) ==
    /\ logger[t] # None /\ ~aborted
    /\ logger[t].rest # <<>>
    /\ \E piece \in Head(logger[t].rest) :
          logger' = [logger EXCEPT ![t].buffer = @ ## piece, ![t].rest = Tail(@)]
    /\ UNCHANGED <<zoneVars, second, settingVars, cacheVars, lines, output, aborted>>

Finished(buffer) == buffer ## Text(" - ", 3) ## Text("basename", kBasename) ## Text(":", 1)
                    ## Integer(SourceLine) ## Text("newline", 1)

\* ~Logger.  g_flush is the user's or fflush(3): it does not change what is here.
Destroy(t) ==
    /\ logger[t] # None /\ ~aborted
    /\ logger[t].rest = <<>>
    /\ output' = [logger[t] EXCEPT !.buffer = Finished(@)]
    /\ logger' = [logger EXCEPT ![t] = None]
    /\ aborted' = (logger[t].level = FATAL)
    /\ UNCHANGED <<zoneVars, second, settingVars, cacheVars, lines>>

-----------------------------------------------------------------------------
(* Settings, and the clock *)

MaySet == day = walk.day /\ walk.loggers # {} /\ ~aborted /\ settings < MaxSettings

SetTimeZone ==
    /\ MaySet
    /\ logTimeZone' \in BOOLEAN
    /\ zoneSet' = Now
    /\ settings' = settings + 1
    /\ UNCHANGED <<zoneVars, second, logLevel, pid, alive, cacheVars, lines, logger, output, aborted>>

SetLogLevel ==
    /\ MaySet
    /\ logLevel' \in {TRACE, WARN}
    /\ settings' = settings + 1
    /\ UNCHANGED <<zoneVars, second, logTimeZone, zoneSet, pid, alive, cacheVars, lines, logger, output, aborted>>

AfterFork_Mutant(t) == IF cachedTid[t] = NoTid THEN <<pid + 1, t>> ELSE cachedTid[t]  \* seeded bug: t_cachedTid kept
AfterFork(t) == <<pid + 1, t>>

\* fork(2): the walk goes on with the child, which has this thread only.
Fork(t) ==
    /\ MaySet /\ t \in alive /\ logger[t] = None
    /\ pid' = pid + 1
    /\ alive' = {t}
    /\ cachedTid' = [cachedTid EXCEPT ![t] = AfterFork(t)]
    /\ logger' = [u \in Loggers |-> None]
    /\ settings' = settings + 1
    /\ UNCHANGED <<zoneVars, second, logTimeZone, zoneSet, logLevel, lastSecond, time, lines, output, aborted>>

SecondsPass ==
    /\ day = walk.day /\ ~aborted
    /\ second' \in {s \in walk.seconds : s > second}
    /\ UNCHANGED <<zoneVars, settingVars, cacheVars, lines, logger, output, aborted>>

PassDay ==
    /\ walk.loggers # {} => day < walk.day
    /\ NextDay
    /\ UNCHANGED logVars

LogNext == \/ PassDay \/ SecondsPass \/ SetTimeZone \/ SetLogLevel
           \/ \E t \in Loggers : \/ \E m \in walk.messages : LogLine(t, m)
                                 \/ Stream(t) \/ Destroy(t) \/ Fork(t)
LogSpec == LogInit /\ [][LogNext]_allVars

-----------------------------------------------------------------------------
(* Properties *)

\* A line carries the number of its thread, also in the child of a fork, and the second at
\* which it was begun, in UTC or in the zone, as its mark says: also around a change of the
\* zone's offset, with the time kept from an earlier line.  In the second in which
\* setTimeZone comes the time kept may still be that of the other zone (Logging.cc:147).
StampsTrue ==
    output # None =>
        /\ output.tid = output.thread
        /\ \/ output.zoneSet = output.seconds
           \/ FromUtcTime(output.stamp) =
                output.seconds + IF output.utc THEN 0 ELSE TypeAt(walk.file, output.seconds).gmtOffset

KeptPieces(buffer) == {buffer.kept[i].what : i \in DOMAIN buffer.kept}

\* Whatever is logged, nothing is written behind the end of the buffer, the NUL behind a
\* number included; the header is there, and a line ends with a newline
\* unless it fills the buffer to the last character.
LineFits ==
    /\ \A t \in Loggers : logger[t] # None => logger[t].buffer.touched <= kSmallBuffer
    /\ output # None =>
        /\ output.buffer.touched <= kSmallBuffer
        /\ {"time", "microseconds", "tid", "level"} \subseteq KeptPieces(output.buffer)
        /\ "newline" \notin KeptPieces(output.buffer) => output.buffer.length = kSmallBuffer - 1

\* The number a text stands for, by Horner's rule; below 0, as the range of an int is longer there.
NegatedValue(ds, base) ==
    LET v[k \in 0 .. Len(ds)] == IF k = 0 THEN 0 ELSE v[k - 1] * base - ds[k]
    IN  v[Len(ds)]

DecimalOf(text, value) ==
    /\ NegatedValue(text.digits, 10) = IF text.negative THEN value ELSE -value
    /\ text.digits[1] = 0 => value = 0 /\ Len(text.digits) = 1

ThreeDigits(text, longest) ==
    LET n == -NegatedValue(text.digits, 10) IN
    n >= 100 /\ (n < 1000 \/ (text.decimals = 0 /\ longest = 6 /\ n < 1024))

\* An integer is printed as it is; a quantity with a unit has three digits that count and at
\* most as many characters as LogStream.h promises, at every threshold and however its
\* quotient is rounded.
NumbersFit ==
    output # None => \A i \in DOMAIN output.buffer.kept :
        LET piece == output.buffer.kept[i] IN
        CASE piece.what = "integer" -> DecimalOf(piece.text, piece.of)
          [] piece.what = "pointer" -> NegatedValue(piece.text.digits, 16) = -piece.of
          [] piece.what \in {"SI", "IEC"} ->
                LET longest == IF piece.what = "SI" THEN 5 ELSE 6 IN
                /\ piece.len <= longest
                /\ IF piece.text.letters = 0 THEN DecimalOf(piece.text, piece.of)
                   ELSE ThreeDigits(piece.text, longest)
          [] OTHER -> TRUE

\* A line fits, and its numbers are right: the two together.
LineWhole == LineFits /\ NumbersFit
=============================================================================
