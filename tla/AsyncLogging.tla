---------------------------- MODULE AsyncLogging ----------------------------
(***************************************************************************)
(* Asynchronous logging: any thread appends to the buffer in use, under    *)
(* the mutex, and the logging thread takes the full buffers and writes     *)
(* them to the LogFile.  Buffers go round: two belong to the front, two    *)
(* spare ones to the logging thread, and more are made when the front is   *)
(* too fast.                                                               *)
(*                                                                         *)
(* An append is one step, the threads that log being told apart by nothing *)
(* but the order in which they get the mutex; a wait on the condition is   *)
(* the step that releases the mutex.                                       *)
(***************************************************************************)
EXTENDS Integers, Sequences, SequencesExt

CONSTANTS Capacity,         \* messages that go into a buffer
          DropAbove,        \* buffers in a batch from which on most are dropped: 25
          MaxMessages,      \* bound: messages appended
          RollSize, CheckEveryN, FlushInterval, SecondsPerDay, MaxTime, MaxFaults     \* of LogFile

ASSUME LoggingAssumption == /\ Capacity \in Nat \ {0}
                            /\ DropAbove \in Nat /\ DropAbove >= 2
                            /\ MaxMessages \in Nat
                            /\ {RollSize, FlushInterval, MaxFaults} \subseteq Nat
                            /\ {CheckEveryN, SecondsPerDay, MaxTime} \subseteq Nat \ {0}

VARIABLES
    running,        \* running_
    current,        \* currentBuffer_: its messages
    next,           \* nextBuffer_: its messages, or Null
    buffers,        \* buffers_
    spare1, spare2, \* newBuffer1, newBuffer2: their messages, or Null
    toWrite,        \* buffersToWrite
    written,        \* how many of toWrite have been written
    pc,             \* where the logging thread is
    stopping,       \* where the caller of stop() is
    appended,       \* history: messages appended so far
    dropped,        \* history: messages dropped because of overload
    now, lastRoll, lastFlush, startOfPeriod, count, writtenBytes, log, onDisk, late,
    faults, lost

File == INSTANCE LogFile

frontVars == <<current, next, buffers, appended>>
backVars == <<spare1, spare2, toWrite, written, dropped>>
fileVars == <<now, lastRoll, lastFlush, startOfPeriod, count, writtenBytes, log, onDisk, late,
              faults, lost>>
vars == <<running, frontVars, backVars, pc, stopping, fileVars>>

Notice == 0                 \* the line that says how many buffers were dropped
Null == <<Notice>>          \* a moved-from pointer
Messages == 1..MaxMessages

Init == /\ running = FALSE
        /\ current = <<>> /\ next = <<>>
        /\ buffers = <<>>
        /\ spare1 = Null /\ spare2 = Null
        /\ toWrite = <<>> /\ written = 0
        /\ pc = "unstarted"
        /\ stopping = "no"
        /\ appended = 0
        /\ dropped = {}
        /\ File!Init
-----------------------------------------------------------------------------
Notify == pc' = IF pc = "waiting" THEN "woken" ELSE pc

\* start() and the thread up to its loop.  The constructor of LogFile opens the first file.
Start ==
    /\ pc = "unstarted"
    /\ running' = TRUE
    /\ pc' = "loop"
    /\ spare1' = <<>> /\ spare2' = <<>>
    /\ log' = log
    /\ File!RollFile(0)
    /\ UNCHANGED <<frontVars, toWrite, written, dropped, stopping, now, count, faults, lost>>

\* append of one message, from any thread.
AppendMessage ==
    /\ appended < MaxMessages
    /\ appended' = appended + 1
    /\ IF Len(current) < Capacity
       THEN current' = Append(current, appended + 1) /\ UNCHANGED <<next, buffers, pc>>
       ELSE /\ buffers' = Append(buffers, current)
            /\ current' = Append(IF next # Null THEN next ELSE <<>>, appended + 1)
            /\ next' = Null
            /\ Notify
    /\ UNCHANGED <<running, backVars, stopping, fileVars>>

\* stop(): running_ is set without the mutex, so the notification may come before the wait.
Stop ==
    /\ stopping = "no" /\ running
    /\ running' = FALSE
    /\ stopping' = "notify"
    /\ UNCHANGED <<frontVars, backVars, pc, fileVars>>

StopNotify ==
    /\ stopping = "notify"
    /\ stopping' = "join"
    /\ Notify
    /\ UNCHANGED <<running, frontVars, backVars, fileVars>>

Join ==
    /\ stopping = "join" /\ pc = "finished"
    /\ stopping' = "joined"
    /\ UNCHANGED <<running, frontVars, backVars, pc, fileVars>>
-----------------------------------------------------------------------------
(* The logging thread.                                                     *)

TestRunning ==
    /\ pc = "loop"
    /\ pc' = IF running THEN "lock" ELSE "flush"
    /\ UNCHANGED <<running, frontVars, backVars, stopping, fileVars>>

\* Under the mutex: take what there is and give the front the spare buffers.
Swap ==
    /\ toWrite' = Append(buffers, current)
    /\ buffers' = <<>>
    /\ current' = spare1 /\ spare1' = Null
    /\ IF next = Null THEN next' = spare2 /\ spare2' = Null ELSE UNCHANGED <<next, spare2>>
    /\ pc' = "drop"
    /\ UNCHANGED <<running, appended, written, dropped, stopping, fileVars>>

SwapAtOnce == pc = "lock" /\ buffers # <<>> /\ Swap

Wait ==
    /\ pc = "lock" /\ buffers = <<>>
    /\ pc' = "waiting"
    /\ UNCHANGED <<running, frontVars, backVars, stopping, fileVars>>

TimesOut == pc = "waiting"

\* It was notified, or the time is up; which of the two is not looked at.
WaitEnds == pc = "woken" \/ TimesOut

SwapAfterWait == WaitEnds /\ Swap

Remaining_Mutant == 1           \* seeded bug: begin() + 1
Remaining == 2

\* Too many buffers: all but the first two are dropped.
DropOverload ==
    /\ pc = "drop"
    /\ pc' = "write"
    /\ IF Len(toWrite) > DropAbove
       THEN /\ toWrite' = SubSeq(toWrite, 1, Remaining)
            /\ dropped' = dropped \cup UNION {ToSet(toWrite[i]) : i \in 3..Len(toWrite)}
            /\ File!AppendTo(<<Notice>>)
       ELSE UNCHANGED <<toWrite, dropped, fileVars>>
    /\ UNCHANGED <<running, frontVars, spare1, spare2, written, stopping>>

WriteBuffer ==
    /\ pc = "write" /\ written < Len(toWrite)
    /\ written' = written + 1
    /\ File!AppendTo(toWrite[written + 1])
    /\ UNCHANGED <<running, frontVars, spare1, spare2, toWrite, dropped, pc, stopping>>

Reset(buffer) == <<>>

Kept == 2

FlushBatch_Mutant == UNCHANGED fileVars     \* seeded bug: not flushed
FlushBatch == File!Flush

\* The spare buffers that were given away are replaced from those just written.
Recycle ==
    /\ pc = "write" /\ written = Len(toWrite)
    /\ LET kept == SubSeq(toWrite, 1, IF Len(toWrite) > Kept THEN Kept ELSE Len(toWrite))
           left == IF spare1 = Null THEN Len(kept) - 1 ELSE Len(kept)
       IN /\ spare1' = IF spare1 = Null THEN Reset(kept[Len(kept)]) ELSE spare1
          /\ spare2' = IF spare2 # Null THEN spare2
                       ELSE IF left > 0 THEN Reset(kept[left]) ELSE Null
    /\ toWrite' = <<>> /\ written' = 0
    /\ FlushBatch
    /\ pc' = "loop"
    /\ UNCHANGED <<running, frontVars, dropped, stopping>>

\* The last flush; the LogFile is closed.
Finish ==
    /\ pc = "flush"
    /\ File!Flush
    /\ pc' = "finished"
    /\ UNCHANGED <<running, frontVars, backVars, stopping>>

Tick == File!Tick /\ UNCHANGED <<running, frontVars, backVars, pc, stopping>>
-----------------------------------------------------------------------------
LoggingThread == \/ TestRunning \/ SwapAtOnce \/ Wait \/ SwapAfterWait
                 \/ DropOverload \/ WriteBuffer \/ Recycle \/ Finish

Next == \/ Start \/ AppendMessage \/ Stop \/ StopNotify \/ Join
        \/ LoggingThread \/ Tick

Spec == Init /\ [][Next]_vars

(* The logging thread runs, its wait ends by itself after flushInterval_,  *)
(* and so does the caller inside stop().                                   *)
FairSpec == /\ Spec
            /\ WF_vars(LoggingThread) /\ WF_vars(StopNotify) /\ WF_vars(Join)
-----------------------------------------------------------------------------
Buffer == Seq(Messages)

TypeOK ==
    /\ running \in BOOLEAN
    /\ current \in Buffer /\ {next, spare1, spare2} \subseteq Buffer \cup {Null}
    /\ buffers \in Seq(Buffer) /\ toWrite \in Seq(Buffer)
    /\ written \in 0..Len(toWrite)
    /\ pc \in {"unstarted", "loop", "lock", "waiting", "woken", "drop", "write", "flush", "finished"}
    /\ stopping \in {"no", "notify", "join", "joined"}
    /\ appended \in 0..MaxMessages /\ dropped \in SUBSET Messages
    /\ now \in 1..MaxTime /\ lastRoll \in 0..now /\ lastFlush \in 0..now
    /\ startOfPeriod \in Nat /\ count \in 0..CheckEveryN - 1 /\ writtenBytes \in Nat
    /\ log \in Seq(Messages \cup {Notice}) /\ onDisk \in 0..Len(log) /\ late \in Nat
    /\ faults \in 0..MaxFaults /\ lost \in SUBSET (Messages \cup {Notice})

(* When the thread comes back to its loop it has two empty spare buffers   *)
(* and nothing to write (asserts at AsyncLogging.cc:82-84), however many   *)
(* buffers the front has used, so that the front never gets a null one.    *)
SparesReady ==
    /\ TypeOK
    /\ pc \in {"loop", "lock", "waiting", "woken"} =>
         spare1 = <<>> /\ spare2 = <<>> /\ toWrite = <<>>

\* The buffers that are still to be written, in the order in which they will be.
InFlight == SubSeq(toWrite, written + 1, Len(toWrite)) \o buffers \o <<current>>

Contents(batch) == UNION {ToSet(batch[b]) : b \in DOMAIN batch}

\* Each message comes once, behind those that were appended before it.
Ascending(messages) ==
    \A i, j \in DOMAIN messages : i < j /\ messages[j] # Notice => messages[i] < messages[j]

InOrder(batch) ==
    /\ \A b \in DOMAIN batch : Ascending(batch[b])
    /\ \A b, c \in DOMAIN batch : b < c => \A m \in ToSet(batch[b]), n \in ToSet(batch[c]) : m < n

(* Whatever the buffers go through, a message is never lost, repeated or   *)
(* overtaken on its way, unless it was dropped for overload or its write   *)
(* failed: the log, then the rest of the batch, the full buffers and the   *)
(* current one are what was appended; and the buffers that go round are    *)
(* there when needed.                                                      *)
InOrderOnce ==
    /\ Ascending(log) /\ InOrder(InFlight)
    /\ \A m \in ToSet(log), n \in Contents(InFlight) : m < n
    /\ (ToSet(log) \ {Notice}) \cup Contents(InFlight) = (1..appended) \ (dropped \cup lost)
    /\ SparesReady

(* While logging runs every message gets to the disk, a full buffer or     *)
(* not, and whether or not anybody notifies.                               *)
GetsToDisk ==
    \A m \in Messages : (running /\ m <= appended)
        ~> (~running \/ m \in dropped \cup lost \/ m \in ToSet(SubSeq(log, 1, onDisk)))

(* stop() returns although its notification may be lost.                   *)
StopReturns == (stopping = "notify") ~> (stopping = "joined")

(* Nobody waits for ever, on the disk or in stop(): the two together.      *)
LoggingGoesOn == GetsToDisk /\ StopReturns

(* LogFile: a file takes at most CheckEveryN appends after its day is over.*)
RollsOnTime == late <= CheckEveryN
=============================================================================
