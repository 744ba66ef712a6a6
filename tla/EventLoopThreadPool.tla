------------------------ MODULE EventLoopThreadPool ------------------------
(***************************************************************************)
(* The threads of a pool of event loops: the owner creates one thread      *)
(* after the other, waits until each has begun (Thread, CountDownLatch)    *)
(* and then until it has published its EventLoop, which lives on its stack *)
(* (EventLoopThread); hands the loops out in turn; and ends the threads.   *)
(*                                                                         *)
(* What is done while a mutex is held is one step, up to a wait.  A wait   *)
(* may end for no reason, and poll(2) after its time: neither needs a      *)
(* notification, and how a loop is woken up is in EventLoop.               *)
(***************************************************************************)
EXTENDS Integers, Sequences, FiniteSets

CONSTANTS Sizes,          \* numbers of threads setThreadNum() may be given
          DestroyEarly    \* may the pool be destroyed while a thread is not in loop() yet

ASSUME PoolAssumption ==
    /\ Sizes \subseteq Nat /\ \E n \in Sizes : \A m \in Sizes : m <= n
    /\ DestroyEarly \in BOOLEAN

VARIABLES
    numThreads,     \* numThreads_
    ownerPc,        \* where the owner, the thread of the base loop, is
    at,             \* the thread it is creating, ending or has created last
    latch,          \* thread -> count_ of its latch_
    loopPtr,        \* thread -> is loop_ set
    loops,          \* loops_
    next,           \* next_, from 0
    tpc,            \* where each thread is
    initialised,    \* loops for which the callback has been called
    quit,           \* thread -> quit_ of its loop
    pending,        \* thread -> pendingFunctors_ of its loop
    ran             \* history: functors that have been run, as a set

threadVars == <<latch, loopPtr, tpc, initialised, quit, pending, ran>>
poolVars == <<numThreads, ownerPc, at, loops, next, threadVars>>

Base == 0                               \* baseLoop_, the owner's own loop
MaxSize == CHOOSE n \in Sizes : \A m \in Sizes : m <= n
Threads == 1 .. MaxSize

PoolInit == /\ numThreads \in Sizes
            /\ ownerPc = "new"
            /\ at = 0
            /\ latch = [t \in Threads |-> 1]
            /\ loopPtr = [t \in Threads |-> FALSE]
            /\ loops = <<>>
            /\ next = 0
            /\ tpc = [t \in Threads |-> "none"]
            /\ initialised = {}
            /\ quit = [t \in Threads |-> FALSE]
            /\ pending = [t \in Threads |-> <<>>]
            /\ ran = {}

-----------------------------------------------------------------------------
(* The owner creates the threads. *)

\* Thread::start of the next EventLoopThread: pthread_create(3), then the latch.
CreateThread ==
    /\ ownerPc = "starting" /\ at < numThreads
    /\ at' = at + 1
    /\ tpc' = [tpc EXCEPT ![at + 1] = "begun"]
    /\ ownerPc' = "latchTest"
    /\ UNCHANGED <<numThreads, loops, next, latch, loopPtr, initialised, quit, pending, ran>>

LatchOpen == latch[at] = 0

\* CountDownLatch::wait, from its beginning or after a wait.
TestLatch ==
    /\ ownerPc = "latchTest"
    /\ ownerPc' = IF LatchOpen THEN "loopTest" ELSE "latchWait"
    /\ UNCHANGED <<numThreads, at, loops, next, threadVars>>

LoopReady_Mutant == TRUE        \* seeded bug: startLoop() does not wait
LoopReady == loopPtr[at]

\* EventLoopThread::startLoop after thread_.start(), or after a wait.
TestLoop ==
    /\ ownerPc = "loopTest"
    /\ IF LoopReady
       THEN ownerPc' = "starting" /\ loops' = Append(loops, at)
       ELSE ownerPc' = "loopWait" /\ UNCHANGED loops
    /\ UNCHANGED <<numThreads, at, next, threadVars>>

\* The owner goes on after a notification, or for no reason.
Woken(from) == IF from = "latchWait" THEN "latchTest" ELSE "loopTest"

SpuriousWakeup ==
    /\ ownerPc \in {"latchWait", "loopWait"}
    /\ ownerPc' = Woken(ownerPc)
    /\ UNCHANGED <<numThreads, at, loops, next, threadVars>>

\* The end of EventLoopThreadPool::start: without threads the callback is for the base loop.
InitialiseBase == initialised' = IF numThreads = 0 THEN initialised \cup {Base} ELSE initialised

-----------------------------------------------------------------------------
(* The threads *)

MustNotify_Mutant(t) == latch[t] = 0       \* seeded bug: the count is looked at before it is lowered
MustNotify(t) == latch'[t] = 0

\* ThreadData::runInThread, up to the thread's function.
CountDown(t) ==
    /\ tpc[t] = "begun"
    /\ latch' = [latch EXCEPT ![t] = @ - 1]
    /\ tpc' = [tpc EXCEPT ![t] = "initialising"]
    /\ ownerPc' = IF MustNotify(t) /\ ownerPc = "latchWait" THEN Woken(ownerPc) ELSE ownerPc
    /\ UNCHANGED <<numThreads, at, loops, next, loopPtr, initialised, quit, pending, ran>>

\* EventLoopThread::threadFunc: the EventLoop is constructed and the callback called.
Initialise(t) ==
    /\ tpc[t] = "initialising"
    /\ initialised' = initialised \cup {t}
    /\ tpc' = [tpc EXCEPT ![t] = "publishing"]
    /\ UNCHANGED <<numThreads, ownerPc, at, loops, next, latch, loopPtr, quit, pending, ran>>

Publish(t) ==
    /\ tpc[t] = "publishing"
    /\ loopPtr' = [loopPtr EXCEPT ![t] = TRUE]
    /\ tpc' = [tpc EXCEPT ![t] = "published"]
    /\ ownerPc' = IF ownerPc = "loopWait" /\ at = t THEN Woken(ownerPc) ELSE ownerPc
    /\ UNCHANGED <<numThreads, at, loops, next, latch, initialised, quit, pending, ran>>

\* EventLoop::loop sets quit_ to false.
EnterLoop(t) ==
    /\ tpc[t] = "published"
    /\ quit' = [quit EXCEPT ![t] = FALSE]
    /\ tpc' = [tpc EXCEPT ![t] = "testing"]
    /\ UNCHANGED <<numThreads, ownerPc, at, loops, next, latch, loopPtr, initialised, pending, ran>>

\* while (!quit_): the functors still pending go with the EventLoop.
TestQuit(t) ==
    /\ tpc[t] = "testing"
    /\ tpc' = [tpc EXCEPT ![t] = IF quit[t] THEN "ended" ELSE "polling"]
    /\ UNCHANGED <<numThreads, ownerPc, at, loops, next, latch, loopPtr, initialised, quit, pending, ran>>

\* poll() returns, and the pending functors are run.
RunPending(t) ==
    /\ tpc[t] = "polling"
    /\ ran' = ran \cup {pending[t][i] : i \in DOMAIN pending[t]}
    /\ pending' = [pending EXCEPT ![t] = <<>>]
    /\ tpc' = [tpc EXCEPT ![t] = "testing"]
    /\ UNCHANGED <<numThreads, ownerPc, at, loops, next, latch, loopPtr, initialised, quit>>

ThreadStep(t) == \/ CountDown(t) \/ Initialise(t) \/ Publish(t)
                 \/ EnterLoop(t) \/ TestQuit(t) \/ RunPending(t)

-----------------------------------------------------------------------------
(* The owner hands the loops out, and ends the threads. *)

NextLoop == IF loops = <<>> THEN Base ELSE loops[next + 1]

Advance == IF next + 1 >= Len(loops) THEN 0 ELSE next + 1

\* getNextLoop(), whose value is NextLoop.
GetNextLoop == next' = IF loops = <<>> THEN next ELSE Advance

\* runInLoop of the loop l on the owner's thread.
RunInLoop(l, functor) ==
    IF l = Base THEN ran' = ran \cup {functor} /\ UNCHANGED pending
    ELSE pending' = [pending EXCEPT ![l] = Append(@, functor)] /\ UNCHANGED ran

InLoop(t) == tpc[t] \in {"testing", "polling"}

MayDestroy == DestroyEarly \/ \A t \in 1 .. numThreads : InLoop(t)

\* ~EventLoopThread of the thread at, with quit() in its two parts.
SetQuit ==
    /\ ownerPc = "quit" /\ at <= numThreads
    /\ quit' = [quit EXCEPT ![at] = TRUE]
    /\ ownerPc' = "wakeup"
    /\ UNCHANGED <<numThreads, at, loops, next, latch, loopPtr, tpc, initialised, pending, ran>>

Wakeup ==
    /\ ownerPc = "wakeup"
    /\ ownerPc' = "join"
    /\ UNCHANGED <<numThreads, at, loops, next, threadVars>>

Join ==
    /\ ownerPc = "join" /\ tpc[at] = "ended"
    /\ at' = at + 1
    /\ ownerPc' = "quit"
    /\ UNCHANGED <<numThreads, loops, next, threadVars>>

PoolGone ==
    /\ ownerPc = "quit" /\ at > numThreads
    /\ ownerPc' = "gone"
    /\ UNCHANGED <<numThreads, at, loops, next, threadVars>>

OwnerStep == CreateThread \/ TestLatch \/ TestLoop \/ SetQuit \/ Wakeup \/ Join \/ PoolGone
=============================================================================
