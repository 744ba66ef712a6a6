------------------------------ MODULE EventLoop ------------------------------
(***************************************************************************)
(* One EventLoop: the loop thread inside loop(), and the other threads     *)
(* that call runInLoop / queueInLoop / quit on it.  The loop thread sleeps *)
(* in poll() and is woken through an eventfd.  A step of the loop thread   *)
(* is a statement of loop() or doPendingFunctors(); a call made by another *)
(* thread is two steps, because it changes pendingFunctors_ (or quit_) and *)
(* writes the eventfd afterwards, without holding the mutex.               *)
(***************************************************************************)
EXTENDS Integers, Sequences, FiniteSets

CONSTANTS Callers,      \* the threads that are not the loop thread
          Loop,         \* the loop thread
          MaxCalls,     \* bound: functors handed over by each thread
          MaxLoops      \* bound: calls of loop()

ASSUME LoopAssumption == /\ Loop \notin Callers
                         /\ MaxCalls \in [Callers \cup {Loop} -> Nat]
                         /\ MaxLoops \in Nat

VARIABLES
    lpc,        \* where the loop thread is, see LoopPoints
    quit,       \* quit_
    calling,    \* callingPendingFunctors_
    pending,    \* pendingFunctors_
    functors,   \* the local vector of doPendingFunctors
    eventfd,    \* the counter of wakeupFd_ is not zero
    active,     \* activeChannels_ still to be handled
    waking,     \* callers that are about to call wakeup()
    issued,     \* history: functors each thread has handed over
    silent,     \* history: functors queued outside loop() with no wakeup
    done,       \* history: functors run, in order
    loops       \* history: calls of loop()

queueVars == <<pending, functors, done, issued, silent>>
vars == <<lpc, quit, calling, pending, functors, eventfd, active, waking,
          issued, silent, done, loops>>

Threads == Callers \cup {Loop}
Functors == UNION {{t} \X (1..MaxCalls[t]) : t \in Threads}

(* "out"      outside loop(), before it or after it                        *)
(* "check"    about to test while (!quit_)                                 *)
(* "poll"     inside poller_->poll()                                       *)
(* "handle"   between two elements of the loop over activeChannels_        *)
(* "callback" inside a user callback called from Channel::handleEvent      *)
(* "run"      between two functors of doPendingFunctors                    *)
(* "functor"  inside a functor called from doPendingFunctors               *)
LoopPoints == {"out", "check", "poll", "handle", "callback", "run", "functor"}
Channels == {"wakeup", "io"}

\* Where code of the user runs on the loop thread.
UserCode == {"out", "callback", "functor"}

\* callingPendingFunctors_ is not in the constructor's initializer list.
Init == /\ lpc = "out"
        /\ quit = FALSE
        /\ calling \in BOOLEAN
        /\ pending = <<>> /\ functors = <<>>
        /\ eventfd = FALSE
        /\ active = {}
        /\ waking = {}
        /\ issued = [t \in Threads |-> 0]
        /\ silent = {}
        /\ done = <<>>
        /\ loops = 0
-----------------------------------------------------------------------------
(* Calls made by other threads.                                            *)

\* The functor thread t hands over next.
NextFunctor(t) == <<t, issued[t] + 1>>

Issue(t) == /\ issued[t] < MaxCalls[t]
            /\ issued' = [issued EXCEPT ![t] = @ + 1]

\* !isInLoopThread(): the call goes on to wakeup().
RequestWakeup_Mutant(t) == waking' = waking          \* seeded bug: the test is inverted
RequestWakeup(t) == waking' = waking \cup {t}

Enqueue_Mutant(f) == pending' = <<f>> \o pending     \* seeded bug: pushed in front
Enqueue(f) == pending' = Append(pending, f)

\* queueInLoop, and runInLoop called off the loop thread: the push under the lock.
QueueInLoop(t) ==
    /\ t \notin waking
    /\ Issue(t)
    /\ Enqueue(NextFunctor(t))
    /\ RequestWakeup(t)
    /\ UNCHANGED <<lpc, quit, calling, functors, eventfd, active, silent, done, loops>>

\* quit() called off the loop thread: the assignment.
Quit(t) ==
    /\ t \notin waking
    /\ quit' = TRUE
    /\ RequestWakeup(t)
    /\ UNCHANGED <<lpc, calling, pending, functors, eventfd, active, issued, silent, done, loops>>

\* The write to the eventfd that ends either call.
Wakeup(t) ==
    /\ t \in waking
    /\ eventfd' = TRUE
    /\ waking' = waking \ {t}
    /\ UNCHANGED <<lpc, quit, calling, pending, functors, active, issued, silent, done, loops>>
-----------------------------------------------------------------------------
(* Calls made on the loop thread, from a callback or around loop().        *)

LoopMustWake_Mutant == FALSE                         \* seeded bug: the flag is not looked at
LoopMustWake == calling

\* queueInLoop: it writes the eventfd only while pending functors are run.
QueueInLoopThread ==
    /\ lpc \in UserCode
    /\ Issue(Loop)
    /\ Enqueue(NextFunctor(Loop))
    /\ eventfd' = (eventfd \/ LoopMustWake)
    /\ silent' = IF lpc = "out" /\ ~LoopMustWake THEN silent \cup {NextFunctor(Loop)} ELSE silent
    /\ UNCHANGED <<lpc, quit, calling, functors, active, waking, done, loops>>

\* runInLoop: the functor runs at once.
RunInLoopThread ==
    /\ lpc \in UserCode
    /\ Issue(Loop)
    /\ done' = Append(done, NextFunctor(Loop))
    /\ UNCHANGED <<lpc, quit, calling, pending, functors, eventfd, active, waking, silent, loops>>

\* quit: no wakeup, the thread is awake.
QuitLoopThread ==
    /\ lpc \in UserCode
    /\ quit' = TRUE
    /\ UNCHANGED <<lpc, calling, pending, functors, eventfd, active, waking, issued, silent, done, loops>>
-----------------------------------------------------------------------------
(* loop() and doPendingFunctors().                                         *)

\* loop() starts by clearing quit_.
EnterLoop ==
    /\ lpc = "out"
    /\ loops < MaxLoops
    /\ lpc' = "check"
    /\ quit' = FALSE
    /\ loops' = loops + 1
    /\ UNCHANGED <<calling, eventfd, active, waking, queueVars>>

\* while (!quit_)
CheckQuit ==
    /\ lpc = "check"
    /\ lpc' = IF quit THEN "out" ELSE "poll"
    /\ UNCHANGED <<quit, calling, eventfd, active, waking, loops, queueVars>>

PollReturns(channels) ==
    /\ lpc = "poll"
    /\ lpc' = "handle"
    /\ active' = channels
    /\ UNCHANGED <<quit, calling, eventfd, waking, loops, queueVars>>

\* The wakeup channel is level triggered: it is reported whenever it is readable.
PollWakeup == eventfd /\ \E io \in SUBSET {"io"} : PollReturns({"wakeup"} \cup io)
PollIO == ~eventfd /\ PollReturns({"io"})
PollTimeout == ~eventfd /\ PollReturns({})

\* EventLoop::handleRead reads the eventfd, which resets its counter.
HandleRead ==
    /\ lpc = "handle"
    /\ "wakeup" \in active
    /\ active' = active \ {"wakeup"}
    /\ eventfd' = FALSE
    /\ UNCHANGED <<lpc, quit, calling, waking, loops, queueVars>>

\* Channel::handleEvent of any other channel enters user code.
HandleEvent ==
    /\ lpc = "handle"
    /\ "io" \in active
    /\ active' = active \ {"io"}
    /\ lpc' = "callback"
    /\ UNCHANGED <<quit, calling, eventfd, waking, loops, queueVars>>

TakeBatch == functors' = pending /\ pending' = <<>>

\* doPendingFunctors: set the flag, then swap under the lock.
SwapPending ==
    /\ lpc = "handle"
    /\ active = {}
    /\ lpc' = "run"
    /\ calling' = TRUE
    /\ TakeBatch
    /\ UNCHANGED <<quit, eventfd, active, waking, issued, silent, done, loops>>

RunFunctor ==
    /\ lpc = "run"
    /\ functors # <<>>
    /\ lpc' = "functor"
    /\ done' = Append(done, Head(functors))
    /\ functors' = Tail(functors)
    /\ UNCHANGED <<quit, calling, pending, eventfd, active, waking, issued, silent, loops>>

UserCodeReturns ==
    /\ \/ lpc = "callback" /\ lpc' = "handle"
       \/ lpc = "functor" /\ lpc' = "run"
    /\ UNCHANGED <<quit, calling, eventfd, active, waking, loops, queueVars>>

EndPending_Mutant ==                                 \* seeded bug: swaps until nothing is pending
    /\ lpc = "run"
    /\ functors = <<>>
    /\ lpc' = IF pending = <<>> THEN "check" ELSE "run"
    /\ calling' = (pending # <<>>)
    /\ TakeBatch
    /\ UNCHANGED <<quit, eventfd, active, waking, issued, silent, done, loops>>

EndPending ==
    /\ lpc = "run"
    /\ functors = <<>>
    /\ lpc' = "check"
    /\ calling' = FALSE
    /\ UNCHANGED <<quit, eventfd, active, waking, loops, queueVars>>
-----------------------------------------------------------------------------
LoopStep == \/ CheckQuit \/ PollWakeup \/ HandleRead \/ HandleEvent
            \/ SwapPending \/ RunFunctor \/ UserCodeReturns \/ EndPending

CallerStep(t) == QueueInLoop(t) \/ Quit(t) \/ Wakeup(t)

Next == \/ \E t \in Callers : CallerStep(t)
        \/ QueueInLoopThread \/ RunInLoopThread \/ QuitLoopThread
        \/ EnterLoop
        \/ LoopStep
        \/ PollIO \/ PollTimeout

Spec == Init /\ [][Next]_vars

(* The loop thread runs, callbacks return, and a caller that has pushed    *)
(* goes on to write the eventfd.  Nothing makes anyone call, no I/O event  *)
(* ever has to come, and poll()'s ten second timeout is not counted on.    *)
Fairness == WF_vars(LoopStep) /\ \A t \in Callers : WF_vars(Wakeup(t))

FairSpec == Spec /\ Fairness
-----------------------------------------------------------------------------
TypeOK ==
    /\ lpc \in LoopPoints
    /\ quit \in BOOLEAN
    /\ calling \in BOOLEAN
    /\ pending \in Seq(Functors)
    /\ functors \in Seq(Functors)
    /\ eventfd \in BOOLEAN
    /\ active \in SUBSET Channels
    /\ waking \in SUBSET Callers
    /\ issued \in [Threads -> Nat] /\ \A t \in Threads : issued[t] <= MaxCalls[t]
    /\ silent \in SUBSET Functors
    /\ done \in Seq(Functors)
    /\ loops \in 0..MaxLoops

Announced == eventfd \/ waking # {}

(* The loop never sleeps on work it was told about: while it is in poll()  *)
(* and nothing has made, or is about to make, the eventfd readable, quit_  *)
(* is not set and every functor in pendingFunctors_ was queued by the loop *)
(* thread itself outside loop().  This is what the two conditions before   *)
(* wakeup() in queueInLoop (EventLoop.cc:200-206) and quit are for.        *)
NoLostWakeup ==
    lpc = "poll" /\ ~Announced
        => /\ ~quit
           /\ \A i \in 1..Len(pending) : pending[i] \in silent

(* The inductive invariant behind NoLostWakeup.  Between the read of the   *)
(* eventfd and the swap the wakeups of queued functors may be gone, which  *)
(* is why "handle" and "callback" are missing from the list.               *)
FlagCoversBatch == lpc \in {"run", "functor"} => calling
QueueAnnounced ==
    lpc \in {"out", "check", "poll", "run", "functor"}
        => Announced \/ \A i \in 1..Len(pending) : pending[i] \in silent
QuitAnnounced == lpc = "poll" /\ quit => Announced

\* The local vector of doPendingFunctors is empty outside that function.
BatchDrained == lpc \notin {"run", "functor"} => functors = <<>>

WakeupInv == FlagCoversBatch /\ QueueAnnounced /\ QuitAnnounced

(* A batch is bounded: while doPendingFunctors runs, a functor queued by a *)
(* functor waits for the next round of the loop, so I/O is never starved   *)
(* by functors that queue themselves again.                                *)
BatchBounded ==
    [][(lpc \in {"run", "functor"}) => Len(functors') <= Len(functors)]_vars

Queued(f) == \E i \in 1..Len(pending) : pending[i] = f
Done(f) == \E i \in 1..Len(done) : done[i] = f

(* A functor queued by another thread runs, and quit(), from any thread,   *)
(* ends a loop() that is under way, without waiting for an I/O event or    *)
(* for the poll timeout.                                                   *)
EventuallyRun ==
    \A t \in Callers : \A n \in 1..MaxCalls[t] :
        Queued(<<t, n>>) ~> (Done(<<t, n>>) \/ lpc = "out")
QuitEndsLoop == (quit /\ lpc # "out") ~> (lpc = "out")

(* Work that another thread hands over is not slept on: the two together.  *)
NothingSleptOn == EventuallyRun /\ QuitEndsLoop

(* The batches, the swap and the eventfd implement the plain FIFO contract.*)
Executor == INSTANCE TaskExecutor WITH queue <- functors \o pending

ImplementsExecutor == Executor!Spec
=============================================================================
