----------------------------- MODULE ThreadPool -----------------------------
(***************************************************************************)
(* The thread pool: run() puts tasks into a queue, bounded or not, the     *)
(* pool's threads take and run them, and stop() ends the threads.          *)
(*                                                                         *)
(* What is done while the mutex is held is one step, up to the wait on a   *)
(* condition that releases it.  A thread that has been notified, or that   *)
(* wakes up for no reason, goes on in a step of its own.                   *)
(***************************************************************************)
EXTENDS Integers, Sequences, FiniteSets

CONSTANTS Workers,          \* threads the pool may have
          Producers,        \* threads that call run()
          Sizes,            \* numbers of threads start() may be given
          QueueSizes,       \* values of maxQueueSize_; 0 is unbounded
          MaxTasks          \* bound: calls of run()

ASSUME PoolAssumption == /\ Workers \cap Producers = {}
                         /\ Sizes \subseteq Nat
                         /\ QueueSizes \subseteq Nat
                         /\ MaxTasks \in Nat

VARIABLES
    maxQueueSize,   \* maxQueueSize_
    size,           \* numThreads, given to start()
    threads,        \* threads_
    owner,          \* where the thread that owns the pool is
    running,        \* running_
    queue,          \* queue_
    pc,             \* where each worker and each producer is
    task,           \* what a worker has taken, or NoTask
    calls,          \* calls of run() so far
    accepted,       \* history: tasks queued, or run by the caller, in order
    taken,          \* history: tasks taken, in order
    ran             \* history: tasks that have been run

vars == <<maxQueueSize, size, threads, owner, running, queue, pc, task, calls, accepted, taken, ran>>

NoTask == 0

Init == /\ maxQueueSize \in QueueSizes
        /\ size \in Sizes
        /\ threads = {}
        /\ owner = "new"
        /\ running = FALSE
        /\ queue = <<>>
        /\ pc = [t \in Workers \cup Producers |-> IF t \in Workers THEN "unborn" ELSE "idle"]
        /\ task = [w \in Workers |-> NoTask]
        /\ calls = 0
        /\ accepted = <<>> /\ taken = <<>> /\ ran = {}

IsFull == maxQueueSize > 0 /\ Len(queue) >= maxQueueSize

Waiting(condition, at) == {t \in DOMAIN at : at[t] = condition}

\* pthread_cond_signal on what the threads are waiting for.
Notify(condition, at) ==
    IF Waiting(condition, at) = {} THEN pc' = at
    ELSE \E t \in Waiting(condition, at) : pc' = [at EXCEPT ![t] = "woken"]
-----------------------------------------------------------------------------
(* The owner.                                                              *)

MoreThreads == Cardinality(threads) < size

\* start(), one thread at a time; each is running when its Thread::start returns.
Start ==
    /\ owner \in {"new", "starting"}
    /\ running' = TRUE
    /\ \/ /\ MoreThreads
          /\ \E w \in Workers \ threads : /\ threads' = threads \cup {w}
                                          /\ pc' = [pc EXCEPT ![w] = "loop"]
          /\ owner' = "starting"
       \/ /\ ~MoreThreads
          /\ owner' = "started"
          /\ UNCHANGED <<threads, pc>>
    /\ UNCHANGED <<maxQueueSize, size, queue, task, calls, accepted, taken, ran>>

WakeAll == pc' = [t \in DOMAIN pc |-> IF pc[t] \in {"notEmpty", "notFull"} THEN "woken" ELSE pc[t]]

Stop ==
    /\ owner = "started"
    /\ owner' = "joining"
    /\ running' = FALSE
    /\ WakeAll
    /\ UNCHANGED <<maxQueueSize, size, threads, queue, task, calls, accepted, taken, ran>>

Join ==
    /\ owner = "joining"
    /\ \A w \in threads : pc[w] = "finished"
    /\ owner' = "stopped"
    /\ UNCHANGED <<maxQueueSize, size, threads, running, queue, pc, task, calls, accepted, taken, ran>>
-----------------------------------------------------------------------------
(* Producers.                                                              *)

\* Without threads the caller runs the task.
RunHere(p) ==
    /\ owner \notin {"new", "starting"} /\ threads = {}
    /\ calls < MaxTasks
    /\ calls' = calls + 1
    /\ accepted' = Append(accepted, calls + 1)
    /\ taken' = Append(taken, calls + 1)
    /\ ran' = ran \cup {calls + 1}
    /\ UNCHANGED <<maxQueueSize, size, threads, owner, running, queue, pc, task>>

MustWait_Mutant(p) == IsFull /\ running /\ pc[p] # "woken"     \* seeded bug: an if for the while
MustWait(p) == IsFull /\ running

Refused == ~running

NotifyTaker_Mutant(at) == pc' = at          \* seeded bug: nobody is notified
NotifyTaker(at) == Notify("notEmpty", at)

\* run(), from its beginning or after a wait.
Run(p) ==
    /\ owner \notin {"new", "starting"} /\ threads # {}
    /\ \/ pc[p] = "idle" /\ calls < MaxTasks /\ calls' = calls + 1
       \/ pc[p] = "woken" /\ UNCHANGED calls
    /\ \/ /\ MustWait(p)
          /\ pc' = [pc EXCEPT ![p] = "notFull"]
          /\ UNCHANGED <<queue, accepted>>
       \/ /\ ~MustWait(p) /\ Refused
          /\ pc' = [pc EXCEPT ![p] = "idle"]
          /\ UNCHANGED <<queue, accepted>>
       \/ /\ ~MustWait(p) /\ ~Refused
          /\ LET t == Len(accepted) + 1
             IN queue' = Append(queue, t) /\ accepted' = Append(accepted, t)
          /\ NotifyTaker([pc EXCEPT ![p] = "idle"])
    /\ UNCHANGED <<maxQueueSize, size, threads, owner, running, task, taken, ran>>
-----------------------------------------------------------------------------
(* Workers.                                                                *)

\* runInThread tests running_ without the mutex.
TestRunning(w) ==
    /\ pc[w] = "loop"
    /\ pc' = [pc EXCEPT ![w] = IF running THEN "take" ELSE "finished"]
    /\ UNCHANGED <<maxQueueSize, size, threads, owner, running, queue, task, calls, accepted, taken, ran>>

NotifyProducer(at) ==
    IF maxQueueSize > 0 THEN Notify("notFull", at) ELSE pc' = at

Removed == Tail(queue)

\* take(), from its beginning or after a wait.
Take(w) ==
    /\ pc[w] \in {"take", "woken"}
    /\ \/ /\ queue = <<>> /\ running
          /\ pc' = [pc EXCEPT ![w] = "notEmpty"]
          /\ UNCHANGED <<queue, task, taken>>
       \/ /\ queue = <<>> /\ ~running
          /\ pc' = [pc EXCEPT ![w] = "loop"]
          /\ UNCHANGED <<queue, task, taken>>
       \/ /\ queue # <<>>
          /\ task' = [task EXCEPT ![w] = Head(queue)]
          /\ taken' = Append(taken, Head(queue))
          /\ queue' = Removed
          /\ NotifyProducer([pc EXCEPT ![w] = "run"])
    /\ UNCHANGED <<maxQueueSize, size, threads, owner, running, calls, accepted, ran>>

RunTask(w) ==
    /\ pc[w] = "run"
    /\ pc' = [pc EXCEPT ![w] = "loop"]
    /\ ran' = ran \cup {task[w]}
    /\ task' = [task EXCEPT ![w] = NoTask]
    /\ UNCHANGED <<maxQueueSize, size, threads, owner, running, queue, calls, accepted, taken>>

\* pthread_cond_wait may return for no reason.
WakesUp(t) ==
    /\ pc[t] \in {"notEmpty", "notFull"}
    /\ pc' = [pc EXCEPT ![t] = "woken"]
    /\ UNCHANGED <<maxQueueSize, size, threads, owner, running, queue, task, calls, accepted, taken, ran>>
-----------------------------------------------------------------------------
Worker(w) == TestRunning(w) \/ Take(w) \/ RunTask(w)

Next == \/ Start \/ Stop \/ Join
        \/ \E p \in Producers : RunHere(p) \/ Run(p)
        \/ \E w \in Workers : Worker(w)
        \/ \E t \in Workers \cup Producers : WakesUp(t)

Spec == Init /\ [][Next]_vars

(* Threads run, tasks end, a thread that was notified gets the mutex, and  *)
(* the owner goes on inside start() and stop().  Nobody has to call run()  *)
(* or stop(), and no wait has to end by itself.                            *)
Fairness == /\ WF_vars(Start) /\ WF_vars(Join)
            /\ \A w \in Workers : WF_vars(Worker(w))
            /\ \A p \in Producers : WF_vars(pc[p] = "woken" /\ Run(p))
FairSpec == Spec /\ Fairness
-----------------------------------------------------------------------------
Tasks == 1..MaxTasks

TypeOK ==
    /\ maxQueueSize \in QueueSizes /\ size \in Sizes
    /\ threads \in SUBSET Workers /\ Cardinality(threads) <= size
    /\ owner \in {"new", "starting", "started", "joining", "stopped"}
    /\ running \in BOOLEAN
    /\ queue \in Seq(Tasks)
    /\ \A w \in Workers :
         pc[w] \in {"unborn", "loop", "take", "notEmpty", "woken", "run", "finished"}
    /\ \A p \in Producers : pc[p] \in {"idle", "notFull", "woken"}
    /\ \A w \in Workers : task[w] \in Tasks <=> pc[w] = "run"
    /\ calls \in 0..MaxTasks
    /\ accepted \in Seq(Tasks) /\ taken \in Seq(Tasks) /\ ran \in SUBSET Tasks

(* The queue never holds more than its bound, whoever is woken and when    *)
(* (assert at ThreadPool.cc:89).                                           *)
QueueBounded == maxQueueSize > 0 => Len(queue) <= maxQueueSize

(* Tasks are taken in the order in which they were accepted, and none is   *)
(* lost or run twice.                                                      *)
OnceInOrder ==
    /\ accepted = taken \o queue
    /\ \A i \in 1..Len(taken) : taken[i] \in ran \/ \E w \in threads : task[w] = taken[i]

(* The queue is kept as it should be: the two together.                    *)
QueueKept == TypeOK /\ QueueBounded /\ OnceInOrder

(* From the moment stop() has the mutex nothing is queued, not even by a   *)
(* producer that was waiting for room (ThreadPool.h:36-37).                *)
NoneAfterStop == [][~running => Len(queue') <= Len(queue)]_queue

(* While the pool runs, every task accepted is run.  run() on a full queue *)
(* returns, when there is room or when the pool is stopped, and stop()     *)
(* returns, wherever the threads are; what waited for room is not queued   *)
(* any more then.                                                          *)
AllGoesOn ==
    /\ NoneAfterStop
    /\ \A t \in Tasks : (t \in {accepted[i] : i \in DOMAIN accepted}) ~> (t \in ran \/ ~running)
    /\ \A p \in Producers : (pc[p] = "notFull") ~> (pc[p] = "idle")
    /\ (owner = "joining") ~> (owner = "stopped")
=============================================================================
