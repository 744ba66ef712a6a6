------------------------------ MODULE Monitor ------------------------------
(***************************************************************************)
(* MutexLock, Condition, and what is made of them: BlockingQueue,          *)
(* BoundedBlockingQueue and CountDownLatch.  A thread's step is one call   *)
(* of pthread, one assignment to holder_ or one access to what the mutex   *)
(* guards.  Every function has one form: a MutexLockGuard, a loop around   *)
(* a wait, its effect, a notification.                                     *)
(***************************************************************************)
EXTENDS Integers, Sequences, FiniteSets

CONSTANTS Threads,
          MayCall(_),   \* what a thread calls; one waits for a latch, once, and destroys it then
          Kinds,        \* what the object may be
          Capacity,     \* maxSize of a BoundedBlockingQueue
          Counts,       \* what a latch may begin with
          MaxCalls,     \* bound: calls of all threads
          Free, NoValue

ASSUME MonitorAssumption ==
    /\ IsFiniteSet(Threads) /\ Free \notin Threads
    /\ \A t \in Threads : ~({"wait", "countDown"} \subseteq MayCall(t))
    /\ \A t, u \in Threads : "wait" \in MayCall(t) \cap MayCall(u) => t = u
    /\ Kinds \subseteq {"BlockingQueue", "BoundedBlockingQueue", "CountDownLatch"}
    /\ Capacity \in Nat \ {0} /\ Counts \subseteq Nat /\ MaxCalls \in Nat

VARIABLES
    kind,           \* what the object is
    items,          \* queue_
    count,          \* count_
    mutex,          \* the thread that has locked it, or Free
    holder,         \* holder_
    waiting,        \* condition -> the threads asleep on it
    place,          \* where each thread is
    call,           \* what it calls
    value,          \* what it puts
    result,         \* what it has got
    begun,          \* how many calls there have been
    destroyed       \* is the latch destroyed

monitorVars == <<kind, items, count, mutex, holder, waiting, place, call, value, result, begun, destroyed>>
locks == <<mutex, holder, waiting>>
data == <<items, count, value, result>>

Conditions == {"notEmpty", "notFull", "condition"}

MonitorInit == /\ kind \in Kinds
               /\ items = <<>>
               /\ count \in IF kind = "CountDownLatch" THEN Counts ELSE {0}
               /\ mutex = Free /\ holder = Free
               /\ waiting = [c \in Conditions |-> {}]
               /\ place = [t \in Threads |-> "out"]
               /\ call = [t \in Threads |-> "none"]
               /\ value = [t \in Threads |-> NoValue]
               /\ result = [t \in Threads |-> <<>>]
               /\ begun = 0
               /\ destroyed = FALSE

-----------------------------------------------------------------------------
(* MutexLock and Condition: from one place in a function to the next *)

Goes(t, from, to) == place[t] = from /\ place' = [place EXCEPT ![t] = to]

\* pthread_mutex_lock, in MutexLock::lock or at the end of pthread_cond_wait
Lock(t) ==
    /\ mutex = Free /\ mutex' = t
    /\ \/ Goes(t, "lock", "locked")
       \/ Goes(t, "asleep", "relocked") /\ \A c \in Conditions : t \notin waiting[c]
    /\ UNCHANGED <<kind, data, holder, waiting, call, begun, destroyed>>

AfterWait_Mutant == "effect"    \* seeded bug: an if for the while
AfterWait == "test"

\* MutexLock::assignHolder, in lock() or in ~UnassignGuard
AssignHolder(t) ==
    /\ Goes(t, "locked", "test") \/ Goes(t, "relocked", AfterWait)
    /\ holder' = t
    /\ UNCHANGED <<kind, data, mutex, waiting, call, begun, destroyed>>

\* MutexLock::unassignHolder, in unlock() or in UnassignGuard
UnassignHolder(t) ==
    /\ Goes(t, "unlock", "unassigned") \/ Goes(t, "wait", "sleep")
    /\ holder' = Free
    /\ UNCHANGED <<kind, data, mutex, waiting, call, begun, destroyed>>

Unlock(t) ==
    /\ Goes(t, "unassigned", "out")
    /\ mutex' = Free
    /\ destroyed' = (destroyed \/ call[t] = "wait")
    /\ UNCHANGED <<kind, data, holder, waiting, call, begun>>

ConditionOf(c) == CASE c = "put" -> "notFull" [] c = "take" -> "notEmpty" [] c = "wait" -> "condition"

\* pthread_cond_wait, until it sleeps
Sleep(t) ==
    /\ Goes(t, "sleep", "asleep")
    /\ mutex' = Free
    /\ waiting' = [waiting EXCEPT ![ConditionOf(call[t])] = @ \cup {t}]
    /\ UNCHANGED <<kind, data, holder, call, begun, destroyed>>

SpuriousWakeup(t) ==       \* for no reason
    /\ \E c \in Conditions : t \in waiting[c] /\ waiting' = [waiting EXCEPT ![c] = @ \ {t}]
    /\ UNCHANGED <<kind, data, mutex, holder, place, call, begun, destroyed>>

-----------------------------------------------------------------------------
(* The functions *)

Full == kind = "BoundedBlockingQueue" /\ Len(items) >= Capacity

HasToWait(t) == \/ call[t] = "put" /\ Full
                \/ call[t] = "take" /\ items = <<>>
                \/ call[t] = "wait" /\ count > 0

\* A latch is counted down as often as it says, and by others than the one that waits.
Begin(t, c) ==
    /\ begun < MaxCalls /\ begun' = begun + 1
    /\ Goes(t, "out", "lock")
    /\ c = "wait" => call[t] = "none"
    /\ c = "countDown" => /\ call[t] = "none"
                          /\ Cardinality({u \in Threads : place[u] # "out" /\ call[u] = "countDown"}) < count
    /\ call' = [call EXCEPT ![t] = c]
    /\ value' = [value EXCEPT ![t] = begun + 1]
    /\ UNCHANGED <<kind, items, count, result, locks, destroyed>>

Put(t) ==           \* a full circular_buffer gives up its first element
    items' = Append(IF Full THEN Tail(items) ELSE items, value[t])

WaitBegins_Mutant == "sleep"    \* seeded bug: no UnassignGuard
WaitBegins == "wait"

Test(t) ==
    /\ Goes(t, "test", IF HasToWait(t) THEN WaitBegins ELSE "effect")
    /\ UNCHANGED <<kind, data, locks, call, begun, destroyed>>

Effect(t) ==
    /\ Goes(t, "effect", "notify")
    /\ \/ /\ call[t] = "put" /\ Put(t)
          /\ result' = [result EXCEPT ![t] = <<>>]
       \/ /\ call[t] = "take" /\ items # <<>>
          /\ items' = Tail(items)
          /\ result' = [result EXCEPT ![t] = <<Head(items)>>]
       \/ /\ call[t] = "drain"
          /\ items' = <<>>
          /\ result' = [result EXCEPT ![t] = items]
       \/ /\ call[t] \in {"wait", "countDown"}
          /\ UNCHANGED items
          /\ result' = [result EXCEPT ![t] = <<>>]
    /\ count' = IF call[t] = "countDown" THEN count - 1 ELSE count
    /\ UNCHANGED <<kind, value, locks, call, begun, destroyed>>

\* Whom a call notifies: the threads asleep on that condition of which one, or all, wake up.
Notified_Mutant(t) ==           \* seeded bug: only when the queue was empty
    CASE call[t] = "put" /\ Len(items) = 1 -> waiting["notEmpty"]
      [] call[t] = "take" /\ kind = "BoundedBlockingQueue" -> waiting["notFull"]
      [] call[t] = "countDown" /\ count = 0 -> waiting["condition"]
      [] OTHER -> {}
Notified(t) ==
    CASE call[t] = "put" -> waiting["notEmpty"]
      [] call[t] = "take" /\ kind = "BoundedBlockingQueue" -> waiting["notFull"]
      [] call[t] = "countDown" /\ count = 0 -> waiting["condition"]
      [] OTHER -> {}

NotifyThreads(t) ==
    /\ Goes(t, "notify", "unlock")
    /\ IF Notified(t) = {} THEN UNCHANGED waiting
       ELSE \E woken \in IF call[t] = "countDown" THEN {Notified(t)} ELSE {{u} : u \in Notified(t)} :
                waiting' = [c \in Conditions |-> waiting[c] \ woken]
    /\ UNCHANGED <<kind, data, mutex, holder, call, begun, destroyed>>

-----------------------------------------------------------------------------
CallsOf(k) == CASE k = "BlockingQueue" -> {"put", "take", "drain"}
                [] k = "BoundedBlockingQueue" -> {"put", "take"}
                [] k = "CountDownLatch" -> {"wait", "countDown"}

Runs(t) == \/ Lock(t) \/ AssignHolder(t) \/ UnassignHolder(t) \/ Unlock(t) \/ Sleep(t)
           \/ Test(t) \/ Effect(t) \/ NotifyThreads(t)

MonitorNext == \E t \in Threads : \/ Runs(t) \/ SpuriousWakeup(t)
                                 \/ \E c \in CallsOf(kind) \cap MayCall(t) : Begin(t, c)
MonitorSpec == MonitorInit /\ [][MonitorNext]_monitorVars

\* Threads inside a call run, and get a mutex that is free again and again; nobody wakes up for
\* no reason for sure, but may do so again and again.
MonitorFairness == \A t \in Threads : WF_monitorVars(Runs(t)) /\ SF_monitorVars(Lock(t))

-----------------------------------------------------------------------------
(* Properties *)

Inside == {"test", "effect", "wait", "notify", "unlock"}

\* Inside a function the thread is the holder and alone, so that assertLocked() may be
\* asked anywhere; no thread is taken for a holder that is not, also while it sleeps; and
\* when the one that waited for a latch destroys it nobody is inside any more.
HolderTrue ==
    /\ \A t \in Threads : /\ place[t] \in Inside => mutex = t /\ holder = t
                          /\ holder = t => mutex = t
    /\ destroyed => \A t \in Threads : place[t] = "out"

Stage == [t \in Threads |-> CASE place[t] = "out" -> "out"
                              [] place[t] \in {"notify", "unlock", "unassigned"} -> "done"
                              [] OTHER -> "in"]

\* The calls take effect as if at once: no value is lost, doubled or overtaken, none is put
\* into a full queue or taken from an empty one, and wait() returns at zero.
Atomic == INSTANCE AtomicCalls WITH stage <- Stage, queue <- items
ImplementsCalls == Atomic!Spec

\* A call that may take effect does, or finds that it may not any more: no notification is
\* missed and none goes to a thread that has no use for it.
WaitsEnd == \A t \in Threads :
    (place[t] # "out" /\ ~HasToWait(t)) ~> (place[t] \in {"notify", "unlock", "unassigned", "out"} \/ HasToWait(t))
=============================================================================
