----------------------------- MODULE TimerQueue -----------------------------
(***************************************************************************)
(* The timers of one EventLoop: addTimer and cancel from any thread, the   *)
(* timerfd, and handleRead, which runs what has expired and arms the       *)
(* timerfd again.                                                          *)
(*                                                                         *)
(* Time is counted in ticks, and an expiration is kept as what is left     *)
(* until then: Tick brings every timer and the timerfd nearer.  The clock  *)
(* the timers go by may be set back; the timerfd does not follow it.       *)
(* Functors queued by other threads run in order: the contract of          *)
(* TaskExecutor.                                                           *)
(***************************************************************************)
EXTENDS Integers, Sequences, FiniteSets, FiniteSetsExt

CONSTANTS Addrs,        \* where a Timer can be allocated; an address is used again
          Callers,      \* threads other than the loop's
          Delays,       \* ticks from a call to the expiration
          Intervals,    \* intervals in ticks; 0 is a timer that does not repeat
          MaxTimers,    \* bound: timers created
          MaxSetBacks   \* bound: times the clock is set back

ASSUME TimerAssumption == /\ Delays \subseteq Nat /\ Intervals \subseteq Nat
                          /\ \E longest \in Delays \cup Intervals :
                                \A time \in Delays \cup Intervals : time <= longest
                          /\ MaxTimers \in Nat /\ MaxSetBacks \in Nat

VARIABLES
    heap,       \* the Timer objects: where they are and what is in them
    timers,     \* timers_: the addresses; the key's expiration is the Timer's own
    active,     \* activeTimers_: pairs of an address and a sequence
    canceling,  \* cancelingTimers_
    expired,    \* the local vector of handleRead
    toRun,      \* those of expired that have not run
    phase,      \* "idle": outside handleRead; "batch": between callbacks; "callback"
    lag,        \* ticks since handleRead looked at the clock
    alarm,      \* ticks until the timerfd is readable, or Off
    pending,    \* functors queued on the loop
    adding,     \* what a caller inside addTimer has allocated
    ids,        \* TimerIds that have been returned
    created,    \* s_numCreated_
    setBacks,   \* times the clock has been set back
    stopped,    \* history: timers that were there when they were cancelled
    mistaken    \* history: TimerIds that have hit another timer than their own

vars == <<heap, timers, active, canceling, expired, toRun, phase, lag, alarm,
          pending, adding, ids, created, setBacks, stopped, mistaken>>
batchVars == <<canceling, expired, toRun, phase, lag>>

Off == -1
Free == [id |-> 0]
Nobody == [addr |-> 0, id |-> 0]
Longest == Max(Delays \cup Intervals \cup {1})
MaxWait == Longest + MaxSetBacks
Floor == -1             \* how long a timer is overdue is not told apart further

Allocated == {a \in Addrs : heap[a] # Free}
Queued == {pending[i][2] : i \in {j \in 1..Len(pending) : pending[j][1] = "add"}}

Init == /\ heap = [a \in Addrs |-> Free]
        /\ timers = {} /\ active = {} /\ canceling = {}
        /\ expired = {} /\ toRun = {}
        /\ phase = "idle" /\ lag = 0
        /\ alarm = Off
        /\ pending = <<>>
        /\ adding = [c \in Callers |-> Nobody]
        /\ ids = {}
        /\ created = 0 /\ setBacks = 0
        /\ stopped = {} /\ mistaken = {}
-----------------------------------------------------------------------------
(* Timers and the timerfd.                                                 *)

Sequence_Constant(id) == 1      \* seeded bug: the address alone tells timers apart
Sequence(id) == id

NewTimer(a, delay, interval) ==
    /\ created < MaxTimers
    /\ heap[a] = Free
    /\ created' = created + 1
    /\ heap' = [heap EXCEPT ![a] = [id |-> created + 1, seq |-> Sequence(created + 1),
                                    due |-> delay, interval |-> interval]]

\* id and late are history: whose it is, and whether that Timer was gone when its sequence was read.
TimerId(a) == [addr |-> a, seq |-> heap'[a].seq, id |-> heap'[a].id, late |-> FALSE]

\* howMuchTimeFromNow: never less than 100 microseconds.
WaitFor(due) == Max({due, 1})

EarliestChanged_Mutant(a) == \E b \in timers : heap'[a].due < heap[b].due   \* seeded bug: misses the empty queue
EarliestChanged(a) == \A b \in timers : heap'[a].due < heap[b].due

\* addTimerInLoop and insert.
AddTimerInLoop(a) ==
    /\ timers' = timers \cup {a}
    /\ active' = active \cup {<<a, heap'[a].seq>>}
    /\ alarm' = IF EarliestChanged(a) THEN WaitFor(heap'[a].due) ELSE alarm

NoteSelfCancel(tid) ==
    canceling' = IF phase # "idle" THEN canceling \cup {<<tid.addr, tid.seq>>} ELSE canceling

\* The address and the sequence are those of another timer, which is deleted or not put back.
HitsAnother(tid) ==
    /\ tid.addr \in timers \cup expired
    /\ heap[tid.addr].seq = tid.seq /\ heap[tid.addr].id # tid.id

CancelInLoop(tid) ==
    /\ IF <<tid.addr, tid.seq>> \in active
       THEN /\ timers' = timers \ {tid.addr}
            /\ active' = active \ {<<tid.addr, tid.seq>>}
            /\ heap' = [heap EXCEPT ![tid.addr] = Free]
            /\ UNCHANGED canceling
       ELSE /\ NoteSelfCancel(tid)
            /\ UNCHANGED <<timers, active, heap>>
    /\ mistaken' = IF HitsAnother(tid) THEN mistaken \cup {tid} ELSE mistaken
    /\ stopped' = IF heap[tid.addr].id = tid.id /\ tid.addr \in timers \cup expired
                  THEN stopped \cup {tid.id} ELSE stopped
-----------------------------------------------------------------------------
(* Calls on the loop thread: from a handler, a functor or a timer callback.*)

UserCode == phase \in {"idle", "callback"}

AddTimer ==
    /\ UserCode
    /\ \E a \in Addrs, delay \in Delays, interval \in Intervals :
         /\ NewTimer(a, delay, interval)
         /\ AddTimerInLoop(a)
         /\ ids' = ids \cup {TimerId(a)}
    /\ UNCHANGED <<pending, adding, setBacks, stopped, mistaken, batchVars>>

Cancel ==
    /\ UserCode
    /\ \E tid \in ids : CancelInLoop(tid)
    /\ UNCHANGED <<expired, toRun, phase, lag, alarm, pending, adding, ids, created, setBacks>>
-----------------------------------------------------------------------------
(* Calls on other threads.                                                 *)

\* addTimer: the Timer is made and addTimerInLoop is queued.
QueueAdd(c) ==
    /\ adding[c] = Nobody
    /\ \E a \in Addrs, delay \in Delays, interval \in Intervals :
         /\ NewTimer(a, delay, interval)
         /\ pending' = Append(pending, <<"add", a>>)
         /\ adding' = [adding EXCEPT ![c] = [addr |-> a, id |-> created + 1]]
    /\ UNCHANGED <<ids, timers, active, alarm, setBacks, stopped, mistaken, batchVars>>

\* What timer->sequence() reads: of memory that is free, anything.
SequenceAt(a) == IF heap[a] = Free THEN 1..MaxTimers ELSE {heap[a].seq}

\* return TimerId(timer, timer->sequence()), when the loop has had the Timer for a while and
\* may have deleted it.
ReturnId(c) ==
    /\ adding[c] # Nobody
    /\ \E seq \in SequenceAt(adding[c].addr) :
          ids' = ids \cup {[addr |-> adding[c].addr, id |-> adding[c].id, seq |-> seq,
                            late |-> heap[adding[c].addr].id # adding[c].id]}
    /\ adding' = [adding EXCEPT ![c] = Nobody]
    /\ UNCHANGED <<heap, timers, active, alarm, pending, created, setBacks, stopped, mistaken, batchVars>>

QueueCancel ==
    /\ \E tid \in ids : /\ \A i \in 1..Len(pending) : pending[i] # <<"cancel", tid>>
                        /\ pending' = Append(pending, <<"cancel", tid>>)
    /\ UNCHANGED <<heap, timers, active, alarm, adding, ids, created, setBacks, stopped, mistaken, batchVars>>
-----------------------------------------------------------------------------
(* The loop.                                                               *)

RunPending ==
    /\ phase = "idle"
    /\ pending # <<>>
    /\ pending' = Tail(pending)
    /\ \/ /\ Head(pending)[1] = "add"
          /\ heap' = heap
          /\ AddTimerInLoop(Head(pending)[2])
          /\ UNCHANGED <<canceling, stopped, mistaken>>
       \/ /\ Head(pending)[1] = "cancel"
          /\ CancelInLoop(Head(pending)[2])
          /\ UNCHANGED alarm
    /\ UNCHANGED <<expired, toRun, phase, lag, adding, ids, created, setBacks>>

IsDue(a) == heap[a].due <= 0

StillActive(gone) == {t \in active : t[1] \notin gone}

\* The timerfd is readable: handleRead up to its first callback, with getExpired.
HandleRead ==
    /\ phase = "idle"
    /\ alarm = 0
    /\ alarm' = Off
    /\ expired' = {a \in timers : IsDue(a)}
    /\ timers' = timers \ expired'
    /\ active' = StillActive(expired')
    /\ canceling' = {}
    /\ toRun' = expired'
    /\ phase' = "batch"
    /\ lag' = 0
    /\ UNCHANGED <<heap, pending, adding, ids, created, setBacks, stopped, mistaken>>

\* The one that has been due longest.
RunCallback ==
    /\ phase = "batch"
    /\ \E a \in toRun :
         /\ \A b \in toRun : heap[a].due <= heap[b].due
         /\ toRun' = toRun \ {a}
    /\ phase' = "callback"
    /\ UNCHANGED <<heap, timers, active, canceling, expired, lag, alarm, pending, adding,
                   ids, created, setBacks, stopped, mistaken>>

CallbackReturns ==
    /\ phase = "callback"
    /\ phase' = "batch"
    /\ UNCHANGED <<heap, timers, active, canceling, expired, toRun, lag, alarm, pending,
                   adding, ids, created, setBacks, stopped, mistaken>>

Restarts(a) == heap[a].interval > 0 /\ <<a, heap[a].seq>> \notin canceling

Rearm_Mutant == alarm' = IF expired # {} /\ timers' # {}    \* seeded bug: not after an early alarm
                         THEN WaitFor(Min({heap'[a].due : a \in timers'})) ELSE alarm
Rearm == alarm' = IF timers' # {} THEN WaitFor(Min({heap'[a].due : a \in timers'})) ELSE alarm

Reclaimed_Mutant(again) ==                   \* seeded bug: not deleted
    heap' = [a \in Addrs |-> IF a \in again THEN [heap[a] EXCEPT !.due = heap[a].interval - lag]
                             ELSE heap[a]]
Reclaimed(again) ==
    heap' = [a \in Addrs |-> IF a \in again THEN [heap[a] EXCEPT !.due = heap[a].interval - lag]
                             ELSE IF a \in expired THEN Free ELSE heap[a]]

\* reset: repeating timers go back, the others are deleted, and the timerfd is armed.
Reset ==
    /\ phase = "batch"
    /\ toRun = {}
    /\ LET again == {a \in expired : Restarts(a)}
       IN /\ Reclaimed(again)
          /\ timers' = timers \cup again
          /\ active' = active \cup {<<a, heap[a].seq>> : a \in again}
    /\ Rearm
    /\ expired' = {}
    /\ phase' = "idle"
    /\ lag' = 0
    /\ UNCHANGED <<canceling, toRun, pending, adding, ids, created, setBacks, stopped, mistaken>>
-----------------------------------------------------------------------------
(* The clocks.                                                             *)

Tick ==
    /\ phase = "idle" \/ lag = 0
    /\ heap' = [a \in Addrs |-> IF heap[a] = Free THEN Free
                                ELSE [heap[a] EXCEPT !.due = Max({@ - 1, Floor})]]
    /\ alarm' = IF alarm > 0 THEN alarm - 1 ELSE alarm
    /\ lag' = IF phase = "idle" THEN 0 ELSE lag + 1
    /\ UNCHANGED <<timers, active, canceling, expired, toRun, phase, pending, adding, ids,
                   created, setBacks, stopped, mistaken>>

SetBack ==
    /\ phase = "idle"
    /\ setBacks < MaxSetBacks
    /\ setBacks' = setBacks + 1
    /\ heap' = [a \in Addrs |-> IF heap[a] = Free THEN Free ELSE [heap[a] EXCEPT !.due = @ + 1]]
    /\ UNCHANGED <<timers, active, canceling, expired, toRun, phase, lag, alarm, pending,
                   adding, ids, created, stopped, mistaken>>
-----------------------------------------------------------------------------
LoopStep == RunPending \/ HandleRead \/ RunCallback \/ CallbackReturns \/ Reset

Next == \/ AddTimer \/ Cancel \/ QueueCancel
        \/ \E c \in Callers : QueueAdd(c) \/ ReturnId(c)
        \/ LoopStep
        \/ Tick \/ SetBack

Spec == Init /\ [][Next]_vars

(* Time goes on and the loop runs: every round of it handles a readable    *)
(* timerfd, to the end of the batch, and then runs a pending functor, so   *)
(* neither can keep the other waiting for ever.                            *)
FairSpec == /\ Spec /\ WF_vars(Tick)
            /\ WF_vars(HandleRead) /\ WF_vars(RunCallback) /\ WF_vars(CallbackReturns)
            /\ WF_vars(Reset) /\ SF_vars(RunPending)
-----------------------------------------------------------------------------
Ids == 1..MaxTimers
ActiveTimers == Addrs \X Ids
Timers == [id : Ids, seq : Ids, due : Floor..MaxWait, interval : Intervals]
TimerIds == [addr : Addrs, seq : Ids, id : Ids, late : BOOLEAN]

TypeOK ==
    /\ heap \in [Addrs -> Timers \cup {Free}]
    /\ timers \in SUBSET Addrs /\ expired \in SUBSET Addrs /\ toRun \in SUBSET expired
    /\ active \in SUBSET ActiveTimers /\ canceling \in SUBSET ActiveTimers
    /\ phase \in {"idle", "batch", "callback"}
    /\ lag \in 0..1
    /\ alarm \in Off..MaxWait
    /\ pending \in Seq(({"add"} \X Addrs) \cup ({"cancel"} \X TimerIds))
    /\ adding \in [Callers -> {Nobody} \cup [addr : Addrs, id : Ids]]
    /\ ids \in SUBSET TimerIds
    /\ created \in 0..MaxTimers /\ setBacks \in 0..MaxSetBacks
    /\ stopped \in SUBSET Ids /\ mistaken \in SUBSET TimerIds

(* Every Timer is in exactly one place that will run or delete it, and no  *)
(* place holds a Timer that is gone: nothing leaks and nothing dangles.    *)
OwnedOnce ==
    /\ Allocated = timers \cup expired \cup Queued
    /\ timers \cap expired = {} /\ timers \cap Queued = {} /\ expired \cap Queued = {}

(* timers_ and activeTimers_ hold the same timers (TimerQueue.h:41-45).    *)
SameTimers == active = {<<a, heap[a].seq>> : a \in timers}

(* Both together: the bookkeeping of the Timers is right.                  *)
TimersKept == TypeOK /\ OwnedOnce /\ SameTimers

(* While there are timers the timerfd is armed, for the earliest of them   *)
(* or before: no timer is slept through, whatever was added, cancelled or  *)
(* restarted, and however the clock was set back.                          *)
NotSleptThrough ==
    phase = "idle" /\ timers # {}
        => alarm # Off /\ \A a \in timers : alarm <= WaitFor(heap[a].due)

(* A cancelled timer is gone once the batch it may be part of is over; a   *)
(* repeating timer that cancels itself is not put back.  And a TimerId     *)
(* whose timer is gone does not cancel a later timer that was allocated at *)
(* the same address (Timer.hpp:22-27): only one that addTimer made on      *)
(* another thread when its Timer was gone already may, as addTimer reads   *)
(* the sequence behind runInLoop (TimerQueue.cc:199).                      *)
CancelSticks ==
    /\ \A a \in Allocated : heap[a].id \in stopped => a \in expired
    /\ \A tid \in mistaken : tid.late

(* A timer that is waiting runs or is cancelled, a repeating one over and  *)
(* over.                                                                   *)
EveryTimerRuns ==
    \A a \in Addrs : (a \in timers \cup Queued) ~> (a \in toRun \/ a \notin Allocated)
=============================================================================
