-------------------------- MODULE TimerQueueProofs --------------------------
(***************************************************************************)
(* Theorems about TimerQueue, for any addresses, callers, delays and       *)
(* intervals and any number of timers: every Timer is in one place, a      *)
(* cancelled one is gone, and none is slept through.                       *)
(***************************************************************************)
EXTENDS TimerQueue, SequenceTheorems, FiniteSetTheorems, WellFoundedInduction, TLAPS

\* What a Timer may be by now.
Objects == [id : 1..created, seq : 1..created, due : Floor..(Longest + setBacks), interval : Intervals]

\* The heap: a Timer's sequence is its number, and no two have the same.
HeapInv ==
    /\ created \in 0..MaxTimers /\ setBacks \in 0..MaxSetBacks
    /\ heap \in [Addrs -> Objects \cup {Free}]
    /\ \A a \in Allocated : heap[a].seq = heap[a].id
    /\ \A a, b \in Allocated : heap[a].id = heap[b].id => a = b

\* The Timers that a sequence of functors will add.
QueuedIn(functors) == {functors[i][2] : i \in {j \in 1..Len(functors) : functors[j][1] = "add"}}

\* No Timer is added twice.
AddsOnce(functors) ==
    \A i, j \in 1..Len(functors) :
       functors[i][1] = "add" /\ functors[i] = functors[j] => i = j

\* The TimerIds that addTimer returns: with the sequence of their own Timer, unless it was gone.
GivenIds == {tid \in TimerIds : tid.seq = tid.id \/ tid.late}
Functors == ({"add"} \X Addrs) \cup ({"cancel"} \X GivenIds)

\* Calls from other threads: a Timer is queued once.
CallsInv ==
    /\ pending \in Seq(Functors)
    /\ AddsOnce(pending)
    /\ adding \in [Callers -> {Nobody} \cup [addr : Addrs, id : Ids]]
    /\ ids \in SUBSET GivenIds

\* A round: outside handleRead there is no batch.
RoundInv ==
    /\ timers \in SUBSET Addrs /\ expired \in SUBSET Addrs /\ toRun \in SUBSET expired
    /\ canceling \in SUBSET ActiveTimers
    /\ phase \in {"idle", "batch", "callback"} /\ lag \in 0..1
    /\ phase = "idle" => expired = {}
    /\ alarm \in Off..MaxWait

\* Who was cancelled while it was there is gone, or is in the batch and noted there.
StopInv ==
    /\ stopped \in SUBSET (1..created)
    /\ \A a \in Allocated : heap[a].id \in stopped => a \in expired /\ <<a, heap[a].seq>> \in canceling
    /\ mistaken \in SUBSET TimerIds /\ \A tid \in mistaken : tid.late

TimerInv == HeapInv /\ CallsInv /\ RoundInv /\ OwnedOnce /\ SameTimers /\ StopInv /\ NotSleptThrough

\* No Timer has this number, nor will one have it.
Gone(id) == id \in 1..created /\ \A a \in Allocated : heap[a].id # id

\* Who is inside addTimer knows where its Timer is or was; a late TimerId is of one that is gone;
\* and only an id that was returned is cancelled.
GoneInv ==
    /\ \A c \in Callers : adding[c] # Nobody =>
          /\ adding[c].id \in 1..created
          /\ \A a \in Allocated : heap[a].id = adding[c].id => a = adding[c].addr
    /\ \A tid \in ids : tid.late => Gone(tid.id)
    /\ \A i \in 1..Len(pending) : pending[i][1] = "cancel" => pending[i][2] \in ids
-----------------------------------------------------------------------------
(* Maxima and minima.                                                      *)

(* howMuchTimeFromNow: what is left until then, but one tick at least.     *)
LEMMA WaitForIs ==
  ASSUME NEW due \in Int
  PROVE  WaitFor(due) = IF due >= 1 THEN due ELSE 1
<1> DEFINE S == {due, 1}
           m == IF due >= 1 THEN due ELSE 1
<1>1. m \in S /\ \A y \in S : m >= y
  OBVIOUS
<1>2. \A x \in S : (\A y \in S : x >= y) => x = m
  OBVIOUS
<1> HIDE DEF m
<1>3. Max(S) \in S /\ \A y \in S : Max(S) >= y
  BY <1>1 DEF Max
<1>4. Max(S) = m
  BY <1>2, <1>3
<1>5. QED
  BY <1>4 DEF WaitFor, m

(* A tick takes one off, but not past Floor.                               *)
LEMMA Nearer ==
  ASSUME NEW due \in Int, due >= Floor
  PROVE  Max({due - 1, Floor}) = IF due > Floor THEN due - 1 ELSE Floor
<1> DEFINE S == {due - 1, Floor}
           m == IF due > Floor THEN due - 1 ELSE Floor
<1>1. m \in S /\ \A y \in S : m >= y
  BY DEF Floor
<1>2. \A x \in S : (\A y \in S : x >= y) => x = m
  BY DEF Floor
<1> HIDE DEF m
<1>3. Max(S) \in S /\ \A y \in S : Max(S) >= y
  BY <1>1 DEF Max
<1>4. Max(S) = m
  BY <1>2, <1>3
<1>5. QED
  BY <1>4 DEF m

(* Among times that are not below a bound there is an earliest: the        *)
(* intervals from the bound to each of them are finite sets, and one of    *)
(* those contains no other.                                                *)
LEMMA EarliestIs ==
  ASSUME NEW S, S # {}, S \subseteq Int, NEW low \in Int, \A x \in S : low <= x
  PROVE  Min(S) \in S /\ \A y \in S : Min(S) <= y
<1> DEFINE T == {low .. x : x \in S}
           R == StrictSubsetOrdering(Int)
<1>1. T \subseteq FiniteSubsetsOf(Int)
  <2>1. ASSUME NEW x \in S
        PROVE  low .. x \in FiniteSubsetsOf(Int)
    <3>1. x \in Int
      OBVIOUS
    <3>2. IsFiniteSet(low .. x)
      BY <3>1, FS_Interval
    <3>3. low .. x \in SUBSET Int
      BY <3>1
    <3>4. QED
      BY <3>2, <3>3 DEF FiniteSubsetsOf
  <2>2. QED
    BY <2>1
<1>2. IsWellFoundedOn(R, FiniteSubsetsOf(Int))
  BY FS_StrictSubsetOrderingWellFounded
<1>3. T # {}
  <2>1. PICK x \in S : TRUE
    OBVIOUS
  <2>2. low .. x \in T
    OBVIOUS
  <2>3. QED
    BY <2>2
<1>4. PICK n \in T : \A y \in T : ~(<<y, n>> \in R)
  <2> HIDE DEF T, R
  <2>1. QED
    BY <1>1, <1>2, <1>3, WFMin, Zenon
<1>5. PICK m \in S : n = low .. m
  OBVIOUS
<1>6. ASSUME NEW y \in S
      PROVE  m <= y
  <2>1. m \in Int /\ y \in Int /\ low <= m /\ low <= y
    OBVIOUS
  <2>2. ~(<<low .. y, low .. m>> \in R)
    BY <1>4, <1>5
  <2>3. SUFFICES ASSUME y < m
                 PROVE  FALSE
    BY <2>1
  <2>4. low .. y \subseteq low .. m
    BY <2>1, <2>3
  <2>5. low .. y # low .. m
    BY <2>1, <2>3
  <2>6. low .. y \in SUBSET Int /\ low .. m \in SUBSET Int
    BY <2>1
  <2>7. QED
    BY <2>2, <2>4, <2>5, <2>6 DEF StrictSubsetOrdering
<1>7. QED
  BY <1>5, <1>6 DEF Min

(* The longest time a timer may be away.                                   *)
LEMMA LongestIs ==
  Longest \in Nat /\ Longest >= 1 /\ \A time \in Delays \cup Intervals : time <= Longest
<1> DEFINE S == Delays \cup Intervals \cup {1}
<1>1. S \subseteq Nat
  BY TimerAssumption
<1>2. \E m \in S : \A y \in S : m >= y
  <2>1. PICK longest \in Delays \cup Intervals : \A time \in Delays \cup Intervals : time <= longest
    BY TimerAssumption
  <2>2. CASE longest >= 1
    BY <1>1, <2>1, <2>2
  <2>3. CASE longest < 1
    <3>1. \A y \in S : 1 >= y
      BY <1>1, <2>1, <2>3
    <3>2. QED
      BY <3>1
  <2>4. QED
    BY <1>1, <2>1, <2>2, <2>3
<1> HIDE DEF S
<1>3. Max(S) \in S /\ \A y \in S : Max(S) >= y
  BY <1>2 DEF Max
<1>4. QED
  BY <1>1, <1>3 DEF Longest, S
(* No timer is away longer than MaxWait, nor does the timerfd wait longer. *)
LEMMA MaxWaitIs ==
  ASSUME NEW count \in 0..MaxSetBacks
  PROVE  MaxWait \in Nat /\ Longest + count <= MaxWait /\ 1 <= MaxWait
<1>1. PICK longest \in Nat : longest = Longest /\ longest >= 1
  BY LongestIs
<1>2. MaxWait = longest + MaxSetBacks
  BY <1>1 DEF MaxWait
<1>3. MaxWait \in Nat /\ longest + count <= MaxWait /\ 1 <= MaxWait
  BY <1>1, <1>2, TimerAssumption
<1>4. QED
  BY <1>1, <1>3

(* So an alarm for a timer is no longer than that.                         *)
LEMMA AlarmIs ==
  ASSUME NEW count \in 0..MaxSetBacks, NEW due \in Int, due <= Longest + count
  PROVE  WaitFor(due) \in 1..MaxWait
<1>1. (WaitFor(due) = due /\ due >= 1) \/ WaitFor(due) = 1
  BY WaitForIs
<1>2. MaxWait \in Nat /\ Longest + count <= MaxWait /\ 1 <= MaxWait
  BY MaxWaitIs
<1>3. ASSUME NEW wait \in Int, (wait = due /\ due >= 1) \/ wait = 1
      PROVE  wait \in 1..MaxWait
  BY <1>2, <1>3, LongestIs
<1>4. WaitFor(due) \in Int
  BY <1>1
<1>5. QED
  BY <1>1, <1>3, <1>4
-----------------------------------------------------------------------------
(* The heap.                                                               *)

(* An address is free or has a Timer.                                      *)
LEMMA ObjectAt ==
  ASSUME HeapInv, NEW a \in Allocated
  PROVE  /\ a \in Addrs /\ heap[a] \in Objects
         /\ heap[a].id \in 1..created /\ heap[a].seq = heap[a].id
         /\ heap[a].due \in Floor..(Longest + setBacks) /\ heap[a].due \in Int
         /\ heap[a].interval \in Intervals
<1>1. a \in Addrs /\ heap[a] # Free /\ heap[a] \in Objects
  BY DEF HeapInv, Allocated
<1>2. heap[a].id \in 1..created /\ heap[a].due \in Floor..(Longest + setBacks)
      /\ heap[a].interval \in Intervals
  BY <1>1 DEF Objects
<1>3. heap[a].due \in Int
  BY <1>2, LongestIs DEF HeapInv, Floor
<1>4. QED
  BY <1>1, <1>2, <1>3 DEF HeapInv

(* What is free has the number of no Timer.                                *)
LEMMA FreeIsNoObject ==
  ASSUME HeapInv
  PROVE  Free \notin Objects /\ Free.id = 0
<1>1. Free.id = 0
  BY DEF Free
<1>2. \A o \in Objects : o.id \in 1..created
  BY DEF Objects
<1>3. 0 \notin 1..created
  BY DEF HeapInv
<1>4. QED
  BY <1>1, <1>2, <1>3

(* A new Timer: nobody had its address, and the others are as they were.   *)
LEMMA NewTimerIs ==
  ASSUME HeapInv, NEW a \in Addrs, NEW delay \in Delays, NEW interval \in Intervals,
         NewTimer(a, delay, interval), setBacks' = setBacks
  PROVE  /\ HeapInv'
         /\ a \notin Allocated /\ Allocated' = Allocated \cup {a}
         /\ heap'[a].seq = heap'[a].id /\ heap'[a].id = created + 1
         /\ heap'[a].due = delay /\ delay \in 0..Longest
         /\ \A b \in Addrs \ {a} : heap'[b] = heap[b]
         /\ created' = created + 1 /\ created + 1 \in Ids
<1> DEFINE new == [id |-> created + 1, seq |-> created + 1, due |-> delay, interval |-> interval]
<1>1. created' = created + 1 /\ created \in Nat /\ MaxTimers \in Nat /\ created + 1 \in 1..MaxTimers
  BY TimerAssumption DEF NewTimer, HeapInv
<1>2. heap' = [heap EXCEPT ![a] = new] /\ heap[a] = Free
  BY DEF NewTimer, Sequence
<1>3. delay \in 0..Longest
  <2>1. delay \in Nat
    BY TimerAssumption
  <2>2. delay <= Longest
    BY LongestIs
  <2>3. QED
    BY <2>1, <2>2, LongestIs
<1>4. new \in Objects' /\ new.id = created + 1 /\ new.seq = created + 1 /\ new.due = delay
  <2>1. new.id = created + 1 /\ new.seq = created + 1 /\ new.due = delay
    OBVIOUS
  <2>2. delay \in Floor..(Longest + setBacks')
    BY <1>3, LongestIs DEF HeapInv, Floor
  <2>3. created + 1 \in 1..created'
    BY <1>1
  <2>4. QED
    BY <2>1, <2>2, <2>3 DEF Objects
<1>5. Objects \subseteq Objects'
  <2>1. 1..created \subseteq 1..created'
    BY <1>1
  <2>2. QED
    BY <2>1 DEF Objects
<1>6. new # Free
  BY <1>1, <1>4, FreeIsNoObject
<1> HIDE DEF new
<1>7. heap \in [Addrs -> Objects \cup {Free}]
  BY DEF HeapInv
<1>8. heap'[a] = new /\ \A b \in Addrs \ {a} : heap'[b] = heap[b]
  BY <1>2, <1>7
<1>9. heap' \in [Addrs -> Objects' \cup {Free}]
  BY <1>2, <1>4, <1>5, <1>7
<1>10. a \notin Allocated /\ Allocated' = Allocated \cup {a}
  BY <1>2, <1>6, <1>8 DEF Allocated
<1>11. \A b \in Allocated : heap'[b] = heap[b] /\ heap[b].id # created + 1 /\ heap[b].seq = heap[b].id
  <2>1. TAKE b \in Allocated
  <2>2. heap[b].id \in 1..created /\ heap[b].seq = heap[b].id /\ b \in Addrs
    BY ObjectAt
  <2>3. heap'[b] = heap[b]
    BY <1>8, <1>10, <2>2
  <2>4. QED
    BY <1>1, <2>2, <2>3
<1>12. \A b \in Allocated' : heap'[b].seq = heap'[b].id
  BY <1>4, <1>8, <1>10, <1>11
<1>13. \A b, c \in Allocated' : heap'[b].id = heap'[c].id => b = c
  <2>1. \A b, c \in Allocated : heap[b].id = heap[c].id => b = c
    BY DEF HeapInv
  <2>2. QED
    BY <1>4, <1>8, <1>10, <1>11, <2>1
<1>14. HeapInv'
  <2>1. created' \in 0..MaxTimers
    BY <1>1
  <2>2. setBacks' \in 0..MaxSetBacks
    BY DEF HeapInv
  <2>3. QED
    BY <1>9, <1>12, <1>13, <2>1, <2>2 DEF HeapInv
<1>15. QED
  BY <1>1, <1>3, <1>4, <1>8, <1>10, <1>14 DEF Ids

(* The Timers are the same ones and what is left until each may change.    *)
LEMMA SameObjects ==
  ASSUME HeapInv, NEW f \in [Addrs -> Int],
         heap' = [a \in Addrs |-> IF heap[a] = Free THEN Free ELSE [heap[a] EXCEPT !.due = f[a]]],
         created' = created, setBacks' \in 0..MaxSetBacks,
         \A a \in Allocated : f[a] \in Floor..(Longest + setBacks')
  PROVE  /\ HeapInv' /\ Allocated' = Allocated
         /\ \A a \in Allocated : /\ heap'[a].due = f[a] /\ heap'[a].id = heap[a].id
                                  /\ heap'[a].seq = heap[a].seq
<1>1. ASSUME NEW a \in Addrs, heap[a] # Free
      PROVE  /\ heap'[a] \in Objects' /\ heap'[a] # Free
             /\ heap'[a].due = f[a] /\ heap'[a].id = heap[a].id /\ heap'[a].seq = heap[a].seq
  <2>1. a \in Allocated
    BY <1>1 DEF Allocated
  <2>2. heap[a] \in Objects /\ heap[a].id \in 1..created
    BY <2>1, ObjectAt
  <2>3. heap'[a] = [heap[a] EXCEPT !.due = f[a]]
    BY <1>1
  <2>4. f[a] \in Floor..(Longest + setBacks')
    BY <2>1
  <2>5. heap'[a] \in Objects' /\ heap'[a].due = f[a] /\ heap'[a].id = heap[a].id
        /\ heap'[a].seq = heap[a].seq
    BY <2>2, <2>3, <2>4 DEF Objects
  <2>6. heap'[a] # Free
    <3>1. heap[a].id # Free.id
      BY <2>2, FreeIsNoObject DEF HeapInv
    <3>2. QED
      BY <2>5, <3>1, Zenon
  <2>7. QED
    BY <2>5, <2>6
<1>2. \A a \in Addrs : heap[a] = Free => heap'[a] = Free
  OBVIOUS
<1>3. Allocated' = Allocated
  BY <1>1, <1>2 DEF Allocated
<1>4. heap' \in [Addrs -> Objects' \cup {Free}]
  <2>1. \A a \in Addrs : heap'[a] \in Objects' \cup {Free}
    BY <1>1, <1>2
  <2>2. heap' = [a \in Addrs |-> heap'[a]]
    OBVIOUS
  <2>3. QED
    BY <2>1, <2>2
<1>5. \A a \in Allocated : /\ heap'[a].due = f[a] /\ heap'[a].id = heap[a].id
                           /\ heap'[a].seq = heap[a].seq
  BY <1>1 DEF Allocated
<1>6. HeapInv'
  BY <1>3, <1>4, <1>5 DEF HeapInv
<1>7. QED
  BY <1>3, <1>5, <1>6
-----------------------------------------------------------------------------
(* What is queued on the loop.                                             *)

(* A functor is one of the two.                                            *)
LEMMA FunctorIs ==
  ASSUME NEW f \in Functors
  PROVE  \/ f[1] = "add" /\ f[2] \in Addrs /\ f = <<"add", f[2]>>
         \/ f[1] = "cancel" /\ f[2] \in GivenIds /\ f = <<"cancel", f[2]>>
BY DEF Functors

(* The Timers to be added, place by place.                                 *)
LEMMA QueuedPlace ==
  ASSUME NEW p \in Seq(Functors), NEW a
  PROVE  a \in QueuedIn(p) <=> \E i \in 1..Len(p) : p[i] = <<"add", a>>
<1>1. \A i \in 1..Len(p) : p[i] \in Functors
  BY ElementOfSeq
<1>2. \A i \in 1..Len(p) : p[i][1] = "add" => p[i] = <<"add", p[i][2]>>
  BY <1>1, FunctorIs
<1>3. ASSUME NEW i \in 1..Len(p), p[i] = <<"add", a>>
      PROVE  a \in QueuedIn(p)
  BY <1>3 DEF QueuedIn
<1>4. ASSUME a \in QueuedIn(p)
      PROVE  \E i \in 1..Len(p) : p[i] = <<"add", a>>
  <2>1. PICK i \in {j \in 1..Len(p) : p[j][1] = "add"} : a = p[i][2]
    BY <1>4 DEF QueuedIn
  <2>2. QED
    BY <1>2, <2>1
<1>5. QED
  BY <1>3, <1>4

(* They are addresses.                                                     *)
LEMMA QueuedAddrs ==
  ASSUME NEW p \in Seq(Functors)
  PROVE  QueuedIn(p) \subseteq Addrs
<1>1. SUFFICES ASSUME NEW a \in QueuedIn(p)
               PROVE  a \in Addrs
  OBVIOUS
<1>2. PICK i \in 1..Len(p) : p[i] = <<"add", a>>
  BY QueuedPlace
<1>3. p[i] \in Functors
  BY ElementOfSeq
<1>4. QED
  BY <1>2, <1>3 DEF Functors

(* A functor goes to the end.                                              *)
LEMMA QueuedAppend ==
  ASSUME NEW p \in Seq(Functors), AddsOnce(p), NEW f \in Functors,
         f[1] = "add" => f[2] \notin QueuedIn(p)
  PROVE  /\ Append(p, f) \in Seq(Functors) /\ AddsOnce(Append(p, f))
         /\ QueuedIn(Append(p, f)) = IF f[1] = "add" THEN QueuedIn(p) \cup {f[2]} ELSE QueuedIn(p)
<1> DEFINE q == Append(p, f)
<1>1. q \in Seq(Functors) /\ Len(q) = Len(p) + 1 /\ Len(p) \in Nat
      /\ (\A i \in 1..Len(p) : q[i] = p[i]) /\ q[Len(p) + 1] = f
  BY AppendProperties, LenProperties
<1> HIDE DEF q
<1>2. \A i \in 1..Len(q) : i \in 1..Len(p) \/ i = Len(p) + 1
  BY <1>1
<1>3. 1..Len(p) \subseteq 1..Len(q) /\ Len(p) + 1 \in 1..Len(q)
  BY <1>1
<1>4. AddsOnce(q)
  <2>1. SUFFICES ASSUME NEW i \in 1..Len(q), NEW j \in 1..Len(q), q[i][1] = "add", q[i] = q[j]
                 PROVE  i = j
    BY DEF AddsOnce
  <2>2. \A k \in 1..Len(p) : p[k][1] = "add" => p[k] # f
    <3>1. SUFFICES ASSUME NEW k \in 1..Len(p), p[k][1] = "add", p[k] = f
                   PROVE  FALSE
      OBVIOUS
    <3>2. f[1] = "add" /\ f[2] \in QueuedIn(p)
      BY <3>1 DEF QueuedIn
    <3>3. QED
      BY <3>2
  <2>3. QED
    BY <1>1, <1>2, <2>1, <2>2 DEF AddsOnce
<1>5. QueuedIn(q) = IF f[1] = "add" THEN QueuedIn(p) \cup {f[2]} ELSE QueuedIn(p)
  <2>1. \A a : a \in QueuedIn(q) <=> \E i \in 1..Len(q) : q[i] = <<"add", a>>
    BY <1>1, QueuedPlace
  <2>2. \A a : a \in QueuedIn(p) <=> \E i \in 1..Len(p) : p[i] = <<"add", a>>
    BY QueuedPlace
  <2>3. \A a : a \in QueuedIn(q) <=> a \in QueuedIn(p) \/ f = <<"add", a>>
    <3>1. ASSUME NEW a, a \in QueuedIn(q)
          PROVE  a \in QueuedIn(p) \/ f = <<"add", a>>
      <4>1. PICK i \in 1..Len(q) : q[i] = <<"add", a>>
        BY <2>1, <3>1
      <4>2. QED
        BY <1>1, <1>2, <2>2, <4>1
    <3>2. ASSUME NEW a, a \in QueuedIn(p)
          PROVE  a \in QueuedIn(q)
      <4>1. PICK i \in 1..Len(p) : p[i] = <<"add", a>>
        BY <2>2, <3>2
      <4>2. QED
        BY <1>1, <1>3, <2>1, <4>1
    <3>3. ASSUME NEW a, f = <<"add", a>>
          PROVE  a \in QueuedIn(q)
      BY <1>1, <1>3, <2>1, <3>3
    <3>4. QED
      BY <3>1, <3>2, <3>3
  <2>4. CASE f[1] = "add"
    <3>1. \A a : f = <<"add", a>> <=> a = f[2]
      BY <2>4, FunctorIs
    <3>2. QED
      BY <2>3, <2>4, <3>1
  <2>5. CASE f[1] # "add"
    <3>1. \A a : f # <<"add", a>>
      BY <2>5
    <3>2. QED
      BY <2>3, <2>5, <3>1
  <2>6. QED
    BY <2>4, <2>5
<1>6. QED
  BY <1>1, <1>4, <1>5 DEF q

(* The loop takes the first.                                               *)
LEMMA QueuedTail ==
  ASSUME NEW p \in Seq(Functors), AddsOnce(p), p # <<>>
  PROVE  /\ Head(p) \in Functors /\ Tail(p) \in Seq(Functors) /\ AddsOnce(Tail(p))
         /\ Head(p)[1] = "add" => /\ Head(p)[2] \in QueuedIn(p)
                                  /\ QueuedIn(Tail(p)) = QueuedIn(p) \ {Head(p)[2]}
         /\ Head(p)[1] = "cancel" => QueuedIn(Tail(p)) = QueuedIn(p)
<1> DEFINE f == Head(p)
           q == Tail(p)
<1>1. /\ f \in Functors /\ f = p[1] /\ q \in Seq(Functors)
      /\ Len(p) \in Nat /\ Len(p) >= 1 /\ Len(q) = Len(p) - 1
      /\ \A i \in 1..Len(q) : q[i] = p[i + 1]
  BY HeadTailProperties, EmptySeq, LenProperties, ElementOfSeq
<1> HIDE DEF f, q
<1>2. \A i \in 1..Len(q) : i + 1 \in 1..Len(p) /\ i + 1 # 1
  BY <1>1
<1>3. \A i \in 1..Len(p) : i = 1 \/ i - 1 \in 1..Len(q)
  BY <1>1
<1>4. 1 \in 1..Len(p)
  BY <1>1
<1>5. AddsOnce(q)
  <2>1. SUFFICES ASSUME NEW i \in 1..Len(q), NEW j \in 1..Len(q), q[i][1] = "add", q[i] = q[j]
                 PROVE  i = j
    BY DEF AddsOnce
  <2>2. p[i + 1][1] = "add" /\ p[i + 1] = p[j + 1]
    BY <1>1, <2>1
  <2>3. i + 1 = j + 1
    BY <1>2, <2>2 DEF AddsOnce
  <2>4. QED
    BY <2>3
<1>6. \A a : a \in QueuedIn(q) <=> \E i \in 1..Len(q) : q[i] = <<"add", a>>
  BY <1>1, QueuedPlace
<1>7. \A a : a \in QueuedIn(p) <=> \E i \in 1..Len(p) : p[i] = <<"add", a>>
  BY QueuedPlace
<1>8. \A a : a \in QueuedIn(p) <=> a \in QueuedIn(q) \/ f = <<"add", a>>
  <2>1. ASSUME NEW a, a \in QueuedIn(p)
        PROVE  a \in QueuedIn(q) \/ f = <<"add", a>>
    <3>1. PICK i \in 1..Len(p) : p[i] = <<"add", a>>
      BY <1>7, <2>1
    <3>2. CASE i = 1
      BY <1>1, <3>1, <3>2
    <3>3. CASE i - 1 \in 1..Len(q)
      <4>1. q[i - 1] = p[i]
        <5>1. (i - 1) + 1 = i
          OBVIOUS
        <5>2. QED
          BY <1>1, <3>3, <5>1
      <4>2. QED
        BY <1>6, <3>1, <3>3, <4>1
    <3>4. QED
      BY <1>3, <3>2, <3>3
  <2>2. ASSUME NEW a, a \in QueuedIn(q)
        PROVE  a \in QueuedIn(p)
    <3>1. PICK i \in 1..Len(q) : q[i] = <<"add", a>>
      BY <1>6, <2>2
    <3>2. p[i + 1] = <<"add", a>> /\ i + 1 \in 1..Len(p)
      BY <1>1, <1>2, <3>1
    <3>3. QED
      BY <1>7, <3>2
  <2>3. ASSUME NEW a, f = <<"add", a>>
        PROVE  a \in QueuedIn(p)
    BY <1>1, <1>4, <1>7, <2>3
  <2>4. QED
    BY <2>1, <2>2, <2>3
<1>9. CASE f[1] = "add"
  <2>1. f = <<"add", f[2]>> /\ \A a : f = <<"add", a>> <=> a = f[2]
    BY <1>1, <1>9, FunctorIs
  <2>2. f[2] \notin QueuedIn(q)
    <3>1. SUFFICES ASSUME f[2] \in QueuedIn(q)
                   PROVE  FALSE
      OBVIOUS
    <3>2. PICK i \in 1..Len(q) : q[i] = <<"add", f[2]>>
      BY <1>6, <3>1
    <3>3. p[i + 1] = p[1] /\ p[1][1] = "add"
      BY <1>1, <1>9, <2>1, <3>2
    <3>4. i + 1 = 1
      BY <1>2, <1>4, <3>3 DEF AddsOnce
    <3>5. QED
      BY <1>2, <3>4
  <2>3. f[2] \in QueuedIn(p) /\ QueuedIn(q) = QueuedIn(p) \ {f[2]}
    BY <1>8, <2>1, <2>2
  <2>4. QED
    BY <1>1, <1>5, <1>9, <2>3 DEF f, q
<1>10. CASE f[1] # "add"
  <2>1. \A a : f # <<"add", a>>
    BY <1>10
  <2>2. QueuedIn(q) = QueuedIn(p)
    BY <1>8, <2>1
  <2>3. QED
    BY <1>1, <1>5, <1>10, <2>2 DEF f, q
<1>11. QED
  BY <1>9, <1>10
-----------------------------------------------------------------------------
(* Steps that two actions share.                                           *)

(* addTimerInLoop: the Timer is in both sets, and the timerfd is not later *)
(* than the earliest.                                                      *)
LEMMA AddedInLoop ==
  ASSUME TimerInv, NEW a \in Addrs, a \notin timers, AddTimerInLoop(a),
         HeapInv', a \in Allocated', timers \subseteq Allocated', phase' = phase,
         \A b \in timers : heap'[b] = heap[b]
  PROVE  timers' = timers \cup {a} /\ SameTimers' /\ alarm' \in Off..MaxWait /\ NotSleptThrough'
<1>1. timers' = timers \cup {a} /\ active' = active \cup {<<a, heap'[a].seq>>}
  BY DEF AddTimerInLoop
<1>2. SameTimers'
  <2>1. active = {<<b, heap[b].seq>> : b \in timers}
    BY DEF TimerInv, SameTimers
  <2>2. active = {<<b, heap'[b].seq>> : b \in timers}
    BY <2>1
  <2>3. QED
    BY <1>1, <2>2 DEF SameTimers
<1>3. \A b \in Allocated' : heap'[b].due \in Int /\ heap'[b].due <= Longest + setBacks'
  <2>1. ASSUME NEW b \in Allocated'
        PROVE  heap'[b].due \in Floor..(Longest + setBacks')
    BY DEF HeapInv, Allocated, Objects
  <2>2. setBacks' \in Int
    BY DEF HeapInv
  <2>3. QED
    BY <2>1, <2>2, LongestIs DEF Floor
<1>4. MaxWait \in Nat /\ Longest + setBacks' <= MaxWait /\ 1 <= MaxWait
  <2>1. setBacks' \in 0..MaxSetBacks
    BY DEF HeapInv
  <2>2. QED
    BY <2>1, MaxWaitIs
<1>5. alarm \in Int /\ alarm >= -1 /\ alarm <= MaxWait
  BY <1>4 DEF TimerInv, RoundInv, Off
<1>6. WaitFor(heap'[a].due) = IF heap'[a].due >= 1 THEN heap'[a].due ELSE 1
  BY <1>3, WaitForIs
<1>7. \A b \in timers : WaitFor(heap[b].due) = IF heap[b].due >= 1 THEN heap[b].due ELSE 1
  BY <1>3, WaitForIs
<1>8. \A b \in timers : heap[b].due \in Int
  BY <1>3
<1>9. alarm' \in Off..MaxWait
  <2>1. CASE EarliestChanged(a)
    <3>1. alarm' = WaitFor(heap'[a].due)
      BY <2>1 DEF AddTimerInLoop
    <3>2. setBacks' \in 0..MaxSetBacks
      BY DEF HeapInv
    <3>3. alarm' \in 1..MaxWait
      BY <1>3, <3>1, <3>2, AlarmIs
    <3>4. QED
      BY <3>3 DEF Off
  <2>2. CASE ~EarliestChanged(a)
    BY <1>5, <2>2 DEF AddTimerInLoop, Off
  <2>3. QED
    BY <2>1, <2>2
<1>10. NotSleptThrough'
  <2>1. SUFFICES ASSUME phase = "idle"
                 PROVE  alarm' # Off /\ \A b \in timers \cup {a} : alarm' <= WaitFor(heap'[b].due)
    BY <1>1 DEF NotSleptThrough
  <2>2. CASE EarliestChanged(a)
    <3>1. alarm' = WaitFor(heap'[a].due)
      BY <2>2 DEF AddTimerInLoop
    <3>2. \A b \in timers : heap'[a].due < heap[b].due
      BY <2>2 DEF EarliestChanged
    <3>3. alarm' \in Int /\ alarm' >= 1
      BY <1>3, <1>6, <3>1
    <3>4. \A b \in timers : alarm' <= WaitFor(heap[b].due)
      BY <1>3, <1>6, <1>7, <1>8, <3>1, <3>2
    <3>5. QED
      BY <3>1, <3>3, <3>4 DEF Off
  <2>3. CASE ~EarliestChanged(a)
    <3>1. alarm' = alarm
      BY <2>3 DEF AddTimerInLoop
    <3>2. PICK b \in timers : ~(heap'[a].due < heap[b].due)
      BY <2>3 DEF EarliestChanged
    <3>3. alarm # Off /\ \A c \in timers : alarm <= WaitFor(heap[c].due)
      BY <2>1, <3>2 DEF TimerInv, NotSleptThrough
    <3>4. alarm <= WaitFor(heap[b].due)
      BY <3>3
    <3>5. alarm <= WaitFor(heap'[a].due)
      BY <1>3, <1>5, <1>6, <1>7, <1>8, <3>2, <3>4
    <3>6. QED
      BY <3>1, <3>3, <3>5
  <2>4. QED
    BY <2>2, <2>3
<1>11. QED
  BY <1>1, <1>2, <1>9, <1>10

(* cancelInLoop: the Timer is deleted, or noted when it is in the batch,   *)
(* or gone already; the sequence tells it from a later one at its address, *)
(* but for an id that was made too late.                                   *)
LEMMA CancelledInLoop ==
  ASSUME TimerInv, NEW tid \in GivenIds, tid.late => Gone(tid.id), CancelInLoop(tid),
         created' = created, setBacks' = setBacks, phase' = phase, alarm' = alarm,
         expired' = expired, Queued' = Queued
  PROVE  /\ HeapInv' /\ OwnedOnce' /\ SameTimers' /\ StopInv' /\ NotSleptThrough'
         /\ timers' \in SUBSET Addrs /\ canceling' \in SUBSET ActiveTimers
<1> DEFINE at == tid.addr
<1>1. at \in Addrs /\ (tid.seq = tid.id \/ tid.late) /\ tid.seq \in Ids /\ tid \in TimerIds
  BY DEF GivenIds, TimerIds
<1>2. \A a \in Allocated : a \in Addrs /\ heap[a].seq = heap[a].id /\ heap[a].id \in 1..created
  BY ObjectAt DEF TimerInv
<1>3. \A a, b \in Allocated : heap[a].id = heap[b].id => a = b
  BY DEF TimerInv, HeapInv
<1>4. Allocated = timers \cup expired \cup Queued /\ timers \cap expired = {}
      /\ timers \cap Queued = {} /\ expired \cap Queued = {}
  BY DEF TimerInv, OwnedOnce
<1>5. active = {<<a, heap[a].seq>> : a \in timers}
  BY DEF TimerInv, SameTimers
<1>6. stopped \subseteq 1..created
      /\ \A a \in Allocated : heap[a].id \in stopped => a \in expired /\ <<a, heap[a].seq>> \in canceling
  BY DEF TimerInv, StopInv
<1>10. \A a \in Allocated : heap[a].id = tid.id => tid.seq = tid.id
  BY <1>1 DEF Gone
<1>11. mistaken' \in SUBSET TimerIds /\ \A other \in mistaken' : other.late
  <2>1. HitsAnother(tid) => tid.late
    BY <1>1, <1>2, <1>4 DEF HitsAnother
  <2>2. mistaken \in SUBSET TimerIds /\ \A other \in mistaken : other.late
    BY DEF TimerInv, StopInv
  <2>3. mistaken' = IF HitsAnother(tid) THEN mistaken \cup {tid} ELSE mistaken
    BY DEF CancelInLoop
  <2>4. QED
    BY <1>1, <2>1, <2>2, <2>3
<1>7. CASE <<at, tid.seq>> \in active
  <2>1. at \in timers /\ heap[at].seq = tid.seq
    BY <1>5, <1>7
  <2>2. at \in Allocated
    BY <1>4, <2>1
  <2>3. /\ timers' = timers \ {at} /\ active' = active \ {<<at, tid.seq>>}
        /\ heap' = [heap EXCEPT ![at] = Free] /\ canceling' = canceling
        /\ stopped' = IF heap[at].id = tid.id THEN stopped \cup {tid.id} ELSE stopped
    BY <1>7, <2>1, <2>2 DEF CancelInLoop
  <2>4. heap \in [Addrs -> Objects \cup {Free}] /\ Objects' = Objects
    BY DEF TimerInv, HeapInv, Objects
  <2>5. heap'[at] = Free /\ \A b \in Addrs \ {at} : heap'[b] = heap[b]
    BY <1>1, <2>3, <2>4
  <2>6. heap' \in [Addrs -> Objects' \cup {Free}]
    BY <2>3, <2>4
  <2>7. Allocated' = Allocated \ {at}
    BY <1>1, <2>5 DEF Allocated
  <2>8. HeapInv'
    BY <1>2, <1>3, <2>5, <2>6, <2>7 DEF TimerInv, HeapInv
  <2>9. OwnedOnce'
    BY <1>4, <2>1, <2>3, <2>7 DEF OwnedOnce
  <2>10. \A b \in timers' : b \in timers /\ b # at /\ b \in Addrs /\ heap'[b] = heap[b]
    BY <1>2, <1>4, <2>3, <2>5
  <2>11. SameTimers'
    <3>1. active' = {<<a, heap[a].seq>> : a \in timers \ {at}}
      BY <1>5, <2>1, <2>3
    <3>2. QED
      BY <2>3, <2>10, <3>1 DEF SameTimers
  <2>12. StopInv'
    <3>1. stopped' = stopped \/ (heap[at].id = tid.id /\ stopped' = stopped \cup {tid.id})
      BY <2>3
    <3>3. \A a \in Allocated' : a \in Allocated /\ heap'[a] = heap[a] /\ heap[a].id # heap[at].id
      BY <1>2, <1>3, <2>2, <2>5, <2>7
    <3>4. QED
      <4>1. stopped' \in SUBSET (1..created')
        BY <1>2, <1>6, <2>2, <3>1
      <4>2. \A a \in Allocated' : heap'[a].id \in stopped'
                => a \in expired' /\ <<a, heap'[a].seq>> \in canceling'
        <5>1. SUFFICES ASSUME NEW a \in Allocated', heap'[a].id \in stopped'
                       PROVE  a \in expired /\ <<a, heap'[a].seq>> \in canceling
          BY <2>3
        <5>2. a \in Allocated /\ heap'[a] = heap[a] /\ heap[a].id \in stopped
          BY <3>1, <3>3, <5>1
        <5>3. QED
          BY <1>6, <5>2
      <4>3. QED
        BY <1>11, <4>1, <4>2 DEF StopInv
  <2>13. NotSleptThrough'
    <3>1. \A b \in timers' : WaitFor(heap'[b].due) = WaitFor(heap[b].due)
      BY <2>10
    <3>2. QED
      BY <2>10, <3>1 DEF TimerInv, NotSleptThrough
  <2>14. QED
    BY <2>3, <2>8, <2>9, <2>11, <2>12, <2>13 DEF TimerInv, RoundInv
<1>8. CASE <<at, tid.seq>> \notin active
  <2>1. /\ NoteSelfCancel(tid) /\ timers' = timers /\ active' = active /\ heap' = heap
        /\ stopped' = IF heap[at].id = tid.id /\ at \in timers \cup expired
                      THEN stopped \cup {tid.id} ELSE stopped
    BY <1>8 DEF CancelInLoop
  <2>2. canceling \subseteq canceling' /\ canceling' \subseteq canceling \cup {<<at, tid.seq>>}
    BY <2>1 DEF NoteSelfCancel
  <2>3. Allocated' = Allocated
    BY <2>1 DEF Allocated
  <2>4. HeapInv'
    BY <2>1, <2>3 DEF TimerInv, HeapInv, Objects
  <2>5. OwnedOnce' /\ SameTimers' /\ NotSleptThrough'
    BY <2>1, <2>3 DEF TimerInv, OwnedOnce, SameTimers, NotSleptThrough, WaitFor
  <2>6. StopInv'
    <3>1. CASE heap[at].id = tid.id /\ at \in timers \cup expired
      <4>1. at \in Allocated /\ heap[at].seq = tid.seq /\ tid.id \in 1..created
        BY <1>2, <1>4, <1>10, <3>1
      <4>2. at \notin timers
        BY <1>5, <1>8, <4>1
      <4>3. at \in expired /\ phase # "idle"
        BY <3>1, <4>2 DEF TimerInv, RoundInv
      <4>4. <<at, heap[at].seq>> \in canceling'
        BY <2>1, <4>1, <4>3 DEF NoteSelfCancel
      <4>5. \A a \in Allocated : heap[a].id = tid.id => a = at
        BY <1>3, <3>1, <4>1
      <4>6. stopped' = stopped \cup {tid.id}
        BY <2>1, <3>1
      <4>7. QED
        BY <1>6, <1>11, <2>1, <2>2, <2>3, <4>1, <4>3, <4>4, <4>5, <4>6 DEF StopInv
    <3>2. CASE ~(heap[at].id = tid.id /\ at \in timers \cup expired)
      <4>1. stopped' = stopped
        BY <2>1, <3>2
      <4>2. QED
        BY <1>6, <1>11, <2>1, <2>2, <2>3, <4>1 DEF StopInv
    <3>3. QED
      BY <3>1, <3>2
  <2>7. canceling' \in SUBSET ActiveTimers /\ timers' \in SUBSET Addrs
    <3>1. <<at, tid.seq>> \in ActiveTimers
      BY <1>1 DEF ActiveTimers
    <3>2. QED
      BY <2>1, <2>2, <3>1 DEF TimerInv, RoundInv
  <2>8. QED
    BY <2>4, <2>5, <2>6, <2>7
<1>9. QED
  BY <1>7, <1>8
-----------------------------------------------------------------------------
(* Each action keeps the invariant.                                        *)

(* Timers elsewhere in the heap: the invariants that only look at them.    *)
LEMMA StopKept ==
  ASSUME TimerInv, created' \in Int, created <= created',
         NEW new, Allocated' = Allocated \cup {new}, heap'[new].id = created + 1,
         \A a \in Allocated : heap'[a].id = heap[a].id /\ heap'[a].seq = heap[a].seq,
         UNCHANGED <<expired, canceling, stopped, mistaken>>
  PROVE  StopInv'
<1>1. stopped \subseteq 1..created /\ created \in Int
      /\ mistaken \in SUBSET TimerIds /\ (\A tid \in mistaken : tid.late)
      /\ \A a \in Allocated : heap[a].id \in stopped => a \in expired /\ <<a, heap[a].seq>> \in canceling
  BY DEF TimerInv, StopInv, HeapInv
<1>2. created + 1 \notin stopped
  <2>1. created + 1 \notin 1..created
    BY <1>1
  <2>2. QED
    BY <1>1, <2>1
<1>3. stopped \subseteq 1..created'
  <2>1. 1..created \subseteq 1..created'
    BY <1>1
  <2>2. QED
    BY <1>1, <2>1
<1>4. ASSUME NEW a \in Allocated', heap'[a].id \in stopped
      PROVE  a \in expired /\ <<a, heap'[a].seq>> \in canceling
  <2>1. a \in Allocated
    BY <1>2, <1>4
  <2>2. QED
    BY <1>1, <1>4, <2>1
<1>5. QED
  BY <1>1, <1>3, <1>4 DEF StopInv

(* addTimer on the loop thread.                                            *)
LEMMA AddTimerKeeps ==
  ASSUME TimerInv, AddTimer
  PROVE  TimerInv'
<1>1. PICK a \in Addrs, delay \in Delays, interval \in Intervals :
           NewTimer(a, delay, interval) /\ AddTimerInLoop(a) /\ ids' = ids \cup {TimerId(a)}
  BY DEF AddTimer
<1>2. UNCHANGED <<pending, adding, setBacks, stopped, mistaken, canceling, expired, toRun, phase, lag>>
  BY DEF AddTimer, batchVars
<1>3. HeapInv
  BY DEF TimerInv
<1>4. /\ HeapInv'
      /\ a \notin Allocated /\ Allocated' = Allocated \cup {a}
      /\ heap'[a].seq = heap'[a].id /\ heap'[a].id = created + 1
      /\ \A b \in Addrs \ {a} : heap'[b] = heap[b]
      /\ created' = created + 1 /\ created + 1 \in Ids
  BY <1>1, <1>2, <1>3, NewTimerIs
<1>5. Allocated = timers \cup expired \cup Queued /\ timers \cap expired = {}
      /\ timers \cap Queued = {} /\ expired \cap Queued = {}
  BY DEF TimerInv, OwnedOnce
<1>6. Allocated \subseteq Addrs /\ \A b \in Allocated : heap'[b] = heap[b]
  BY <1>4 DEF Allocated
<1>7. timers' = timers \cup {a} /\ SameTimers' /\ alarm' \in Off..MaxWait /\ NotSleptThrough'
  <2>1. a \notin timers /\ a \in Allocated' /\ timers \subseteq Allocated' /\ phase' = phase
        /\ \A b \in timers : heap'[b] = heap[b]
    BY <1>2, <1>4, <1>5, <1>6
  <2>2. QED
    BY <1>1, <1>4, <2>1, AddedInLoop
<1>8. OwnedOnce'
  <2>1. Queued' = Queued
    BY <1>2 DEF Queued
  <2>2. QED
    BY <1>2, <1>4, <1>5, <1>7, <2>1 DEF OwnedOnce
<1>9. CallsInv'
  <2>1. TimerId(a) \in GivenIds
    BY <1>4 DEF TimerId, GivenIds, TimerIds
  <2>2. QED
    BY <1>1, <1>2, <2>1 DEF TimerInv, CallsInv
<1>10. RoundInv'
  BY <1>2, <1>7 DEF TimerInv, RoundInv
<1>11. StopInv'
  <2>1. created' \in Int /\ created <= created'
    BY <1>3, <1>4 DEF HeapInv
  <2>2. QED
    BY <1>2, <1>4, <1>6, <2>1, StopKept
<1>12. QED
  BY <1>4, <1>7, <1>8, <1>9, <1>10, <1>11 DEF TimerInv

(* cancel on the loop thread.                                              *)
LEMMA CancelKeeps ==
  ASSUME TimerInv, GoneInv, Cancel
  PROVE  TimerInv'
<1>1. PICK tid \in ids : CancelInLoop(tid)
  BY DEF Cancel
<1>2. UNCHANGED <<expired, toRun, phase, lag, alarm, pending, adding, ids, created, setBacks>>
  BY DEF Cancel
<1>3. tid \in GivenIds /\ (tid.late => Gone(tid.id))
  BY DEF TimerInv, CallsInv, GoneInv
<1>4. Queued' = Queued
  BY <1>2 DEF Queued
<1>5. /\ HeapInv' /\ OwnedOnce' /\ SameTimers' /\ StopInv' /\ NotSleptThrough'
      /\ timers' \in SUBSET Addrs /\ canceling' \in SUBSET ActiveTimers
  BY <1>1, <1>2, <1>3, <1>4, CancelledInLoop
<1>6. CallsInv'
  BY <1>2 DEF TimerInv, CallsInv
<1>7. RoundInv'
  BY <1>2, <1>5 DEF TimerInv, RoundInv
<1>8. QED
  BY <1>5, <1>6, <1>7 DEF TimerInv

(* addTimer on another thread: the Timer is made there.                    *)
LEMMA QueueAddKeeps ==
  ASSUME TimerInv, NEW c \in Callers, QueueAdd(c)
  PROVE  TimerInv'
<1>1. PICK a \in Addrs, delay \in Delays, interval \in Intervals :
           /\ NewTimer(a, delay, interval) /\ pending' = Append(pending, <<"add", a>>)
           /\ adding' = [adding EXCEPT ![c] = [addr |-> a, id |-> created + 1]]
  BY DEF QueueAdd
<1>2. UNCHANGED <<ids, timers, active, alarm, setBacks, stopped, mistaken,
                  canceling, expired, toRun, phase, lag>>
  BY DEF QueueAdd, batchVars
<1>3. HeapInv
  BY DEF TimerInv
<1>4. /\ HeapInv'
      /\ a \notin Allocated /\ Allocated' = Allocated \cup {a}
      /\ heap'[a].seq = heap'[a].id /\ heap'[a].id = created + 1
      /\ \A b \in Addrs \ {a} : heap'[b] = heap[b]
      /\ created' = created + 1 /\ created + 1 \in Ids
  BY <1>1, <1>2, <1>3, NewTimerIs
<1>5. Allocated = timers \cup expired \cup Queued /\ timers \cap expired = {}
      /\ timers \cap Queued = {} /\ expired \cap Queued = {}
  BY DEF TimerInv, OwnedOnce
<1>6. Allocated \subseteq Addrs /\ \A b \in Allocated : heap'[b] = heap[b]
  BY <1>4 DEF Allocated
<1>7. /\ pending' \in Seq(Functors) /\ AddsOnce(pending')
      /\ Queued' = Queued \cup {a}
  <2> DEFINE f == <<"add", a>>
  <2>1. f \in Functors /\ f[1] = "add" /\ f[2] = a /\ pending' = Append(pending, f)
    BY <1>1 DEF Functors
  <2> HIDE DEF f
  <2>2. Queued = QueuedIn(pending) /\ Queued' = QueuedIn(pending')
    BY DEF Queued, QueuedIn
  <2>3. a \notin QueuedIn(pending)
    BY <1>4, <1>5, <2>2
  <2>4. pending \in Seq(Functors) /\ AddsOnce(pending)
    BY DEF TimerInv, CallsInv
  <2>5. /\ Append(pending, f) \in Seq(Functors) /\ AddsOnce(Append(pending, f))
        /\ QueuedIn(Append(pending, f)) = QueuedIn(pending) \cup {f[2]}
    BY <2>1, <2>3, <2>4, QueuedAppend
  <2>6. QED
    BY <2>1, <2>2, <2>5
<1>8. CallsInv'
  <2>1. [addr |-> a, id |-> created + 1] \in [addr : Addrs, id : Ids]
    BY <1>4
  <2>2. adding' \in [Callers -> {Nobody} \cup [addr : Addrs, id : Ids]]
    BY <1>1, <2>1 DEF TimerInv, CallsInv
  <2>3. QED
    BY <1>2, <1>7, <2>2 DEF TimerInv, CallsInv
<1>9. RoundInv'
  BY <1>2 DEF TimerInv, RoundInv
<1>10. OwnedOnce'
  BY <1>2, <1>4, <1>5, <1>7 DEF OwnedOnce
<1>11. \A b \in timers : heap'[b] = heap[b]
  BY <1>5, <1>6
<1>12. SameTimers'
  BY <1>2, <1>11 DEF TimerInv, SameTimers
<1>13. NotSleptThrough'
  BY <1>2, <1>11 DEF TimerInv, NotSleptThrough, WaitFor
<1>14. StopInv'
  <2>1. created' \in Int /\ created <= created'
    BY <1>3, <1>4 DEF HeapInv
  <2>2. QED
    BY <1>2, <1>4, <1>6, <2>1, StopKept
<1>15. QED
  BY <1>4, <1>8, <1>9, <1>10, <1>12, <1>13, <1>14 DEF TimerInv

(* addTimer returns there: the Timer is still the one it made, or the      *)
(* TimerId is a late one.                                                  *)
LEMMA ReturnIdKeeps ==
  ASSUME TimerInv, NEW c \in Callers, ReturnId(c)
  PROVE  TimerInv'
<1> DEFINE mine == adding[c]
           returned(seq) == [addr |-> mine.addr, id |-> mine.id, seq |-> seq,
                             late |-> heap[mine.addr].id # mine.id]
<1>1. mine # Nobody /\ \E seq \in SequenceAt(mine.addr) : ids' = ids \cup {returned(seq)}
  BY DEF ReturnId
<1>2. UNCHANGED <<heap, timers, active, alarm, pending, created, setBacks, stopped, mistaken,
                  canceling, expired, toRun, phase, lag>>
  BY DEF ReturnId, batchVars
<1>3. mine \in [addr : Addrs, id : Ids]
  BY <1>1 DEF TimerInv, CallsInv
<1>4. HeapInv
  BY DEF TimerInv
<1>5. PICK seq \in SequenceAt(mine.addr) : ids' = ids \cup {returned(seq)}
  BY <1>1
<1>6. seq \in Ids /\ (heap[mine.addr].id = mine.id => seq = mine.id)
  <2>1. CASE heap[mine.addr] = Free
    <3>1. seq \in Ids /\ mine.id \in Ids /\ heap[mine.addr].id = 0
      BY <1>3, <2>1 DEF SequenceAt, Ids, Free
    <3>2. mine.id # 0
      BY <3>1 DEF Ids
    <3>3. QED
      BY <3>1, <3>2
  <2>2. CASE heap[mine.addr] # Free
    <3>1. mine.addr \in Allocated
      BY <1>3, <2>2 DEF Allocated
    <3>2. heap[mine.addr].seq = heap[mine.addr].id /\ heap[mine.addr].seq \in Ids
      <4>1. heap[mine.addr].seq = heap[mine.addr].id /\ heap[mine.addr].id \in 1..created
        BY <1>4, <3>1, ObjectAt
      <4>2. 1..created \subseteq Ids
        BY <1>4, TimerAssumption DEF HeapInv, Ids
      <4>3. QED
        BY <4>1, <4>2
    <3>3. seq = heap[mine.addr].seq
      BY <2>2 DEF SequenceAt
    <3>4. QED
      BY <3>2, <3>3
  <2>3. QED
    BY <2>1, <2>2
<1>7. ids' \in SUBSET GivenIds
  <2>1. returned(seq) \in GivenIds
    BY <1>3, <1>6 DEF GivenIds, TimerIds
  <2>2. QED
    BY <1>5, <2>1 DEF TimerInv, CallsInv
<1>8. adding' = [adding EXCEPT ![c] = Nobody]
  BY DEF ReturnId
<1>9. CallsInv'
  BY <1>2, <1>7, <1>8 DEF TimerInv, CallsInv
<1>10. HeapInv' /\ RoundInv' /\ OwnedOnce' /\ SameTimers' /\ StopInv' /\ NotSleptThrough'
  BY <1>2 DEF TimerInv, HeapInv, RoundInv, OwnedOnce, SameTimers, StopInv, NotSleptThrough,
              Allocated, Objects, Queued, WaitFor
<1>11. QED
  BY <1>9, <1>10 DEF TimerInv

(* cancel on another thread.                                               *)
LEMMA QueueCancelKeeps ==
  ASSUME TimerInv, QueueCancel
  PROVE  TimerInv'
<1>1. PICK tid \in ids : pending' = Append(pending, <<"cancel", tid>>)
  BY DEF QueueCancel
<1>2. UNCHANGED <<heap, timers, active, alarm, adding, ids, created, setBacks, stopped, mistaken,
                  canceling, expired, toRun, phase, lag>>
  BY DEF QueueCancel, batchVars
<1>3. /\ pending' \in Seq(Functors) /\ AddsOnce(pending') /\ Queued' = Queued
  <2>1. tid \in GivenIds
    BY DEF TimerInv, CallsInv
  <2> DEFINE f == <<"cancel", tid>>
  <2>2. f \in Functors /\ f[1] # "add" /\ pending' = Append(pending, f)
    BY <1>1, <2>1 DEF Functors
  <2> HIDE DEF f
  <2>3. Queued = QueuedIn(pending) /\ Queued' = QueuedIn(pending')
    BY DEF Queued, QueuedIn
  <2>4. pending \in Seq(Functors) /\ AddsOnce(pending)
    BY DEF TimerInv, CallsInv
  <2>5. /\ Append(pending, f) \in Seq(Functors) /\ AddsOnce(Append(pending, f))
        /\ QueuedIn(Append(pending, f)) = QueuedIn(pending)
    BY <2>2, <2>4, QueuedAppend
  <2>6. QED
    BY <2>2, <2>3, <2>5
<1>4. CallsInv'
  BY <1>2, <1>3 DEF TimerInv, CallsInv
<1>5. HeapInv' /\ RoundInv' /\ OwnedOnce' /\ SameTimers' /\ StopInv' /\ NotSleptThrough'
  BY <1>2, <1>3 DEF TimerInv, HeapInv, RoundInv, OwnedOnce, SameTimers, StopInv, NotSleptThrough,
                    Allocated, Objects, WaitFor
<1>6. QED
  BY <1>4, <1>5 DEF TimerInv

(* A queued functor.                                                       *)
LEMMA RunPendingKeeps ==
  ASSUME TimerInv, GoneInv, RunPending
  PROVE  TimerInv'
<1> DEFINE f == Head(pending)
<1>1. /\ pending # <<>> /\ pending' = Tail(pending)
      /\ UNCHANGED <<expired, toRun, phase, lag, adding, ids, created, setBacks>>
  BY DEF RunPending
<1>2. \/ /\ f[1] = "add" /\ heap' = heap /\ AddTimerInLoop(f[2])
         /\ UNCHANGED <<canceling, stopped, mistaken>>
      \/ f[1] = "cancel" /\ CancelInLoop(f[2]) /\ alarm' = alarm
  BY DEF RunPending
<1>3. pending \in Seq(Functors) /\ AddsOnce(pending)
  BY DEF TimerInv, CallsInv
<1>4. Queued = QueuedIn(pending) /\ Queued' = QueuedIn(pending')
  BY DEF Queued, QueuedIn
<1>5. /\ f \in Functors /\ pending' \in Seq(Functors) /\ AddsOnce(pending')
      /\ f[1] = "add" => f[2] \in Queued /\ Queued' = Queued \ {f[2]}
      /\ f[1] = "cancel" => Queued' = Queued
  BY <1>1, <1>3, <1>4, QueuedTail
<1>6. (f[1] = "add" => f[2] \in Addrs) /\ (f[1] = "cancel" => f[2] \in GivenIds)
  BY <1>5, FunctorIs
<1>11. f[1] = "cancel" /\ f[2].late => Gone(f[2].id)
  <2>1. 1 \in 1..Len(pending) /\ f = pending[1]
    BY <1>1, <1>3
  <2>2. QED
    BY <2>1 DEF GoneInv
<1> HIDE DEF f
<1>7. CallsInv'
  BY <1>1, <1>5 DEF TimerInv, CallsInv
<1>8. CASE f[1] = "add"
  <2>1. /\ heap' = heap /\ AddTimerInLoop(f[2]) /\ f[2] \in Addrs
        /\ UNCHANGED <<canceling, stopped, mistaken>>
    BY <1>2, <1>6, <1>8
  <2>2. Allocated' = Allocated
    BY <2>1 DEF Allocated
  <2>3. HeapInv'
    BY <1>1, <2>1, <2>2 DEF TimerInv, HeapInv, Objects
  <2>4. Allocated = timers \cup expired \cup Queued /\ timers \cap expired = {}
        /\ timers \cap Queued = {} /\ expired \cap Queued = {}
    BY DEF TimerInv, OwnedOnce
  <2>5. f[2] \in Queued /\ Queued' = Queued \ {f[2]}
    BY <1>5, <1>8
  <2>6. timers' = timers \cup {f[2]} /\ SameTimers' /\ alarm' \in Off..MaxWait /\ NotSleptThrough'
    <3>1. f[2] \notin timers /\ f[2] \in Allocated' /\ timers \subseteq Allocated' /\ phase' = phase
          /\ \A b \in timers : heap'[b] = heap[b]
      BY <1>1, <2>1, <2>2, <2>4, <2>5
    <3>2. QED
      BY <2>1, <2>3, <3>1, AddedInLoop
  <2>7. OwnedOnce'
    BY <1>1, <2>2, <2>4, <2>5, <2>6 DEF OwnedOnce
  <2>8. RoundInv'
    BY <1>1, <2>1, <2>6 DEF TimerInv, RoundInv
  <2>9. StopInv'
    BY <1>1, <2>1, <2>2 DEF TimerInv, StopInv
  <2>10. QED
    BY <1>7, <2>3, <2>6, <2>7, <2>8, <2>9 DEF TimerInv
<1>9. CASE f[1] = "cancel"
  <2>1. CancelInLoop(f[2]) /\ alarm' = alarm /\ f[2] \in GivenIds /\ Queued' = Queued
        /\ (f[2].late => Gone(f[2].id))
    BY <1>2, <1>5, <1>6, <1>9, <1>11
  <2>2. /\ HeapInv' /\ OwnedOnce' /\ SameTimers' /\ StopInv' /\ NotSleptThrough'
        /\ timers' \in SUBSET Addrs /\ canceling' \in SUBSET ActiveTimers
    BY <1>1, <2>1, CancelledInLoop
  <2>3. RoundInv'
    BY <1>1, <2>1, <2>2 DEF TimerInv, RoundInv
  <2>4. QED
    BY <1>7, <2>2, <2>3 DEF TimerInv
<1>10. QED
  BY <1>2, <1>8, <1>9

(* handleRead takes what has expired out of both sets.                     *)
LEMMA HandleReadKeeps ==
  ASSUME TimerInv, HandleRead
  PROVE  TimerInv'
<1>1. /\ phase = "idle" /\ alarm' = Off /\ expired' \subseteq timers
      /\ timers' = timers \ expired' /\ active' = StillActive(expired')
      /\ canceling' = {} /\ toRun' = expired' /\ phase' = "batch" /\ lag' = 0
      /\ UNCHANGED <<heap, pending, adding, ids, created, setBacks, stopped, mistaken>>
  BY DEF HandleRead
<1>2. expired = {}
  BY <1>1 DEF TimerInv, RoundInv
<1>3. Allocated' = Allocated /\ Queued' = Queued
  BY <1>1 DEF Allocated, Queued
<1>4. HeapInv' /\ CallsInv'
  BY <1>1, <1>3 DEF TimerInv, HeapInv, Objects, CallsInv
<1>5. RoundInv'
  <2>1. MaxWait \in Nat
    BY MaxWaitIs DEF TimerInv, HeapInv
  <2>2. Off \in Off..MaxWait
    BY <2>1 DEF Off
  <2>3. QED
    BY <1>1, <2>2 DEF TimerInv, RoundInv
<1>6. OwnedOnce'
  <2>1. Allocated = timers \cup expired \cup Queued /\ timers \cap expired = {}
        /\ timers \cap Queued = {} /\ expired \cap Queued = {}
    BY DEF TimerInv, OwnedOnce
  <2>2. timers' \cup expired' = timers /\ timers' \cap expired' = {}
    BY <1>1
  <2>3. QED
    BY <1>1, <1>2, <1>3, <2>1, <2>2 DEF OwnedOnce
<1>7. SameTimers'
  <2>1. active = {<<a, heap[a].seq>> : a \in timers}
    BY DEF TimerInv, SameTimers
  <2>2. {t \in active : t[1] \notin expired'} = {<<a, heap[a].seq>> : a \in timers \ expired'}
    BY <2>1
  <2>3. QED
    BY <1>1, <2>2 DEF StillActive, SameTimers
<1>8. StopInv'
  BY <1>1, <1>2, <1>3 DEF TimerInv, StopInv
<1>9. NotSleptThrough'
  BY <1>1 DEF NotSleptThrough
<1>10. QED
  BY <1>4, <1>5, <1>6, <1>7, <1>8, <1>9 DEF TimerInv

(* The callbacks of the batch begin and end.                               *)
LEMMA CallbackKeeps ==
  ASSUME TimerInv, RunCallback \/ CallbackReturns
  PROVE  TimerInv'
<1>1. /\ phase' \in {"batch", "callback"} /\ toRun' \in SUBSET expired
      /\ UNCHANGED <<heap, timers, active, canceling, expired, lag, alarm, pending, adding,
                     ids, created, setBacks, stopped, mistaken>>
  BY DEF RunCallback, CallbackReturns, TimerInv, RoundInv
<1>2. Allocated' = Allocated /\ Queued' = Queued
  BY <1>1 DEF Allocated, Queued
<1>3. HeapInv' /\ CallsInv' /\ RoundInv'
  BY <1>1, <1>2 DEF TimerInv, HeapInv, Objects, CallsInv, RoundInv
<1>4. OwnedOnce' /\ SameTimers' /\ StopInv' /\ NotSleptThrough'
  BY <1>1, <1>2 DEF TimerInv, OwnedOnce, SameTimers, StopInv, NotSleptThrough
<1>5. QED
  BY <1>3, <1>4 DEF TimerInv

(* reset: the batch is put back or deleted, and the timerfd is armed for   *)
(* the earliest of the timers there are then.                              *)
LEMMA ResetKeeps ==
  ASSUME TimerInv, Reset
  PROVE  TimerInv'
<1> DEFINE again == {a \in expired : Restarts(a)}
           gone == expired \ again
<1>1. /\ phase = "batch" /\ toRun = {} /\ Reclaimed(again)
      /\ timers' = timers \cup again /\ active' = active \cup {<<a, heap[a].seq>> : a \in again}
      /\ Rearm /\ expired' = {} /\ phase' = "idle" /\ lag' = 0
      /\ UNCHANGED <<canceling, toRun, pending, adding, ids, created, setBacks, stopped, mistaken>>
  BY DEF Reset
<1>2. Allocated = timers \cup expired \cup Queued /\ timers \cap expired = {}
      /\ timers \cap Queued = {} /\ expired \cap Queued = {}
  BY DEF TimerInv, OwnedOnce
<1>3. \A a \in Allocated : /\ a \in Addrs /\ heap[a] \in Objects /\ heap[a] # Free
                           /\ heap[a].seq = heap[a].id /\ heap[a].interval \in Intervals
  BY ObjectAt DEF TimerInv, Allocated
<1>4. \A a \in again : heap[a].interval > 0 /\ <<a, heap[a].seq>> \notin canceling
  BY DEF Restarts
<1>5. Queued' = Queued /\ Objects' = Objects
  BY <1>1 DEF Queued, Objects
<1>6. heap' = [a \in Addrs |-> IF a \in again THEN [heap[a] EXCEPT !.due = heap[a].interval - lag]
                              ELSE IF a \in expired THEN Free ELSE heap[a]]
  BY <1>1 DEF Reclaimed
<1>7. again \subseteq expired
  OBVIOUS
<1> HIDE DEF again
<1>8. ASSUME NEW a \in again
      PROVE  /\ heap'[a] \in Objects /\ heap'[a] # Free
             /\ heap'[a].id = heap[a].id /\ heap'[a].seq = heap[a].seq
             /\ heap'[a].due = heap[a].interval - lag
  <2>1. a \in Addrs /\ heap[a] \in Objects /\ heap[a].interval \in Intervals
    BY <1>2, <1>3, <1>7
  <2>2. heap[a].interval - lag \in Floor..(Longest + setBacks)
    <3>1. heap[a].interval \in Nat /\ heap[a].interval >= 1 /\ heap[a].interval <= Longest
      <4>1. heap[a].interval \in Nat /\ heap[a].interval > 0
        BY <1>4, <2>1, TimerAssumption
      <4>2. heap[a].interval <= Longest
        BY <2>1, LongestIs
      <4>3. QED
        BY <4>1, <4>2
    <3>2. lag \in 0..1 /\ setBacks \in Nat /\ Longest \in Nat
      BY LongestIs DEF TimerInv, RoundInv, HeapInv
    <3>3. QED
      BY <3>1, <3>2 DEF Floor
  <2>3. heap'[a] = [heap[a] EXCEPT !.due = heap[a].interval - lag]
    BY <1>6, <2>1
  <2>4. heap'[a] \in Objects /\ heap'[a].id = heap[a].id /\ heap'[a].seq = heap[a].seq
        /\ heap'[a].due = heap[a].interval - lag
    BY <2>1, <2>2, <2>3 DEF Objects
  <2>5. heap'[a] # Free
    BY <2>4, FreeIsNoObject DEF TimerInv
  <2>6. QED
    BY <2>4, <2>5
<1>9. \A a \in Addrs \ again : a \in expired => heap'[a] = Free
  BY <1>6
<1>10. \A a \in Addrs \ expired : heap'[a] = heap[a]
  BY <1>6, <1>7
<1>11. Allocated' = Allocated \ gone
  <2>1. expired \subseteq Addrs
    BY DEF TimerInv, RoundInv
  <2>2. \A a \in Addrs : heap'[a] # Free <=> heap[a] # Free /\ a \notin gone
    <3>1. TAKE a \in Addrs
    <3>2. CASE a \in again
      BY <1>2, <1>3, <1>7, <1>8, <3>2
    <3>3. CASE a \in gone
      BY <1>9, <3>3
    <3>4. CASE a \notin expired
      BY <1>10, <3>4
    <3>5. QED
      BY <3>2, <3>3, <3>4
  <2>3. QED
    BY <2>2 DEF Allocated
<1>12. \A a \in Allocated' : a \in Allocated /\ heap'[a].id = heap[a].id /\ heap'[a].seq = heap[a].seq
  BY <1>3, <1>8, <1>10, <1>11
<1>13. HeapInv'
  <2>1. \A a \in Addrs : heap'[a] \in Objects \cup {Free}
    BY <1>8, <1>9, <1>10 DEF TimerInv, HeapInv
  <2>2. heap' \in [Addrs -> Objects' \cup {Free}]
    <3>1. heap' = [a \in Addrs |-> heap'[a]]
      BY <1>6
    <3>2. QED
      BY <1>5, <2>1, <3>1
  <2>3. QED
    BY <1>1, <1>12, <2>2 DEF TimerInv, HeapInv
<1>14. CallsInv'
  BY <1>1 DEF TimerInv, CallsInv
<1>15. OwnedOnce'
  BY <1>1, <1>2, <1>5, <1>7, <1>11 DEF OwnedOnce
<1>16. SameTimers'
  <2>1. active = {<<a, heap[a].seq>> : a \in timers}
    BY DEF TimerInv, SameTimers
  <2>2. active' = {<<a, heap[a].seq>> : a \in timers \cup again}
    BY <1>1, <2>1
  <2>3. \A a \in timers \cup again : heap'[a].seq = heap[a].seq
    BY <1>2, <1>3, <1>8, <1>10
  <2>4. QED
    BY <1>1, <2>2, <2>3 DEF SameTimers
<1>17. StopInv'
  <2>1. ASSUME NEW a \in Allocated', heap'[a].id \in stopped
        PROVE  FALSE
    <3>1. a \in Allocated /\ heap[a].id \in stopped
      BY <1>12, <2>1
    <3>2. a \in expired /\ <<a, heap[a].seq>> \in canceling
      BY <3>1 DEF TimerInv, StopInv
    <3>3. a \in gone
      BY <1>4, <3>2
    <3>4. QED
      BY <1>11, <3>3
  <2>2. QED
    BY <1>1, <2>1 DEF TimerInv, StopInv
<1>18. \A a \in timers' : heap'[a].due \in Floor..(Longest + setBacks)
  <2>1. timers' \subseteq Allocated'
    BY <1>15 DEF OwnedOnce
  <2>2. \A a \in Allocated' : heap'[a] \in Objects'
    BY <1>13 DEF HeapInv, Allocated
  <2>3. QED
    BY <1>5, <2>1, <2>2 DEF Objects
<1>19. \A a \in timers' : heap'[a].due \in Int /\ Floor <= heap'[a].due /\ heap'[a].due <= Longest + setBacks
  <2>1. Longest + setBacks \in Int /\ Floor \in Int
    BY LongestIs DEF TimerInv, HeapInv, Floor
  <2>2. QED
    BY <1>18, <2>1
<1>20. CASE timers' = {}
  <2>1. alarm' = alarm
    BY <1>1, <1>20 DEF Rearm
  <2>2. RoundInv' /\ NotSleptThrough'
    BY <1>1, <1>20, <2>1 DEF TimerInv, RoundInv, NotSleptThrough
  <2>3. QED
    BY <1>13, <1>14, <1>15, <1>16, <1>17, <2>2 DEF TimerInv
<1>21. CASE timers' # {}
  <2> DEFINE dues == {heap'[a].due : a \in timers'}
             first == Min(dues)
  <2>1. alarm' = WaitFor(first)
    BY <1>1, <1>21 DEF Rearm
  <2>2. first \in dues /\ \A due \in dues : first <= due
    <3>1. dues # {} /\ dues \subseteq Int /\ \A due \in dues : Floor <= due
      BY <1>19, <1>21
    <3>2. Floor \in Int
      BY DEF Floor
    <3> HIDE DEF dues
    <3>3. QED
      BY <3>1, <3>2, EarliestIs
  <2> HIDE DEF first
  <2>3. first \in Int /\ first <= Longest + setBacks /\ \A a \in timers' : first <= heap'[a].due
    BY <1>19, <2>2
  <2>4. alarm' \in 1..MaxWait
    BY <2>1, <2>3, AlarmIs DEF TimerInv, HeapInv
  <2>5. \A a \in timers' : alarm' <= WaitFor(heap'[a].due)
    <3>1. TAKE a \in timers'
    <3>2. heap'[a].due \in Int /\ first <= heap'[a].due
      BY <1>19, <2>3
    <3>3. WaitFor(heap'[a].due) = IF heap'[a].due >= 1 THEN heap'[a].due ELSE 1
      BY <3>2, WaitForIs
    <3>4. WaitFor(first) = IF first >= 1 THEN first ELSE 1
      BY <2>3, WaitForIs
    <3>5. QED
      BY <2>1, <2>3, <3>2, <3>3, <3>4
  <2>6. RoundInv' /\ NotSleptThrough'
    <3>1. alarm' # Off /\ alarm' \in Off..MaxWait
      BY <2>4 DEF Off
    <3>2. timers' \in SUBSET Addrs
      BY <1>1, <1>7 DEF TimerInv, RoundInv
    <3>3. QED
      BY <1>1, <2>5, <3>1, <3>2 DEF TimerInv, RoundInv, NotSleptThrough
  <2>7. QED
    BY <1>13, <1>14, <1>15, <1>16, <1>17, <2>6 DEF TimerInv
<1>22. QED
  BY <1>20, <1>21

(* Time passes: everything comes nearer by one, or is due already.         *)
LEMMA TickKeeps ==
  ASSUME TimerInv, Tick
  PROVE  TimerInv'
<1> DEFINE f == [a \in Addrs |-> IF heap[a] # Free THEN Max({heap[a].due - 1, Floor}) ELSE 0]
<1>1. /\ heap' = [a \in Addrs |-> IF heap[a] = Free THEN Free
                                 ELSE [heap[a] EXCEPT !.due = Max({@ - 1, Floor})]]
      /\ alarm' = IF alarm > 0 THEN alarm - 1 ELSE alarm
      /\ lag' = (IF phase = "idle" THEN 0 ELSE lag + 1) /\ (phase = "idle" \/ lag = 0)
      /\ UNCHANGED <<timers, active, canceling, expired, toRun, phase, pending, adding, ids,
                     created, setBacks, stopped, mistaken>>
  BY DEF Tick
<1>2. HeapInv /\ setBacks' \in 0..MaxSetBacks /\ created' = created /\ setBacks' = setBacks
  BY <1>1 DEF TimerInv, HeapInv
<1>3. heap' = [a \in Addrs |-> IF heap[a] = Free THEN Free ELSE [heap[a] EXCEPT !.due = f[a]]]
  BY <1>1
<1>4. \A a \in Allocated : a \in Addrs /\ heap[a] # Free
                           /\ heap[a].due \in Floor..(Longest + setBacks) /\ heap[a].due \in Int
  BY <1>2, ObjectAt DEF Allocated
<1>5. \A a \in Allocated : f[a] = IF heap[a].due > Floor THEN heap[a].due - 1 ELSE Floor
  <2>1. SUFFICES ASSUME NEW a \in Allocated
                 PROVE  f[a] = IF heap[a].due > Floor THEN heap[a].due - 1 ELSE Floor
    OBVIOUS
  <2>2. f[a] = Max({heap[a].due - 1, Floor})
    BY <1>4
  <2>3. heap[a].due \in Int /\ heap[a].due >= Floor
    BY <1>4 DEF Floor
  <2>4. QED
    BY <2>2, <2>3, Nearer
<1>6. \A a \in Allocated : f[a] \in Floor..(Longest + setBacks')
  <2>1. Longest + setBacks \in Int /\ Longest + setBacks >= 0
    BY <1>2, LongestIs DEF HeapInv
  <2>2. ASSUME NEW a \in Allocated
        PROVE  f[a] \in Floor..(Longest + setBacks)
    <3>1. heap[a].due \in Floor..(Longest + setBacks) /\ heap[a].due \in Int
          /\ f[a] = IF heap[a].due > Floor THEN heap[a].due - 1 ELSE Floor
      BY <1>4, <1>5
    <3> HIDE DEF f
    <3>2. QED
      BY <2>1, <3>1 DEF Floor
  <2>3. QED
    BY <1>2, <2>2
<1>7. f \in [Addrs -> Int]
  <2>1. ASSUME NEW a \in Addrs
        PROVE  f[a] \in Int
    <3>1. CASE heap[a] = Free
      BY <3>1
    <3>2. CASE heap[a] # Free
      BY <1>4, <1>5, <3>2 DEF Allocated, Floor
    <3>3. QED
      BY <3>1, <3>2
  <2>2. QED
    BY <2>1
<1> HIDE DEF f
<1>8. /\ HeapInv' /\ Allocated' = Allocated
      /\ \A a \in Allocated : heap'[a].due = f[a] /\ heap'[a].id = heap[a].id /\ heap'[a].seq = heap[a].seq
  BY <1>2, <1>3, <1>6, <1>7, SameObjects
<1>9. Allocated = timers \cup expired \cup Queued
  BY DEF TimerInv, OwnedOnce
<1>10. Queued' = Queued
  BY <1>1 DEF Queued
<1>11. OwnedOnce'
  BY <1>1, <1>8, <1>10 DEF TimerInv, OwnedOnce
<1>12. SameTimers'
  <2>1. active = {<<a, heap[a].seq>> : a \in timers} /\ active' = active /\ timers' = timers
    BY <1>1 DEF TimerInv, SameTimers
  <2>2. \A a \in timers : heap'[a].seq = heap[a].seq
    BY <1>8, <1>9
  <2>3. QED
    BY <2>1, <2>2 DEF SameTimers
<1>13. StopInv'
  <2>1. UNCHANGED <<stopped, created, mistaken, expired, canceling>>
    BY <1>1
  <2>2. QED
    BY <1>8, <2>1 DEF TimerInv, StopInv
<1>14. CallsInv'
  BY <1>1 DEF TimerInv, CallsInv
<1>15. alarm \in Off..MaxWait /\ MaxWait \in Nat
  BY <1>2, MaxWaitIs DEF TimerInv, RoundInv
<1>16. RoundInv'
  <2>1. alarm' \in Off..MaxWait
    BY <1>1, <1>15 DEF Off
  <2>2. lag' \in 0..1
    BY <1>1
  <2>3. QED
    BY <1>1, <2>1, <2>2 DEF TimerInv, RoundInv
<1>17. NotSleptThrough'
  <2>1. SUFFICES ASSUME phase = "idle", NEW b \in timers
                 PROVE  alarm' # Off /\ \A a \in timers : alarm' <= WaitFor(heap'[a].due)
    BY <1>1 DEF NotSleptThrough
  <2>2. alarm # Off /\ \A a \in timers : alarm <= WaitFor(heap[a].due)
    BY <2>1 DEF TimerInv, NotSleptThrough
  <2>3. alarm \in Int /\ alarm >= 0
    BY <1>15, <2>2 DEF Off
  <2>4. alarm' # Off
    BY <1>1, <2>3 DEF Off
  <2>5. ASSUME NEW a \in timers
        PROVE  alarm' <= WaitFor(heap'[a].due)
    <3>1. a \in Allocated
      BY <1>9
    <3>2. heap[a].due \in Int /\ heap'[a].due = f[a]
          /\ f[a] = IF heap[a].due > Floor THEN heap[a].due - 1 ELSE Floor
      BY <1>4, <1>5, <1>8, <3>1
    <3>3. WaitFor(heap[a].due) = IF heap[a].due >= 1 THEN heap[a].due ELSE 1
      BY <3>2, WaitForIs
    <3>4. heap'[a].due \in Int
      BY <3>2 DEF Floor
    <3>5. WaitFor(heap'[a].due) = IF heap'[a].due >= 1 THEN heap'[a].due ELSE 1
      BY <3>4, WaitForIs
    <3>6. alarm <= WaitFor(heap[a].due)
      BY <2>2
    <3>7. QED
      BY <1>1, <2>3, <3>2, <3>3, <3>4, <3>5, <3>6 DEF Floor
  <2>6. QED
    BY <2>4, <2>5
<1>18. QED
  BY <1>8, <1>11, <1>12, <1>13, <1>14, <1>16, <1>17 DEF TimerInv

(* The clock is set back: everything is further away by one.               *)
LEMMA SetBackKeeps ==
  ASSUME TimerInv, SetBack
  PROVE  TimerInv'
<1> DEFINE f == [a \in Addrs |-> IF heap[a] # Free THEN heap[a].due + 1 ELSE 0]
<1>1. /\ setBacks < MaxSetBacks /\ setBacks' = setBacks + 1
      /\ heap' = [a \in Addrs |-> IF heap[a] = Free THEN Free ELSE [heap[a] EXCEPT !.due = @ + 1]]
      /\ UNCHANGED <<timers, active, canceling, expired, toRun, phase, lag, alarm, pending,
                     adding, ids, created, stopped, mistaken>>
  BY DEF SetBack
<1>2. HeapInv /\ setBacks \in Nat /\ setBacks' \in 0..MaxSetBacks
  BY <1>1, TimerAssumption DEF TimerInv, HeapInv
<1>3. heap' = [a \in Addrs |-> IF heap[a] = Free THEN Free ELSE [heap[a] EXCEPT !.due = f[a]]]
  BY <1>1
<1>4. \A a \in Allocated : a \in Addrs /\ heap[a] # Free
                           /\ heap[a].due \in Floor..(Longest + setBacks) /\ heap[a].due \in Int
  BY <1>2, ObjectAt DEF Allocated
<1>5. \A a \in Allocated : f[a] = heap[a].due + 1
  BY <1>4
<1>6. \A a \in Allocated : f[a] \in Floor..(Longest + setBacks')
  <2>1. Longest \in Nat
    BY LongestIs
  <2>2. QED
    BY <1>1, <1>2, <1>4, <1>5, <2>1 DEF Floor
<1>7. f \in [Addrs -> Int]
  <2>1. ASSUME NEW a \in Addrs
        PROVE  f[a] \in Int
    <3>1. CASE heap[a] = Free
      BY <3>1
    <3>2. CASE heap[a] # Free
      BY <1>4, <1>5, <3>2 DEF Allocated
    <3>3. QED
      BY <3>1, <3>2
  <2>2. QED
    BY <2>1
<1> HIDE DEF f
<1>8. /\ HeapInv' /\ Allocated' = Allocated
      /\ \A a \in Allocated : heap'[a].due = f[a] /\ heap'[a].id = heap[a].id /\ heap'[a].seq = heap[a].seq
  BY <1>1, <1>2, <1>3, <1>6, <1>7, SameObjects
<1>9. Allocated = timers \cup expired \cup Queued
  BY DEF TimerInv, OwnedOnce
<1>10. Queued' = Queued
  BY <1>1 DEF Queued
<1>11. OwnedOnce'
  BY <1>1, <1>8, <1>10 DEF TimerInv, OwnedOnce
<1>12. SameTimers'
  <2>1. active = {<<a, heap[a].seq>> : a \in timers} /\ active' = active /\ timers' = timers
    BY <1>1 DEF TimerInv, SameTimers
  <2>2. \A a \in timers : heap'[a].seq = heap[a].seq
    BY <1>8, <1>9
  <2>3. QED
    BY <2>1, <2>2 DEF SameTimers
<1>13. StopInv'
  BY <1>1, <1>8 DEF TimerInv, StopInv
<1>14. CallsInv' /\ RoundInv'
  BY <1>1 DEF TimerInv, CallsInv, RoundInv
<1>15. NotSleptThrough'
  <2>1. SUFFICES ASSUME phase = "idle", NEW b \in timers
                 PROVE  alarm # Off /\ \A a \in timers : alarm <= WaitFor(heap'[a].due)
    BY <1>1 DEF NotSleptThrough
  <2>2. alarm # Off /\ \A a \in timers : alarm <= WaitFor(heap[a].due)
    BY <2>1 DEF TimerInv, NotSleptThrough
  <2>3. alarm \in Int
    <3>1. MaxWait \in Nat
      BY <1>2, MaxWaitIs
    <3>2. QED
      BY <3>1 DEF TimerInv, RoundInv, Off
  <2>4. ASSUME NEW a \in timers
        PROVE  alarm <= WaitFor(heap'[a].due)
    <3>1. a \in Allocated
      BY <1>9
    <3>2. heap[a].due \in Int /\ heap'[a].due = heap[a].due + 1
      BY <1>4, <1>5, <1>8, <3>1
    <3>3. WaitFor(heap[a].due) = IF heap[a].due >= 1 THEN heap[a].due ELSE 1
      BY <3>2, WaitForIs
    <3>4. WaitFor(heap'[a].due) = IF heap'[a].due >= 1 THEN heap'[a].due ELSE 1
      BY <3>2, WaitForIs
    <3>5. alarm <= WaitFor(heap[a].due)
      BY <2>2
    <3>6. QED
      BY <2>3, <3>2, <3>3, <3>4, <3>5
  <2>5. QED
    BY <2>2, <2>4
<1>16. QED
  BY <1>8, <1>11, <1>12, <1>13, <1>14, <1>15 DEF TimerInv
-----------------------------------------------------------------------------
(* Numbers are not given twice, so a Timer that is gone stays gone.        *)

(* Whatever a step does to the heap, the Timers there are afterwards were  *)
(* there before, or are new ones.                                          *)
LEMMA NoneComesBack ==
  ASSUME TimerInv, GoneInv, Next
  PROVE  /\ created \in Nat /\ created' \in Nat /\ created <= created'
         /\ \A a \in Allocated' : \/ heap'[a].id = created + 1
                                  \/ a \in Allocated /\ heap'[a].id = heap[a].id
<1>1. created \in Nat /\ HeapInv
  BY TimerAssumption DEF TimerInv, HeapInv
<1>2. ASSUME NEW a \in Addrs, NEW delay \in Delays, NEW interval \in Intervals,
             NewTimer(a, delay, interval)
      PROVE  created' = created + 1
             /\ \A b \in Allocated' : \/ heap'[b].id = created + 1
                                      \/ b \in Allocated /\ heap'[b].id = heap[b].id
  <2>1. created' = created + 1
        /\ heap' = [heap EXCEPT ![a] = [id |-> created + 1, seq |-> Sequence(created + 1),
                                        due |-> delay, interval |-> interval]]
    BY <1>2 DEF NewTimer
  <2>2. heap'[a].id = created + 1 /\ \A b \in Addrs \ {a} : heap'[b] = heap[b]
    BY <1>1, <2>1 DEF HeapInv
  <2>3. \A b \in Allocated' : b = a \/ (b \in Allocated /\ heap'[b] = heap[b])
    BY <2>2 DEF Allocated
  <2>4. created' = created + 1
    BY <2>1
  <2>5. \A b \in Allocated' : \/ heap'[b].id = created + 1
                              \/ b \in Allocated /\ heap'[b].id = heap[b].id
    BY <2>2, <2>3, Zenon
  <2>6. QED
    BY <2>4, <2>5, Zenon
<1>3. ASSUME NEW tid \in GivenIds, CancelInLoop(tid)
      PROVE  \A b \in Allocated' : b \in Allocated /\ heap'[b].id = heap[b].id
  <2>1. heap' = heap \/ heap' = [heap EXCEPT ![tid.addr] = Free]
    BY <1>3 DEF CancelInLoop
  <2>2. \A b \in Addrs : heap'[b] = heap[b] \/ heap'[b] = Free
    BY <1>1, <2>1 DEF HeapInv
  <2>3. QED
    BY <2>2 DEF Allocated
<1>4. \A b \in Allocated : b \in Addrs /\ heap[b] # Free
  BY DEF Allocated
<1>5. CASE AddTimer \/ \E c \in Callers : QueueAdd(c)
  BY <1>1, <1>2, <1>5 DEF AddTimer, QueueAdd
<1>6. CASE Cancel
  <2>1. created' = created /\ \E tid \in ids : CancelInLoop(tid)
    BY <1>6 DEF Cancel
  <2>2. ids \subseteq GivenIds
    BY DEF TimerInv, CallsInv
  <2>3. QED
    BY <1>1, <1>3, <2>1, <2>2
<1>7. CASE RunPending
  <2>1. created' = created /\ (heap' = heap \/ \E tid \in GivenIds : CancelInLoop(tid))
    <3>1. pending \in Seq(Functors) /\ pending # <<>>
      BY <1>7 DEF RunPending, TimerInv, CallsInv
    <3>2. Head(pending) \in Functors
      BY <3>1
    <3>3. Head(pending)[1] = "cancel" => Head(pending)[2] \in GivenIds
      BY <3>2, FunctorIs
    <3>4. QED
      BY <1>7, <3>3 DEF RunPending
  <2>2. QED
    BY <1>1, <1>3, <2>1 DEF Allocated
<1>8. CASE UNCHANGED <<heap, created>>
  BY <1>1, <1>8 DEF Allocated
<1>9. CASE Reset
  <2>1. created' = created
        /\ \A a \in Addrs : \/ heap'[a] = heap[a] \/ heap'[a] = Free
                            \/ heap[a] # Free /\ heap'[a].id = heap[a].id
    <3>1. PICK again \in SUBSET expired : Reclaimed(again) /\ created' = created
      BY <1>9 DEF Reset
    <3>2. \A a \in expired : a \in Addrs /\ heap[a] # Free /\ heap[a] \in Objects
      BY <1>1, ObjectAt DEF TimerInv, OwnedOnce, Allocated
    <3>3. \A a \in again : [heap[a] EXCEPT !.due = heap[a].interval - lag].id = heap[a].id
      BY <3>1, <3>2 DEF Objects
    <3>4. heap' = [a \in Addrs |-> IF a \in again THEN [heap[a] EXCEPT !.due = heap[a].interval - lag]
                                  ELSE IF a \in expired THEN Free ELSE heap[a]]
      BY <3>1 DEF Reclaimed
    <3>5. ASSUME NEW a \in again
          PROVE  heap[a] # Free /\ heap'[a].id = heap[a].id
      <4>1. a \in Addrs /\ heap[a] # Free
        BY <3>1, <3>2
      <4>2. heap'[a] = [heap[a] EXCEPT !.due = heap[a].interval - lag]
        BY <3>4, <4>1
      <4>3. QED
        BY <3>3, <4>1, <4>2
    <3>6. \A a \in Addrs \ again : heap'[a] = heap[a] \/ heap'[a] = Free
      BY <3>4
    <3>7. created' = created
      BY <3>1
    <3>8. \A a \in Addrs : \/ heap'[a] = heap[a] \/ heap'[a] = Free
                           \/ heap[a] # Free /\ heap'[a].id = heap[a].id
      BY <3>5, <3>6, Zenon
    <3>9. QED
      BY <3>7, <3>8, Zenon
  <2>2. QED
    BY <1>1, <2>1 DEF Allocated
<1>10. CASE Tick \/ SetBack
  <2>1. created' = created
        /\ \/ heap' = [a \in Addrs |-> IF heap[a] = Free THEN Free
                                      ELSE [heap[a] EXCEPT !.due = Max({@ - 1, Floor})]]
           \/ heap' = [a \in Addrs |-> IF heap[a] = Free THEN Free ELSE [heap[a] EXCEPT !.due = @ + 1]]
    BY <1>10 DEF Tick, SetBack
  <2>2. \A a \in Addrs : heap[a] # Free => heap[a] \in Objects
    BY <1>1 DEF HeapInv
  <2>3. \A a \in Addrs : heap'[a] # Free => heap[a] # Free /\ heap'[a].id = heap[a].id
    BY <2>1, <2>2 DEF Objects
  <2>4. QED
    BY <1>1, <2>1, <2>3 DEF Allocated
<1>11. QED
  BY <1>5, <1>6, <1>7, <1>8, <1>9, <1>10 DEF Next, LoopStep, QueueCancel, ReturnId, HandleRead,
     RunCallback, CallbackReturns

(* So who is inside addTimer still knows, and a late TimerId stays late.   *)
LEMMA GoneKept ==
  ASSUME TimerInv, GoneInv, Next
  PROVE  GoneInv'
<1>1. /\ created \in Nat /\ created' \in Nat /\ created <= created'
      /\ \A a \in Allocated' : \/ heap'[a].id = created + 1
                               \/ a \in Allocated /\ heap'[a].id = heap[a].id
  BY NoneComesBack
<1>2. \A id \in 1..created : id \in 1..created' /\ id # created + 1
  BY <1>1
<1>3. \A id : Gone(id) => Gone(id)'
  BY <1>1, <1>2 DEF Gone
<1>4. ASSUME NEW c \in Callers, adding[c] # Nobody
      PROVE  /\ adding[c].id \in 1..created'
             /\ \A a \in Allocated' : heap'[a].id = adding[c].id => a = adding[c].addr
  BY <1>1, <1>2, <1>4 DEF GoneInv
<1>5. \A c \in Callers : adding'[c] # Nobody =>
          /\ adding'[c].id \in 1..created'
          /\ \A a \in Allocated' : heap'[a].id = adding'[c].id => a = adding'[c].addr
  <2>1. adding \in [Callers -> {Nobody} \cup [addr : Addrs, id : Ids]]
    BY DEF TimerInv, CallsInv
  <2>2. CASE adding' = adding
    BY <1>4, <2>2
  <2>3. ASSUME NEW c \in Callers, ReturnId(c)
        PROVE  \A b \in Callers : adding'[b] = Nobody \/ adding'[b] = adding[b]
    BY <2>1, <2>3 DEF ReturnId
  <2>4. ASSUME NEW c \in Callers, QueueAdd(c)
        PROVE  \A b \in Callers : \/ adding'[b] = adding[b]
                                  \/ /\ adding'[b].id \in 1..created'
                                     /\ \A a \in Allocated' : heap'[a].id = adding'[b].id
                                                                => a = adding'[b].addr
    <3>1. PICK a \in Addrs, delay \in Delays, interval \in Intervals :
               /\ NewTimer(a, delay, interval)
               /\ adding' = [adding EXCEPT ![c] = [addr |-> a, id |-> created + 1]]
      BY <2>4 DEF QueueAdd
    <3>2. created' = created + 1
          /\ heap' = [heap EXCEPT ![a] = [id |-> created + 1, seq |-> Sequence(created + 1),
                                          due |-> delay, interval |-> interval]]
      BY <3>1 DEF NewTimer
    <3>3. \A b \in Allocated' : b # a => b \in Allocated /\ heap'[b] = heap[b]
      BY <3>2 DEF TimerInv, HeapInv, Allocated
    <3>4. \A b \in Allocated : heap[b].id \in 1..created
      BY ObjectAt DEF TimerInv
    <3>5. \A b \in Allocated' : heap'[b].id = created + 1 => b = a
      BY <1>2, <3>3, <3>4
    <3>6. created + 1 \in 1..created'
      BY <1>1, <3>2
    <3>7. \A b \in Callers \ {c} : adding'[b] = adding[b]
      BY <2>1, <3>1
    <3>8. adding'[c] = [addr |-> a, id |-> created + 1]
      BY <2>1, <3>1
    <3>9. QED
      BY <3>5, <3>6, <3>7, <3>8
  <2>5. QED
    BY <1>4, <2>2, <2>3, <2>4 DEF Next, LoopStep, AddTimer, Cancel, QueueCancel, RunPending,
       HandleRead, RunCallback, CallbackReturns, Reset, Tick, SetBack
<1>6. ids \subseteq ids' /\ \A tid \in ids' : tid.late => Gone(tid.id)'
  <2>1. \A tid \in ids : tid.late => Gone(tid.id)'
    BY <1>3 DEF GoneInv
  <2>2. CASE ids' = ids
    BY <2>1, <2>2
  <2>3. CASE AddTimer
    <3>1. PICK a \in Addrs : ids' = ids \cup {TimerId(a)}
      BY <2>3 DEF AddTimer
    <3>2. TimerId(a).late = FALSE
      BY DEF TimerId
    <3>3. QED
      BY <2>1, <3>1, <3>2
  <2>4. ASSUME NEW c \in Callers, ReturnId(c)
        PROVE  ids \subseteq ids' /\ \A tid \in ids' : tid.late => Gone(tid.id)'
    <3>1. PICK seq : ids' = ids \cup {[addr |-> adding[c].addr, id |-> adding[c].id, seq |-> seq,
                                       late |-> heap[adding[c].addr].id # adding[c].id]}
      BY <2>4 DEF ReturnId
    <3>2. adding[c].id \in 1..created
          /\ \A a \in Allocated : heap[a].id = adding[c].id => a = adding[c].addr
      BY <2>4 DEF ReturnId, GoneInv
    <3>3. heap[adding[c].addr].id # adding[c].id => Gone(adding[c].id)
      BY <3>2 DEF Gone
    <3>4. PICK new : new = [addr |-> adding[c].addr, id |-> adding[c].id, seq |-> seq,
                            late |-> heap[adding[c].addr].id # adding[c].id]
      OBVIOUS
    <3>5. new.late => Gone(new.id)
      BY <3>3, <3>4
    <3>8. ids' = ids \cup {new}
      BY <3>1, <3>4
    <3>6. new.late => Gone(new.id)'
      BY <1>3, <3>5
    <3>7. QED
      BY <2>1, <3>6, <3>8
  <2>5. QED
    BY <2>2, <2>3, <2>4 DEF Next, LoopStep, Cancel, QueueCancel, QueueAdd, RunPending,
       HandleRead, RunCallback, CallbackReturns, Reset, Tick, SetBack
<1>7. \A i \in 1..Len(pending') : pending'[i][1] = "cancel" => pending'[i][2] \in ids'
  <2>1. pending \in Seq(Functors)
        /\ \A i \in 1..Len(pending) : pending[i][1] = "cancel" => pending[i][2] \in ids'
    BY <1>6 DEF TimerInv, CallsInv, GoneInv
  <2>2. CASE pending' = pending
    BY <2>1, <2>2
  <2>3. ASSUME NEW f \in Functors, pending' = Append(pending, f), f[1] = "cancel" => f[2] \in ids'
        PROVE  \A i \in 1..Len(pending') : pending'[i][1] = "cancel" => pending'[i][2] \in ids'
    <3>1. \A i \in 1..Len(pending') : \/ i = Len(pending) + 1 /\ pending'[i] = f
                                      \/ i \in 1..Len(pending) /\ pending'[i] = pending[i]
      <4>1. Len(Append(pending, f)) = Len(pending) + 1 /\ Len(pending) \in Nat
            /\ (\A i \in 1..Len(pending) : Append(pending, f)[i] = pending[i])
            /\ Append(pending, f)[Len(pending) + 1] = f
        BY <2>1, <2>3, AppendProperties
      <4>2. QED
        BY <2>3, <4>1
    <3>2. QED
      BY <2>1, <2>3, <3>1
  <2>4. CASE RunPending
    <3>1. pending # <<>> /\ pending' = Tail(pending)
      BY <2>4 DEF RunPending
    <3>2. \A i \in 1..Len(pending') : i + 1 \in 1..Len(pending) /\ pending'[i] = pending[i + 1]
      BY <2>1, <3>1
    <3>3. QED
      BY <2>1, <3>2
  <2>5. CASE QueueCancel
    <3>1. PICK tid \in ids : pending' = Append(pending, <<"cancel", tid>>)
      BY <2>5 DEF QueueCancel
    <3>2. <<"cancel", tid>> \in Functors
      BY DEF Functors, TimerInv, CallsInv
    <3>3. QED
      BY <1>6, <2>3, <3>1, <3>2
  <2>6. ASSUME NEW c \in Callers, QueueAdd(c)
        PROVE  \A i \in 1..Len(pending') : pending'[i][1] = "cancel" => pending'[i][2] \in ids'
    <3>1. PICK a \in Addrs : pending' = Append(pending, <<"add", a>>)
      BY <2>6 DEF QueueAdd
    <3>2. <<"add", a>> \in Functors
      BY DEF Functors
    <3>3. QED
      BY <2>3, <3>1, <3>2
  <2>7. QED
    BY <2>2, <2>4, <2>5, <2>6 DEF Next, LoopStep, AddTimer, Cancel, ReturnId,
       HandleRead, RunCallback, CallbackReturns, Reset, Tick, SetBack
<1>8. QED
  BY <1>5, <1>6, <1>7 DEF GoneInv
-----------------------------------------------------------------------------
(* The invariant and what it gives.                                        *)

(* At first there is no Timer.                                             *)
LEMMA FirstTimerInv ==
  ASSUME Init
  PROVE  TimerInv
<1> USE DEF Init
<1>1. Allocated = {}
  BY DEF Allocated
<1>2. Queued = {}
  BY DEF Queued
<1>3. HeapInv
  BY <1>1, TimerAssumption DEF HeapInv
<1>4. CallsInv
  <2>1. AddsOnce(pending)
    BY DEF AddsOnce
  <2>2. QED
    BY <2>1 DEF CallsInv
<1>5. MaxWait \in Nat
  <2>1. 0 \in 0..MaxSetBacks
    BY TimerAssumption
  <2>2. QED
    BY <2>1, MaxWaitIs
<1>6. RoundInv
  BY <1>5 DEF RoundInv, Off
<1>7. OwnedOnce /\ SameTimers /\ StopInv /\ NotSleptThrough
  BY <1>1, <1>2 DEF OwnedOnce, SameTimers, StopInv, NotSleptThrough
<1>8. QED
  BY <1>3, <1>4, <1>6, <1>7 DEF TimerInv

(* The invariant holds in every state.                                     *)
LEMMA TimerInvHolds == Spec => [](TimerInv /\ GoneInv)
<1>1. Init => TimerInv /\ GoneInv
  BY FirstTimerInv DEF Init, GoneInv
<1>2. ASSUME TimerInv, GoneInv, [Next]_vars
      PROVE  TimerInv' /\ GoneInv'
  <2>1. CASE Next
    BY <1>2, <2>1, GoneKept, AddTimerKeeps, CancelKeeps, QueueCancelKeeps, QueueAddKeeps, ReturnIdKeeps,
       RunPendingKeeps, HandleReadKeeps, CallbackKeeps, ResetKeeps, TickKeeps, SetBackKeeps
       DEF Next, LoopStep
  <2>2. CASE UNCHANGED vars
    BY <1>2, <2>2 DEF vars, GoneInv, Gone, TimerInv, HeapInv, CallsInv, RoundInv, OwnedOnce, SameTimers, StopInv,
       NotSleptThrough, Allocated, Objects, Queued, WaitFor
  <2>3. QED
    BY <1>2, <2>1, <2>2
<1>3. QED
  BY <1>1, <1>2, PTL DEF Spec

(* The types follow: a Timer's number is at most MaxTimers and it is never *)
(* further away than MaxWait.                                              *)
LEMMA TypesFollow ==
  ASSUME TimerInv
  PROVE  TypeOK
<1>1. created \in 0..MaxTimers /\ setBacks \in 0..MaxSetBacks
  BY DEF TimerInv, HeapInv
<1>2. 1..created \subseteq Ids
  BY <1>1, TimerAssumption DEF Ids
<1>3. Objects \subseteq Timers
  <2>1. Longest + setBacks <= MaxWait /\ MaxWait \in Nat /\ Longest \in Nat
    BY <1>1, MaxWaitIs, LongestIs
  <2>2. Floor..(Longest + setBacks) \subseteq Floor..MaxWait
    BY <1>1, <2>1 DEF Floor
  <2>3. QED
    BY <1>2, <2>2 DEF Objects, Timers
<1>4. heap \in [Addrs -> Timers \cup {Free}]
  BY <1>3 DEF TimerInv, HeapInv
<1>5. active \in SUBSET ActiveTimers
  <2>1. \A a \in timers : <<a, heap[a].seq>> \in ActiveTimers
    <3>1. TAKE a \in timers
    <3>2. a \in Allocated /\ HeapInv
      BY DEF TimerInv, OwnedOnce
    <3>3. a \in Addrs /\ heap[a].seq \in Ids
      BY <1>2, <3>2, ObjectAt
    <3>4. QED
      BY <3>3 DEF ActiveTimers
  <2>2. QED
    BY <2>1 DEF TimerInv, SameTimers
<1>6. GivenIds \subseteq TimerIds
  BY DEF GivenIds
<1>7. pending \in Seq(({"add"} \X Addrs) \cup ({"cancel"} \X TimerIds))
  <2>1. Functors \subseteq ({"add"} \X Addrs) \cup ({"cancel"} \X TimerIds)
    BY <1>6 DEF Functors
  <2>2. QED
    BY <2>1, SeqDef DEF TimerInv, CallsInv
<1>8. ids \in SUBSET TimerIds /\ adding \in [Callers -> {Nobody} \cup [addr : Addrs, id : Ids]]
  BY <1>6 DEF TimerInv, CallsInv
<1>9. stopped \in SUBSET Ids /\ mistaken \in SUBSET TimerIds
  BY <1>2 DEF TimerInv, StopInv
<1>10. QED
  BY <1>1, <1>4, <1>5, <1>7, <1>8, <1>9 DEF TypeOK, TimerInv, RoundInv

(* Whatever is added, cancelled and run, every Timer is in exactly one     *)
(* place that will run or delete it, timers_ and activeTimers_ agree, and  *)
(* the types are right.                                                    *)
THEOREM TimersAreKept == Spec => []TimersKept
<1>1. TimerInv => TimersKept
  BY TypesFollow DEF TimerInv, TimersKept
<1>2. QED
  BY <1>1, TimerInvHolds, PTL

(* While there are timers, the timerfd is armed for the earliest or        *)
(* before, however the clock is set back.                                  *)
THEOREM AlarmIsInTime == Spec => []NotSleptThrough
<1>1. TimerInv => NotSleptThrough
  BY DEF TimerInv
<1>2. QED
  BY <1>1, TimerInvHolds, PTL

(* A cancelled timer is gone when its batch is over, and a TimerId never   *)
(* cancels a later timer at the same address, but for one that addTimer    *)
(* made after its Timer had been deleted.                                  *)
THEOREM CancelledIsGone == Spec => []CancelSticks
<1>1. TimerInv => CancelSticks
  BY DEF TimerInv, StopInv, CancelSticks
<1>2. QED
  BY <1>1, TimerInvHolds, PTL
=============================================================================
