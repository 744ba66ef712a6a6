-------------------------- MODULE ThreadPoolProofs --------------------------
(***************************************************************************)
(* Theorems about ThreadPool, for any threads, producers, sizes and number *)
(* of tasks: the queue is bounded, what is accepted is taken in order and  *)
(* once, and nothing is queued after stop().  And theorems about Monitor,  *)
(* from which a pool and the queues are made, for any number of threads    *)
(* and calls: the mutex and its holder are what MutexLock says, nobody is  *)
(* in a latch that is destroyed, and the queues and the latch do what      *)
(* AtomicCalls promises.                                                   *)
(***************************************************************************)
EXTENDS ThreadPool, Monitor, FiniteSetTheorems, SequenceTheorems, TLAPS

(* The pool.                                                               *)

Waits == {"notEmpty", "notFull"}
WorkerPlaces == {"unborn", "loop", "take", "notEmpty", "woken", "run", "finished"}
ProducerPlaces == {"idle", "notFull", "woken"}
AllThreads == Workers \cup Producers
AllPlaces == WorkerPlaces \cup ProducerPlaces

\* The calls of run() that are yet to be accepted or refused.
Busy == {p \in Producers : pc[p] # "idle"}

DataInv ==
    /\ maxQueueSize \in QueueSizes /\ size \in Sizes
    /\ threads \in SUBSET Workers /\ IsFiniteSet(threads) /\ Cardinality(threads) <= size
    /\ owner \in {"new", "starting", "started", "joining", "stopped"}
    /\ running \in BOOLEAN
    /\ queue \in Seq(Tasks)
    /\ calls \in 0..MaxTasks
    /\ accepted \in Seq(Tasks) /\ taken \in Seq(Tasks) /\ ran \in SUBSET Tasks

\* Where the threads are: the pool's are born, and have a task exactly while they run it.
PlacesInv ==
    /\ pc \in [AllThreads -> AllPlaces]
    /\ \A w \in Workers : /\ pc[w] \in WorkerPlaces
                          /\ pc[w] = "unborn" <=> w \notin threads
    /\ \A p \in Producers : pc[p] \in ProducerPlaces

TaskInv ==
    /\ task \in [Workers -> Tasks \cup {NoTask}]
    /\ \A w \in Workers : task[w] \in Tasks <=> pc[w] = "run"

\* Each call of run() has had its turn, or has it still to come.
CallsInv == IsFiniteSet(Busy) /\ Len(accepted) + Cardinality(Busy) <= calls

\* A pool without threads has nothing in its queue.
NobodyToTake == threads = {} => queue = <<>>

PoolInv == DataInv /\ PlacesInv /\ TaskInv /\ CallsInv /\ NobodyToTake /\ QueueBounded /\ OnceInOrder
-----------------------------------------------------------------------------
(* Notifications.                                                          *)

\* The threads are where `at' says, but for some that have been woken.
Follows(at) ==
    /\ pc' \in [AllThreads -> AllPlaces]
    /\ \A t \in AllThreads : pc'[t] = at[t] \/ (at[t] \in Waits /\ pc'[t] = "woken")

\* One thread has gone to a place; the others run a task, are born or are in a call as before.
Moved(t, to) ==
    /\ pc' \in [AllThreads -> AllPlaces]
    /\ \A w \in Workers : pc'[w] \in WorkerPlaces
    /\ \A p \in Producers : pc'[p] \in ProducerPlaces
    /\ \A u \in AllThreads \ {t} :
         \A spot \in {"run", "unborn", "idle"} : pc'[u] = spot <=> pc[u] = spot
    /\ \A spot \in {"run", "unborn", "idle"} : pc'[t] = spot <=> to = spot

(* A notification wakes one thread that waits for that, or none.           *)
LEMMA NotifyFollows ==
  ASSUME NEW at \in [AllThreads -> AllPlaces],
         NEW condition \in Waits,
         Notify(condition, at) \/ pc' = at
  PROVE  Follows(at)
<1>1. CASE pc' = at
  BY <1>1 DEF Follows
<1>2. CASE pc' # at
  <2>1. PICK t \in Waiting(condition, at) : pc' = [at EXCEPT ![t] = "woken"]
    BY <1>2 DEF Notify
  <2>2. t \in AllThreads /\ at[t] \in Waits /\ "woken" \in AllPlaces
    BY <2>1 DEF Waiting, AllPlaces, WorkerPlaces
  <2>3. QED
    BY <2>1, <2>2 DEF Follows
<1>3. QED
  BY <1>1, <1>2

(* A thread goes to another place, and some that waited may be woken.      *)
LEMMA Moves ==
  ASSUME PlacesInv, NEW t \in AllThreads, NEW to,
         t \in Workers => to \in WorkerPlaces, t \in Producers => to \in ProducerPlaces,
         Follows([pc EXCEPT ![t] = to])
  PROVE  Moved(t, to)
<1>1. \A u \in AllThreads :
         [pc EXCEPT ![t] = to][u] = IF u = t THEN to ELSE pc[u]
  BY DEF PlacesInv
<1>2. ASSUME NEW u \in AllThreads
      PROVE  \/ pc'[u] = IF u = t THEN to ELSE pc[u]
             \/ (IF u = t THEN to ELSE pc[u]) \in Waits /\ pc'[u] = "woken"
  BY <1>1 DEF Follows
<1>3. pc' \in [AllThreads -> AllPlaces]
  BY DEF Follows
<1>4. ASSUME NEW w \in Workers
      PROVE  pc'[w] \in WorkerPlaces
  BY <1>2 DEF PlacesInv, WorkerPlaces, AllThreads
<1>5. ASSUME NEW p \in Producers
      PROVE  pc'[p] \in ProducerPlaces
  BY <1>2 DEF PlacesInv, ProducerPlaces, AllThreads
<1>6. ASSUME NEW u \in AllThreads \ {t}, NEW spot \in {"run", "unborn", "idle"}
      PROVE  pc'[u] = spot <=> pc[u] = spot
  BY <1>2 DEF Waits
<1>7. ASSUME NEW spot \in {"run", "unborn", "idle"}
      PROVE  pc'[t] = spot <=> to = spot
  BY <1>2 DEF Waits
<1>8. QED
  BY <1>3, <1>4, <1>5, <1>6, <1>7 DEF Moved

(* One that moves without waking anybody.                                  *)
LEMMA MovesAlone ==
  ASSUME PlacesInv, NEW t \in AllThreads, NEW to,
         t \in Workers => to \in WorkerPlaces, t \in Producers => to \in ProducerPlaces,
         pc' = [pc EXCEPT ![t] = to]
  PROVE  Moved(t, to)
<1>1. to \in AllPlaces
  BY DEF AllThreads, AllPlaces
<1>2. pc' \in [AllThreads -> AllPlaces]
  BY <1>1 DEF PlacesInv
<1>3. Follows(pc')
  BY <1>2 DEF Follows
<1>4. QED
  BY <1>3, Moves

(* The places of threads that are born stay right.                         *)
LEMMA PlacesKept ==
  ASSUME PlacesInv, NEW t \in AllThreads, NEW to, Moved(t, to),
         threads' = threads, pc[t] # "unborn", to # "unborn"
  PROVE  PlacesInv'
<1>1. ASSUME NEW w \in Workers
      PROVE  pc'[w] = "unborn" <=> pc[w] = "unborn"
  <2>1. CASE w = t
    BY <2>1 DEF Moved
  <2>2. CASE w # t
    BY <2>2 DEF Moved, AllThreads
  <2>3. QED
    BY <2>1, <2>2
<1>2. QED
  BY <1>1 DEF PlacesInv, Moved

(* A thread of the pool is no producer.                                    *)
LEMMA WorkersAreNoProducers ==
  ASSUME PoolAssumption, PlacesInv, NEW w \in Workers, NEW to \in WorkerPlaces, Moved(w, to)
  PROVE  \A p \in Producers : pc'[p] = "idle" <=> pc[p] = "idle"
BY DEF PoolAssumption, Moved, AllThreads

(* While no producer begins or ends a call, and nothing is accepted, the   *)
(* calls add up as before.                                                 *)
LEMMA CallsKept ==
  ASSUME CallsInv, \A p \in Producers : pc'[p] = "idle" <=> pc[p] = "idle",
         UNCHANGED <<accepted, calls>>
  PROVE  CallsInv'
<1>1. Busy' = Busy
  BY DEF Busy
<1>2. QED
  BY <1>1 DEF CallsInv
-----------------------------------------------------------------------------
(* The owner.                                                              *)

(* start() gives birth to threads, one at a time, and to no more than it   *)
(* is told.                                                                *)
LEMMA StartKeeps ==
  ASSUME PoolAssumption, PoolInv, Start
  PROVE  PoolInv'
<1>1. /\ running' = TRUE /\ owner' \in {"starting", "started"}
      /\ UNCHANGED <<maxQueueSize, size, queue, task, calls, accepted, taken, ran>>
  BY DEF Start
<1>2. CASE UNCHANGED <<threads, pc>>
  <2>1. DataInv'
    BY <1>1, <1>2 DEF PoolInv, DataInv
  <2>2. PlacesInv' /\ TaskInv' /\ NobodyToTake' /\ QueueBounded' /\ OnceInOrder'
    BY <1>1, <1>2 DEF PoolInv, PlacesInv, TaskInv, NobodyToTake, QueueBounded, OnceInOrder
  <2>3. CallsInv'
    BY <1>1, <1>2, CallsKept DEF PoolInv
  <2>4. QED
    BY <2>1, <2>2, <2>3 DEF PoolInv
<1>3. CASE ~ UNCHANGED <<threads, pc>>
  <2>1. PICK w \in Workers \ threads : threads' = threads \cup {w} /\ pc' = [pc EXCEPT ![w] = "loop"]
    BY <1>3 DEF Start
  <2>2. Cardinality(threads) < size /\ w \notin Producers /\ pc[w] = "unborn"
    BY <1>3 DEF Start, MoreThreads, PoolInv, PlacesInv, PoolAssumption
  <2>3. IsFiniteSet(threads') /\ Cardinality(threads') <= size
    <3>1. IsFiniteSet(threads) /\ Cardinality(threads) \in Nat /\ size \in Nat
      BY FS_CardinalityType, PoolAssumption DEF PoolInv, DataInv, PoolAssumption
    <3>2. IsFiniteSet(threads \cup {w}) /\ Cardinality(threads \cup {w}) = Cardinality(threads) + 1
      BY <3>1, <2>1, FS_AddElement
    <3>3. QED
      BY <2>1, <2>2, <3>1, <3>2
  <2>4. DataInv'
    BY <1>1, <2>1, <2>3 DEF PoolInv, DataInv
  <2>5. Moved(w, "loop")
    <3>1. w \in AllThreads /\ "loop" \in WorkerPlaces
      BY DEF AllThreads, WorkerPlaces
    <3>2. QED
      BY <2>1, <2>2, <3>1, MovesAlone DEF PoolInv
  <2>6. PlacesInv'
    <3>1. ASSUME NEW v \in Workers
          PROVE  pc'[v] = "unborn" <=> v \notin threads'
      BY <2>1, <2>5 DEF PoolInv, PlacesInv, Moved, AllThreads
    <3>2. QED
      BY <2>5, <3>1 DEF PlacesInv, Moved
  <2>7. TaskInv'
    <3>1. ASSUME NEW v \in Workers
          PROVE  pc'[v] = "run" <=> pc[v] = "run"
      BY <2>2, <2>5 DEF Moved, AllThreads
    <3>2. QED
      BY <1>1, <3>1 DEF PoolInv, TaskInv
  <2>8. CallsInv'
    <3>1. "loop" \in WorkerPlaces
      BY DEF WorkerPlaces
    <3>2. \A p \in Producers : pc'[p] = "idle" <=> pc[p] = "idle"
      BY <2>5, <3>1, WorkersAreNoProducers DEF PoolInv
    <3>3. QED
      BY <1>1, <3>2, CallsKept DEF PoolInv
  <2>9. NobodyToTake' /\ QueueBounded' /\ OnceInOrder'
    BY <1>1, <2>1 DEF PoolInv, NobodyToTake, QueueBounded, OnceInOrder
  <2>10. QED
    BY <2>4, <2>6, <2>7, <2>8, <2>9 DEF PoolInv
<1>4. QED
  BY <1>2, <1>3

(* A step that wakes threads, or none, and changes no more than the        *)
(* owner's place and running_.                                             *)
LEMMA WakingKeeps ==
  ASSUME PoolAssumption, PoolInv, Follows(pc),
         owner' \in {"new", "starting", "started", "joining", "stopped"}, running' \in BOOLEAN,
         UNCHANGED <<maxQueueSize, size, threads, queue, task, calls, accepted, taken, ran>>
  PROVE  PoolInv'
<1>1. DataInv'
  BY DEF PoolInv, DataInv
<1>2. ASSUME NEW t \in AllThreads
      PROVE  pc'[t] = pc[t] \/ (pc[t] \in Waits /\ pc'[t] = "woken")
  BY DEF Follows
<1>3. PlacesInv'
  <2>1. ASSUME NEW w \in Workers
        PROVE  pc'[w] \in WorkerPlaces /\ (pc'[w] = "unborn" <=> w \notin threads')
    BY <1>2 DEF PoolInv, PlacesInv, Waits, WorkerPlaces, AllThreads
  <2>2. ASSUME NEW p \in Producers
        PROVE  pc'[p] \in ProducerPlaces
    BY <1>2 DEF PoolInv, PlacesInv, Waits, ProducerPlaces, AllThreads
  <2>3. QED
    BY <2>1, <2>2 DEF Follows, PlacesInv
<1>4. TaskInv'
  BY <1>2 DEF PoolInv, TaskInv, Waits, AllThreads
<1>5. CallsInv'
  <2>1. \A p \in Producers : pc'[p] = "idle" <=> pc[p] = "idle"
    BY <1>2 DEF Waits, AllThreads
  <2>2. QED
    BY <2>1, CallsKept DEF PoolInv
<1>6. NobodyToTake' /\ QueueBounded' /\ OnceInOrder'
  BY DEF PoolInv, NobodyToTake, QueueBounded, OnceInOrder
<1>7. QED
  BY <1>1, <1>3, <1>4, <1>5, <1>6 DEF PoolInv

(* stop(): everybody who waits is woken; the join waits for them.          *)
LEMMA StopKeeps ==
  ASSUME PoolAssumption, PoolInv, Stop \/ Join
  PROVE  PoolInv'
<1>1. CASE Stop
  <2>1. /\ owner' = "joining" /\ running' = FALSE /\ WakeAll
        /\ UNCHANGED <<maxQueueSize, size, threads, queue, task, calls, accepted, taken, ran>>
    BY <1>1 DEF Stop
  <2>2. running' \in BOOLEAN
    BY <2>1, Zenon
  <2>3. Follows(pc)
    <3>1. DOMAIN pc = AllThreads /\ \A t \in AllThreads : pc[t] \in AllPlaces
      BY DEF PoolInv, PlacesInv
    <3>2. "woken" \in AllPlaces
      BY DEF AllPlaces, WorkerPlaces
    <3>3. pc' = [t \in AllThreads |-> IF pc[t] \in Waits THEN "woken" ELSE pc[t]]
      BY <2>1, <3>1 DEF WakeAll, Waits
    <3>4. QED
      BY <3>1, <3>2, <3>3 DEF Follows
  <2>4. QED
    BY <2>1, <2>2, <2>3, WakingKeeps
<1>2. CASE Join
  <2>1. /\ owner' = "stopped"
        /\ UNCHANGED <<maxQueueSize, size, threads, running, queue, pc, task, calls, accepted, taken, ran>>
    BY <1>2 DEF Join
  <2>2. Follows(pc)
    BY <2>1 DEF Follows, PoolInv, PlacesInv
  <2>3. running' \in BOOLEAN
    BY <2>1 DEF PoolInv, DataInv
  <2>4. QED
    BY <2>1, <2>2, <2>3, WakingKeeps
<1>3. QED
  BY <1>1, <1>2

(* A wait may end for no reason.                                           *)
LEMMA WakesUpKeeps ==
  ASSUME PoolAssumption, PoolInv, NEW t \in AllThreads, WakesUp(t)
  PROVE  PoolInv'
<1>1. /\ pc[t] \in Waits /\ pc' = [pc EXCEPT ![t] = "woken"]
      /\ UNCHANGED <<maxQueueSize, size, threads, owner, running, queue, task, calls, accepted, taken, ran>>
  BY DEF WakesUp, Waits
<1>2. "woken" \in AllPlaces
  BY DEF AllPlaces, WorkerPlaces
<1>3. Follows(pc)
  BY <1>1, <1>2 DEF Follows, PoolInv, PlacesInv
<1>4. owner' \in {"new", "starting", "started", "joining", "stopped"} /\ running' \in BOOLEAN
  BY <1>1 DEF PoolInv, DataInv
<1>5. QED
  BY <1>1, <1>3, <1>4, WakingKeeps
-----------------------------------------------------------------------------
(* Sequences: what is put behind, and what is taken from the front.        *)

(* The last of the second part is the last of the whole.                   *)
LEMMA LastOfBoth ==
  ASSUME NEW S, NEW front \in Seq(S), NEW back \in Seq(S), NEW e \in S,
         NEW longer, longer = Append(back, e)
  PROVE  Append(front \o back, e) = front \o longer
<1>1. <<e>> \in Seq(S)
  OBVIOUS
<1>2. longer = back \o <<e>>
  BY AppendIsConcat
<1>3. front \o back \in Seq(S)
  BY ConcatProperties
<1>4. Append(front \o back, e) = (front \o back) \o <<e>>
  BY <1>3, AppendIsConcat
<1>5. (front \o back) \o <<e>> = front \o (back \o <<e>>)
  BY <1>1, ConcatAssociative
<1>6. QED
  BY <1>2, <1>4, <1>5

(* The first of the second part may as well be the last of the first.      *)
LEMMA FirstOfBack ==
  ASSUME NEW S, NEW front \in Seq(S), NEW back \in Seq(S), back # <<>>
  PROVE  front \o back = Append(front, Head(back)) \o Tail(back)
<1>1. Head(back) \in S /\ Tail(back) \in Seq(S) /\ <<Head(back)>> \in Seq(S)
  BY HeadTailProperties
<1>2. back = <<Head(back)>> \o Tail(back)
  OBVIOUS
<1>3. Append(front, Head(back)) = front \o <<Head(back)>>
  BY <1>1, AppendIsConcat
<1>4. (front \o <<Head(back)>>) \o Tail(back) = front \o (<<Head(back)>> \o Tail(back))
  BY <1>1, ConcatAssociative
<1>5. QED
  BY <1>2, <1>3, <1>4
-----------------------------------------------------------------------------
(* Producers.                                                              *)

(* Without threads the caller runs the task: it is accepted, taken and run *)
(* at once.                                                                *)
LEMMA RunHereKeeps ==
  ASSUME PoolAssumption, PoolInv, NEW p \in Producers, RunHere(p)
  PROVE  PoolInv'
<1> DEFINE t == calls + 1
<1>1. /\ threads = {} /\ calls < MaxTasks /\ calls' = t
      /\ accepted' = Append(accepted, t) /\ taken' = Append(taken, t) /\ ran' = ran \cup {t}
      /\ UNCHANGED <<maxQueueSize, size, threads, owner, running, queue, pc, task>>
  BY DEF RunHere
<1>2. t \in Tasks /\ t \in 0..MaxTasks /\ t \in Nat
  BY <1>1, PoolAssumption DEF PoolInv, DataInv, Tasks, PoolAssumption
<1> HIDE DEF t
<1>3. accepted \in Seq(Tasks) /\ taken \in Seq(Tasks) /\ queue = <<>>
  BY <1>1 DEF PoolInv, DataInv, NobodyToTake
<1>4. /\ accepted' \in Seq(Tasks) /\ Len(accepted') = Len(accepted) + 1
      /\ taken' \in Seq(Tasks) /\ Len(taken') = Len(taken) + 1
      /\ taken'[Len(taken) + 1] = t /\ \A i \in 1..Len(taken) : taken'[i] = taken[i]
  <2>1. /\ Append(accepted, t) \in Seq(Tasks) /\ Len(Append(accepted, t)) = Len(accepted) + 1
    BY <1>2, <1>3, AppendProperties
  <2>2. /\ Append(taken, t) \in Seq(Tasks) /\ Len(Append(taken, t)) = Len(taken) + 1
        /\ Append(taken, t)[Len(taken) + 1] = t
        /\ \A i \in 1..Len(taken) : Append(taken, t)[i] = taken[i]
    BY <1>2, <1>3, AppendProperties
  <2>3. QED
    BY <1>1, <2>1, <2>2
<1>5. DataInv'
  BY <1>1, <1>2, <1>4 DEF PoolInv, DataInv
<1>6. PlacesInv' /\ TaskInv' /\ NobodyToTake' /\ QueueBounded'
  BY <1>1 DEF PoolInv, PlacesInv, TaskInv, NobodyToTake, QueueBounded
<1>7. CallsInv'
  <2>1. Busy' = Busy
    BY <1>1 DEF Busy
  <2>2. Len(accepted) \in Nat /\ Cardinality(Busy) \in Nat /\ calls \in Nat
    BY <1>3, LenProperties, FS_CardinalityType DEF PoolInv, CallsInv, DataInv
  <2>3. QED
    BY <1>1, <1>4, <2>1, <2>2 DEF PoolInv, CallsInv, t
<1>8. OnceInOrder'
  <2>1. accepted = taken
    BY <1>3, ConcatEmptySeq DEF PoolInv, OnceInOrder
  <2>2. accepted' = taken' \o queue'
    BY <1>1, <1>3, <1>4, <2>1, ConcatEmptySeq
  <2>3. ASSUME NEW i \in 1..Len(taken')
        PROVE  taken'[i] \in ran' \/ \E w \in threads' : task'[w] = taken'[i]
    <3>1. Len(taken) \in Nat
      BY <1>3, LenProperties
    <3>2. CASE i = Len(taken) + 1
      BY <1>1, <1>4, <3>2
    <3>3. CASE i # Len(taken) + 1
      <4>1. i \in 1..Len(taken)
        BY <1>4, <3>1, <3>3
      <4>2. QED
        BY <1>1, <1>4, <4>1 DEF PoolInv, OnceInOrder
    <3>4. QED
      BY <3>2, <3>3
  <2>4. QED
    BY <2>2, <2>3 DEF OnceInOrder
<1>9. QED
  BY <1>5, <1>6, <1>7, <1>8 DEF PoolInv

(* run() with threads: the caller waits, is refused, or its task is        *)
(* accepted, and in none of the three does a call count for two.           *)
LEMMA RunKeeps ==
  ASSUME PoolAssumption, PoolInv, NEW p \in Producers, Run(p)
  PROVE  PoolInv'
<1> DEFINE t      == Len(accepted) + 1
           called == Busy \cup {p}
<1>1. /\ threads # {}
      /\ UNCHANGED <<maxQueueSize, size, threads, owner, running, task, taken, ran>>
      /\ \/ pc[p] = "idle" /\ calls < MaxTasks /\ calls' = calls + 1
         \/ pc[p] = "woken" /\ calls' = calls
  BY DEF Run
<1>2. /\ p \in AllThreads /\ p \notin Workers /\ pc[p] \in ProducerPlaces
      /\ accepted \in Seq(Tasks) /\ queue \in Seq(Tasks) /\ taken \in Seq(Tasks)
      /\ Len(accepted) \in Nat /\ calls \in Nat /\ calls <= MaxTasks /\ MaxTasks \in Nat
  BY LenProperties, PoolAssumption
     DEF PoolAssumption, PoolInv, PlacesInv, DataInv, AllThreads
<1>3. /\ IsFiniteSet(called) /\ Cardinality(called) \in Nat
      /\ Len(accepted) + Cardinality(called) <= calls'
      /\ calls' \in 0..MaxTasks
  <2>1. IsFiniteSet(Busy) /\ Cardinality(Busy) \in Nat /\ Len(accepted) + Cardinality(Busy) <= calls
    BY FS_CardinalityType DEF PoolInv, CallsInv
  <2>2. IsFiniteSet(called) /\ Cardinality(called) \in Nat
        /\ Cardinality(called) = IF p \in Busy THEN Cardinality(Busy) ELSE Cardinality(Busy) + 1
    BY <2>1, FS_AddElement, FS_CardinalityType
  <2>3. p \in Busy <=> pc[p] # "idle"
    BY DEF Busy
  <2> HIDE DEF called
  <2>4. CASE pc[p] = "idle"
    BY <1>1, <1>2, <2>1, <2>2, <2>3, <2>4
  <2>5. CASE pc[p] # "idle"
    BY <1>1, <1>2, <2>1, <2>2, <2>3, <2>5
  <2>6. QED
    BY <2>4, <2>5
<1>4. IsFiniteSet(called \ {p}) /\ Cardinality(called \ {p}) = Cardinality(called) - 1
      /\ Cardinality(called \ {p}) \in Nat
  BY <1>3, FS_RemoveElement, FS_CardinalityType
<1>5. t \in Tasks
  <2> HIDE DEF called
  <2>1. QED
    BY <1>2, <1>3, <1>4 DEF Tasks
<1>6. ASSUME NEW to \in {"notFull", "idle"}, Moved(p, to)
      PROVE  /\ PlacesInv' /\ TaskInv' /\ NobodyToTake'
             /\ to = "notFull" => Busy' = called
             /\ to = "idle" => Busy' = called \ {p}
  <2>1. PlacesInv'
    BY <1>1, <1>2, <1>6, PlacesKept DEF PoolInv, ProducerPlaces
  <2>2. \A w \in Workers : pc'[w] = "run" <=> pc[w] = "run"
    BY <1>2, <1>6 DEF Moved, AllThreads
  <2>3. TaskInv'
    BY <1>1, <2>2 DEF PoolInv, TaskInv
  <2>4. NobodyToTake'
    BY <1>1 DEF NobodyToTake
  <2>5. \A q \in Producers : q # p => (pc'[q] = "idle" <=> pc[q] = "idle")
    BY <1>6 DEF Moved, AllThreads
  <2>6. pc'[p] = "idle" <=> to = "idle"
    BY <1>6 DEF Moved
  <2>7. to = "notFull" => Busy' = called
    BY <2>5, <2>6 DEF Busy
  <2>8. to = "idle" => Busy' = called \ {p}
    BY <2>5, <2>6 DEF Busy
  <2>9. QED
    BY <2>1, <2>3, <2>4, <2>7, <2>8
<1>7. ASSUME UNCHANGED <<queue, accepted>>, NEW to \in {"notFull", "idle"}, pc' = [pc EXCEPT ![p] = to]
      PROVE  PoolInv'
  <2>1. Moved(p, to)
    BY <1>2, <1>7, MovesAlone DEF PoolInv, ProducerPlaces
  <2>2. DataInv'
    BY <1>1, <1>3, <1>7 DEF PoolInv, DataInv
  <2>3. PlacesInv' /\ TaskInv' /\ NobodyToTake' /\ (Busy' = called \/ Busy' = called \ {p})
    BY <1>6, <2>1
  <2>4. CallsInv'
    <3> HIDE DEF called
    <3>1. Len(accepted') = Len(accepted)
      BY <1>7
    <3>2. CASE Busy' = called
      BY <1>3, <3>1, <3>2 DEF CallsInv
    <3>3. CASE Busy' = called \ {p}
      BY <1>2, <1>3, <1>4, <3>1, <3>3 DEF CallsInv
    <3>4. QED
      BY <2>3, <3>2, <3>3
  <2>5. QueueBounded' /\ OnceInOrder'
    BY <1>1, <1>7 DEF PoolInv, QueueBounded, OnceInOrder
  <2>6. QED
    BY <2>2, <2>3, <2>4, <2>5 DEF PoolInv
<1>8. ASSUME ~MustWait(p), ~Refused, queue' = Append(queue, t), accepted' = Append(accepted, t),
             NotifyTaker([pc EXCEPT ![p] = "idle"])
      PROVE  PoolInv'
  <2>1. Moved(p, "idle")
    <3>1. "idle" \in AllPlaces /\ "idle" \in ProducerPlaces /\ "notEmpty" \in Waits
      BY DEF AllPlaces, ProducerPlaces, Waits
    <3>2. [pc EXCEPT ![p] = "idle"] \in [AllThreads -> AllPlaces]
      BY <1>2, <3>1 DEF PoolInv, PlacesInv
    <3>3. Notify("notEmpty", [pc EXCEPT ![p] = "idle"])
      BY <1>8 DEF NotifyTaker
    <3>4. Follows([pc EXCEPT ![p] = "idle"])
      BY <3>1, <3>2, <3>3, NotifyFollows
    <3>5. QED
      BY <1>2, <3>1, <3>4, Moves DEF PoolInv
  <2> HIDE DEF t
  <2>2. /\ queue' \in Seq(Tasks) /\ Len(queue') = Len(queue) + 1
        /\ accepted' \in Seq(Tasks) /\ Len(accepted') = Len(accepted) + 1
    BY <1>2, <1>5, <1>8, AppendProperties
  <2>3. DataInv'
    BY <1>1, <1>3, <2>2 DEF PoolInv, DataInv
  <2>4. PlacesInv' /\ TaskInv' /\ NobodyToTake' /\ Busy' = called \ {p}
    BY <1>6, <2>1
  <2>5. CallsInv'
    <3> HIDE DEF called
    <3>1. QED
      BY <1>2, <1>3, <1>4, <2>2, <2>4 DEF CallsInv
  <2>6. QueueBounded'
    <3>1. ~IsFull
      BY <1>8 DEF MustWait, Refused
    <3>2. Len(queue) \in Nat /\ maxQueueSize \in Nat
      BY <1>2, LenProperties, PoolAssumption DEF PoolAssumption, PoolInv, DataInv
    <3>3. QED
      BY <1>1, <2>2, <3>1, <3>2 DEF IsFull, QueueBounded
  <2>7. accepted' = taken' \o queue'
    <3>1. accepted = taken \o queue
      BY DEF PoolInv, OnceInOrder
    <3>2. Append(taken \o queue, t) = taken \o queue'
      BY <1>2, <1>5, <1>8, LastOfBoth, ZenonT(60)
    <3>3. QED
      BY <1>1, <1>8, <3>1, <3>2
  <2>8. OnceInOrder'
    BY <1>1, <2>7 DEF PoolInv, OnceInOrder
  <2>9. QED
    BY <2>3, <2>4, <2>5, <2>6, <2>8 DEF PoolInv
<1>9. QED
  BY <1>7, <1>8 DEF Run
-----------------------------------------------------------------------------
(* Workers.                                                                *)

(* A thread of the pool that goes from one place to another leaves the     *)
(* other threads and the calls as they are.                                *)
LEMMA WorkerMoves ==
  ASSUME PoolAssumption, PoolInv, NEW w \in Workers, NEW to \in WorkerPlaces,
         pc[w] # "unborn", to # "unborn", Moved(w, to),
         UNCHANGED <<threads, accepted, calls>>
  PROVE  /\ PlacesInv' /\ CallsInv' /\ w \in threads
         /\ \A v \in Workers : v # w => (pc'[v] = "run" <=> pc[v] = "run")
         /\ pc'[w] = "run" <=> to = "run"
<1>1. w \in AllThreads
  BY DEF AllThreads
<1>2. PlacesInv'
  BY <1>1, PlacesKept DEF PoolInv
<1>3. CallsInv'
  <2>1. \A p \in Producers : pc'[p] = "idle" <=> pc[p] = "idle"
    BY WorkersAreNoProducers DEF PoolInv
  <2>2. QED
    BY <2>1, CallsKept DEF PoolInv
<1>4. w \in threads
  BY DEF PoolInv, PlacesInv
<1>5. \A v \in Workers : v # w => (pc'[v] = "run" <=> pc[v] = "run")
  BY DEF Moved, AllThreads
<1>6. pc'[w] = "run" <=> to = "run"
  BY DEF Moved
<1>7. QED
  BY <1>2, <1>3, <1>4, <1>5, <1>6

(* The same, when no task begins or ends and nothing is taken.             *)
LEMMA WorkerIdles ==
  ASSUME PoolAssumption, PoolInv, NEW w \in Workers, NEW to \in WorkerPlaces,
         pc[w] \notin {"unborn", "run"}, to \notin {"unborn", "run"},
         pc' = [pc EXCEPT ![w] = to],
         UNCHANGED <<maxQueueSize, size, threads, owner, running, queue, task, calls, accepted, taken, ran>>
  PROVE  PoolInv'
<1>1. Moved(w, to)
  <2>1. w \in AllThreads /\ w \notin Producers
    BY PoolAssumption DEF AllThreads, PoolAssumption
  <2>2. QED
    BY <2>1, MovesAlone DEF PoolInv
<1>2. /\ PlacesInv' /\ CallsInv'
      /\ \A v \in Workers : pc'[v] = "run" <=> pc[v] = "run"
  BY <1>1, WorkerMoves
<1>3. TaskInv'
  BY <1>2 DEF PoolInv, TaskInv
<1>4. DataInv' /\ NobodyToTake' /\ QueueBounded' /\ OnceInOrder'
  BY DEF PoolInv, DataInv, NobodyToTake, QueueBounded, OnceInOrder
<1>5. QED
  BY <1>2, <1>3, <1>4 DEF PoolInv

(* take(): the thread has the first of the queue, and nobody else has.     *)
LEMMA TakeKeeps ==
  ASSUME PoolAssumption, PoolInv, NEW w \in Workers, Take(w)
  PROVE  PoolInv'
<1>1. /\ pc[w] \in {"take", "woken"}
      /\ UNCHANGED <<maxQueueSize, size, threads, owner, running, calls, accepted, ran>>
  BY DEF Take
<1>2. CASE queue = <<>>
  <2>1. PICK to \in {"notEmpty", "loop"} : pc' = [pc EXCEPT ![w] = to]
    BY <1>2 DEF Take
  <2>2. UNCHANGED <<queue, task, taken>>
    BY <1>2 DEF Take
  <2>3. to \in WorkerPlaces
    BY DEF WorkerPlaces
  <2>4. QED
    BY <1>1, <2>1, <2>2, <2>3, WorkerIdles
<1>3. CASE queue # <<>>
  <2> DEFINE first == Head(queue)
  <2>1. /\ task' = [task EXCEPT ![w] = first] /\ taken' = Append(taken, first)
        /\ queue' = Tail(queue) /\ NotifyProducer([pc EXCEPT ![w] = "run"])
    BY <1>3 DEF Take, Removed
  <2>2. Moved(w, "run")
    <3>1. /\ "run" \in AllPlaces /\ "run" \in WorkerPlaces /\ "notFull" \in Waits
          /\ w \in AllThreads /\ w \notin Producers
      BY PoolAssumption DEF AllPlaces, WorkerPlaces, Waits, AllThreads, PoolAssumption
    <3>2. [pc EXCEPT ![w] = "run"] \in [AllThreads -> AllPlaces]
      BY <3>1 DEF PoolInv, PlacesInv
    <3>3. Notify("notFull", [pc EXCEPT ![w] = "run"]) \/ pc' = [pc EXCEPT ![w] = "run"]
      BY <2>1 DEF NotifyProducer
    <3>4. Follows([pc EXCEPT ![w] = "run"])
      BY <3>1, <3>2, <3>3, NotifyFollows
    <3>5. QED
      BY <3>1, <3>4, Moves DEF PoolInv
  <2>3. /\ PlacesInv' /\ CallsInv' /\ w \in threads
        /\ \A v \in Workers : v # w => (pc'[v] = "run" <=> pc[v] = "run")
        /\ pc'[w] = "run"
    <3>1. "run" \in WorkerPlaces /\ pc[w] # "unborn"
      BY <1>1 DEF WorkerPlaces
    <3>2. QED
      BY <1>1, <2>2, <3>1, WorkerMoves
  <2>4. queue \in Seq(Tasks) /\ taken \in Seq(Tasks) /\ Len(queue) \in Nat /\ Len(taken) \in Nat
    BY LenProperties DEF PoolInv, DataInv
  <2>5. /\ first \in Tasks /\ Tail(queue) \in Seq(Tasks) /\ Len(Tail(queue)) = Len(queue) - 1
    BY <1>3, <2>4, HeadTailProperties
  <2>6. /\ Append(taken, first) \in Seq(Tasks) /\ Len(Append(taken, first)) = Len(taken) + 1
        /\ Append(taken, first)[Len(taken) + 1] = first
        /\ \A i \in 1..Len(taken) : Append(taken, first)[i] = taken[i]
    BY <2>4, <2>5, AppendProperties
  <2>7. Append(taken, first) \o Tail(queue) = accepted
    BY <1>3, <2>4, FirstOfBack DEF PoolInv, OnceInOrder
  <2> HIDE DEF first
  <2>8. DataInv'
    BY <1>1, <2>1, <2>5, <2>6 DEF PoolInv, DataInv
  <2>9. TaskInv'
    <3>1. task' \in [Workers -> Tasks \cup {NoTask}]
      BY <2>1, <2>5 DEF PoolInv, TaskInv
    <3>2. ASSUME NEW v \in Workers
          PROVE  task'[v] \in Tasks <=> pc'[v] = "run"
      BY <2>1, <2>3, <2>5 DEF PoolInv, TaskInv
    <3>3. QED
      BY <3>1, <3>2 DEF TaskInv
  <2>10. NobodyToTake' /\ QueueBounded'
    <3>1. threads' # {}
      BY <1>1, <2>3
    <3>2. maxQueueSize \in Nat
      BY PoolAssumption DEF PoolAssumption, PoolInv, DataInv
    <3>3. QueueBounded'
      BY <1>1, <2>1, <2>4, <2>5, <3>2 DEF PoolInv, QueueBounded
    <3>4. QED
      BY <3>1, <3>3 DEF NobodyToTake
  <2>11. OnceInOrder'
    <3>1. accepted' = taken' \o queue'
      BY <1>1, <2>1, <2>7
    <3>2. ASSUME NEW i \in 1..Len(taken')
          PROVE  taken'[i] \in ran' \/ \E v \in threads' : task'[v] = taken'[i]
      <4>1. CASE i = Len(taken) + 1
        <5>1. task'[w] = first
          BY <2>1 DEF PoolInv, TaskInv
        <5>2. QED
          BY <1>1, <2>1, <2>3, <2>6, <4>1, <5>1
      <4>2. CASE i # Len(taken) + 1
        <5>1. i \in 1..Len(taken) /\ taken'[i] = taken[i]
          BY <2>1, <2>4, <2>6, <4>2
        <5>2. taken[i] \in Tasks
          BY <2>4, <5>1, ElementOfSeq
        <5>3. CASE taken[i] \in ran
          BY <1>1, <5>1, <5>3
        <5>4. CASE taken[i] \notin ran
          <6>1. PICK v \in threads : task[v] = taken[i]
            BY <5>1, <5>4 DEF PoolInv, OnceInOrder
          <6>2. v \in Workers /\ pc[v] = "run"
            BY <5>2, <6>1 DEF PoolInv, DataInv, TaskInv
          <6>3. v # w /\ task'[v] = task[v]
            BY <1>1, <2>1, <6>2 DEF PoolInv, TaskInv
          <6>4. QED
            BY <1>1, <5>1, <6>1, <6>3
        <5>5. QED
          BY <5>3, <5>4
      <4>3. QED
        BY <4>1, <4>2
    <3>3. QED
      BY <3>1, <3>2 DEF OnceInOrder
  <2>12. QED
    BY <2>3, <2>8, <2>9, <2>10, <2>11 DEF PoolInv
<1>4. QED
  BY <1>2, <1>3

(* The task is run, and has been from then on.                             *)
LEMMA RunTaskKeeps ==
  ASSUME PoolAssumption, PoolInv, NEW w \in Workers, RunTask(w)
  PROVE  PoolInv'
<1>1. /\ pc[w] = "run" /\ pc' = [pc EXCEPT ![w] = "loop"]
      /\ ran' = ran \cup {task[w]} /\ task' = [task EXCEPT ![w] = NoTask]
      /\ UNCHANGED <<maxQueueSize, size, threads, owner, running, queue, calls, accepted, taken>>
  BY DEF RunTask
<1>2. Moved(w, "loop")
  <2>1. w \in AllThreads /\ w \notin Producers /\ "loop" \in WorkerPlaces
    BY PoolAssumption DEF AllThreads, PoolAssumption, WorkerPlaces
  <2>2. QED
    BY <1>1, <2>1, MovesAlone DEF PoolInv
<1>3. /\ PlacesInv' /\ CallsInv'
      /\ \A v \in Workers : v # w => (pc'[v] = "run" <=> pc[v] = "run")
      /\ pc'[w] = "loop"
  <2>1. "loop" \in WorkerPlaces
    BY DEF WorkerPlaces
  <2>2. pc'[w] = "loop"
    BY <1>1 DEF PoolInv, PlacesInv, AllThreads
  <2>3. QED
    BY <1>1, <1>2, <2>1, <2>2, WorkerMoves
<1>4. task[w] \in Tasks /\ NoTask \notin Tasks
  BY <1>1, PoolAssumption DEF PoolInv, TaskInv, Tasks, NoTask, PoolAssumption
<1>5. DataInv'
  BY <1>1, <1>4 DEF PoolInv, DataInv
<1>6. TaskInv'
  <2>1. task' \in [Workers -> Tasks \cup {NoTask}]
    BY <1>1 DEF PoolInv, TaskInv
  <2>2. ASSUME NEW v \in Workers
        PROVE  task'[v] \in Tasks <=> pc'[v] = "run"
    BY <1>1, <1>3, <1>4 DEF PoolInv, TaskInv
  <2>3. QED
    BY <2>1, <2>2 DEF TaskInv
<1>7. NobodyToTake' /\ QueueBounded'
  BY <1>1 DEF PoolInv, NobodyToTake, QueueBounded
<1>8. OnceInOrder'
  <2>1. ASSUME NEW i \in 1..Len(taken)
        PROVE  taken[i] \in ran' \/ \E v \in threads : task'[v] = taken[i]
    <3>1. CASE taken[i] \in ran'
      BY <3>1
    <3>2. CASE taken[i] \notin ran'
      <4>1. PICK v \in threads : task[v] = taken[i]
        BY <1>1, <3>2 DEF PoolInv, OnceInOrder
      <4>2. v # w /\ v \in Workers
        BY <1>1, <3>2, <4>1 DEF PoolInv, DataInv
      <4>3. task'[v] = task[v]
        BY <1>1, <4>2 DEF PoolInv, TaskInv
      <4>4. QED
        BY <4>1, <4>3
    <3>3. QED
      BY <3>1, <3>2
  <2>2. QED
    BY <1>1, <2>1 DEF PoolInv, OnceInOrder
<1>9. QED
  BY <1>3, <1>5, <1>6, <1>7, <1>8 DEF PoolInv
-----------------------------------------------------------------------------
(* The inductive invariant, from the first state on.                       *)
LEMMA PoolInvariant == Spec => []PoolInv
<1>1. Init => PoolInv
  <2> SUFFICES ASSUME Init PROVE PoolInv
    OBVIOUS
  <2>1. /\ <<>> \in Seq(Tasks) /\ Len(<<>>) = 0 /\ <<>> \o <<>> = <<>>
    BY EmptySeq, ConcatEmptySeq
  <2>2. IsFiniteSet({}) /\ Cardinality({}) = 0
    BY FS_EmptySet
  <2>3. DataInv
    <3>1. running \in BOOLEAN
      BY Zenon DEF Init
    <3>2. size \in Nat /\ 0 \in 0..MaxTasks
      BY PoolAssumption DEF Init, PoolAssumption
    <3>3. QED
      BY <2>1, <2>2, <3>1, <3>2 DEF Init, DataInv
  <2>4. PlacesInv
    <3>1. \A t \in AllThreads : pc[t] = IF t \in Workers THEN "unborn" ELSE "idle"
      BY DEF Init, AllThreads
    <3>2. "unborn" \in AllPlaces /\ "idle" \in AllPlaces /\ "unborn" \in WorkerPlaces
          /\ "idle" \in ProducerPlaces
      BY DEF AllPlaces, WorkerPlaces, ProducerPlaces
    <3>3. pc \in [AllThreads -> AllPlaces]
      BY <3>2 DEF Init, AllThreads
    <3>4. QED
      BY <3>1, <3>2, <3>3, PoolAssumption DEF Init, PlacesInv, AllThreads, PoolAssumption
  <2>5. TaskInv
    BY PoolAssumption DEF Init, TaskInv, Tasks, NoTask, PoolAssumption
  <2>6. CallsInv
    <3>1. Busy = {}
      BY PoolAssumption DEF Init, Busy, PoolAssumption
    <3>2. QED
      BY <2>1, <2>2, <3>1 DEF Init, CallsInv
  <2>7. NobodyToTake /\ QueueBounded /\ OnceInOrder
    <3>1. \A i \in 1..Len(taken) : FALSE
      BY <2>1 DEF Init
    <3>2. maxQueueSize \in Nat
      BY PoolAssumption DEF Init, PoolAssumption
    <3>3. QED
      BY <2>1, <3>1, <3>2 DEF Init, NobodyToTake, QueueBounded, OnceInOrder
  <2>8. QED
    BY <2>3, <2>4, <2>5, <2>6, <2>7 DEF PoolInv
<1>2. PoolInv /\ [Next]_vars => PoolInv'
  <2> SUFFICES ASSUME PoolInv, [Next]_vars PROVE PoolInv'
    OBVIOUS
  <2> USE PoolAssumption
  <2>1. CASE Start \/ Stop \/ Join
    BY <2>1, StartKeeps, StopKeeps
  <2>2. ASSUME NEW p \in Producers, RunHere(p) \/ Run(p)
        PROVE  PoolInv'
    BY <2>2, RunHereKeeps, RunKeeps
  <2>3. ASSUME NEW w \in Workers, TestRunning(w)
        PROVE  PoolInv'
    <3>1. PICK to \in {"take", "finished"} : pc' = [pc EXCEPT ![w] = to]
      BY <2>3 DEF TestRunning
    <3>2. /\ pc[w] = "loop" /\ to \in WorkerPlaces
          /\ UNCHANGED <<maxQueueSize, size, threads, owner, running, queue, task, calls, accepted, taken, ran>>
      BY <2>3 DEF TestRunning, WorkerPlaces
    <3>3. QED
      BY <3>1, <3>2, WorkerIdles
  <2>4. ASSUME NEW w \in Workers, Take(w) \/ RunTask(w)
        PROVE  PoolInv'
    BY <2>4, TakeKeeps, RunTaskKeeps
  <2>5. ASSUME NEW t \in Workers \cup Producers, WakesUp(t)
        PROVE  PoolInv'
    BY <2>5, WakesUpKeeps DEF AllThreads
  <2>6. CASE UNCHANGED vars
    <3>1. DataInv' /\ PlacesInv' /\ TaskInv'
      BY <2>6 DEF vars, PoolInv, DataInv, PlacesInv, TaskInv
    <3>2. CallsInv' /\ NobodyToTake' /\ QueueBounded' /\ OnceInOrder'
      BY <2>6 DEF vars, PoolInv, CallsInv, Busy, NobodyToTake, QueueBounded, OnceInOrder
    <3>3. QED
      BY <3>1, <3>2 DEF PoolInv
  <2>7. QED
    BY <2>1, <2>2, <2>3, <2>4, <2>5, <2>6 DEF Next, Worker
<1>3. QED
  BY <1>1, <1>2, PTL DEF Spec

(* The queue never holds more than its bound, and every task accepted is   *)
(* in the queue or has been taken, in the order of acceptance, once, and   *)
(* is then being run or has been.                                          *)
THEOREM TasksAreKept == Spec => []QueueKept
<1>1. PoolInv => QueueKept
  <2> SUFFICES ASSUME PoolInv PROVE QueueKept
    OBVIOUS
  <2>1. TypeOK
    BY DEF PoolInv, DataInv, PlacesInv, TaskInv, TypeOK, WorkerPlaces, ProducerPlaces
  <2>2. QED
    BY <2>1 DEF PoolInv, QueueKept
<1>2. QED
  BY <1>1, PoolInvariant, PTL

(* Once stop() has had the mutex nothing is queued any more, also not by a *)
(* producer that was waiting for room and is woken by stop() itself.       *)
THEOREM StopRefuses == Spec => NoneAfterStop
<1>1. PoolInv /\ [Next]_vars => [~running => Len(queue') <= Len(queue)]_queue
  <2> SUFFICES ASSUME PoolInv, [Next]_vars, ~running, queue' # queue
               PROVE  Len(queue') <= Len(queue)
    OBVIOUS
  <2>1. PICK w \in Workers : Take(w)
    <3>1. ASSUME NEW p \in Producers, Run(p)
          PROVE  queue' = queue
      BY <3>1 DEF Run, MustWait, Refused
    <3>2. QED
      BY <3>1 DEF Next, vars, Start, Stop, Join, RunHere, Worker, TestRunning, RunTask, WakesUp
  <2>2. queue # <<>> /\ queue' = Tail(queue) /\ queue \in Seq(Tasks)
    BY <2>1 DEF Take, Removed, PoolInv, DataInv
  <2>3. Len(queue) \in Nat /\ Len(Tail(queue)) = Len(queue) - 1
    BY <2>2, LenProperties, HeadTailProperties
  <2>4. Len(queue') = Len(queue) - 1
    BY <2>2, <2>3, Zenon
  <2>5. QED
    BY <2>3, <2>4
<1>2. QED
  BY <1>1, PoolInvariant, PTL DEF Spec, NoneAfterStop
-----------------------------------------------------------------------------
(* The monitor.                                                            *)

\* Where the mutex is locked by the thread, where a thread waits, and where its call has taken effect.
Sleeping == {"wait", "sleep", "asleep", "relocked"}
Returning == {"notify", "unlock", "unassigned"}
Held == {"locked", "relocked", "test", "effect", "wait", "sleep", "notify", "unlock", "unassigned"}
Places == Held \cup {"out", "lock", "asleep"}
Names == {"none", "put", "take", "drain", "wait", "countDown"}

\* The calls of countDown() that are yet to take effect.
Pending == {t \in Threads : call[t] = "countDown" /\ place[t] \in {"lock", "locked", "test", "effect"}}

TypeInv ==
    /\ kind \in Kinds /\ count \in Nat /\ begun \in Nat
    /\ place \in [Threads -> Places] /\ call \in [Threads -> Names]
    /\ value \in [Threads -> Nat \cup {NoValue}]
    /\ destroyed \in BOOLEAN

\* The mutex and the holder: each is the thread's exactly where the code says so.
LockInv ==
    \A t \in Threads : /\ place[t] \in Held <=> mutex = t
                       /\ place[t] \in Inside <=> holder = t

\* What a thread calls, and what is so when the call may take effect and when it has.
CallInv ==
    \A t \in Threads : /\ place[t] # "out" => call[t] \in CallsOf(kind)
                       /\ call[t] = "wait" => "wait" \in MayCall(t)
                       /\ call[t] \in {"countDown", "drain"} => place[t] \notin Sleeping
                       /\ place[t] = "effect" => ~HasToWait(t)
                       /\ call[t] = "wait" /\ place[t] \in Returning => count = 0

\* A latch is not counted down below zero, and when it is destroyed its one waiter is through.
LatchInv ==
    /\ Cardinality(Pending) <= count
    /\ destroyed => /\ kind = "CountDownLatch" /\ count = 0
                    /\ \E t \in Threads : call[t] = "wait"
                    /\ \A t \in Threads : place[t] = "out"

MonitorInv == TypeInv /\ LockInv /\ CallInv /\ LatchInv
-----------------------------------------------------------------------------
(* The mutex excludes: two threads that have it are one.                   *)
LEMMA OneHolds ==
  ASSUME LockInv, NEW t \in Threads, NEW u \in Threads, place[t] \in Held, place[u] \in Held
  PROVE  t = u
BY DEF LockInv

(* Threads are finitely many, and so are those that count down.            *)
LEMMA PendingFinite ==
  ASSUME MonitorAssumption
  PROVE  IsFiniteSet(Pending) /\ Cardinality(Pending) \in Nat
BY FS_Subset, FS_CardinalityType DEF MonitorAssumption, Pending

(* A step that leaves every call and count_ as they are, and no thread out *)
(* of its call, keeps what is said of the latch.                           *)
LEMMA LatchKept ==
  ASSUME LatchInv, Pending' = Pending, UNCHANGED <<kind, count, call, destroyed>>,
         destroyed => UNCHANGED place
  PROVE  LatchInv'
BY DEF LatchInv

(* Nobody is inside a latch that is destroyed, so a thread that is in a    *)
(* call is in one of an object that is there.                              *)
LEMMA NotDestroyed ==
  ASSUME LatchInv, NEW t \in Threads, place[t] # "out"
  PROVE  ~destroyed
BY DEF LatchInv
-----------------------------------------------------------------------------
(* Steps of pthread and of MutexLock: the thread goes from one place to    *)
(* the next, the mutex and the holder follow.                              *)
LEMMA LockKeeps ==
  ASSUME MonitorAssumption, MonitorInv, NEW t \in Threads, Lock(t)
  PROVE  MonitorInv'
<1> USE DEF MonitorInv
<1>1. PICK from, to : /\ place[t] = from /\ place' = [place EXCEPT ![t] = to]
                      /\ <<from, to>> \in {<<"lock", "locked">>, <<"asleep", "relocked">>}
  BY DEF Lock, Goes
<1>2. mutex = Free /\ mutex' = t /\ UNCHANGED <<kind, data, holder, waiting, call, begun, destroyed>>
  BY DEF Lock
<1>3. TypeInv'
  BY <1>1, <1>2 DEF TypeInv, data, Places, Held
<1>4. ASSUME NEW u \in Threads
      PROVE  (place'[u] \in Held <=> mutex' = u) /\ (place'[u] \in Inside <=> holder' = u)
  BY <1>1, <1>2 DEF MonitorAssumption, TypeInv, LockInv, Held, Inside
<1>5. CallInv'
  BY <1>1, <1>2 DEF TypeInv, CallInv, Sleeping, Returning, HasToWait, Full, data
<1>6. Pending' = Pending
  BY <1>1, <1>2 DEF TypeInv, CallInv, Sleeping, Pending
<1>7. LatchInv'
  BY <1>1, <1>2, <1>6, LatchKept, NotDestroyed DEF data
<1>8. QED
  BY <1>3, <1>4, <1>5, <1>7 DEF LockInv

(* assignHolder, in lock() and when a wait is over.                        *)
LEMMA AssignHolderKeeps ==
  ASSUME MonitorAssumption, MonitorInv, NEW t \in Threads, AssignHolder(t)
  PROVE  MonitorInv'
<1> USE DEF MonitorInv
<1>1. /\ place[t] \in {"locked", "relocked"} /\ place' = [place EXCEPT ![t] = "test"]
      /\ holder' = t /\ UNCHANGED <<kind, data, mutex, waiting, call, begun, destroyed>>
  BY DEF AssignHolder, Goes, AfterWait
<1>2. TypeInv'
  BY <1>1 DEF TypeInv, data, Places, Held
<1>3. ASSUME NEW u \in Threads
      PROVE  (place'[u] \in Held <=> mutex' = u) /\ (place'[u] \in Inside <=> holder' = u)
  BY <1>1 DEF TypeInv, LockInv, Held, Inside
<1>4. CallInv'
  BY <1>1 DEF TypeInv, CallInv, Sleeping, Returning, HasToWait, Full, data
<1>5. Pending' = Pending
  BY <1>1 DEF TypeInv, CallInv, Sleeping, Pending
<1>6. LatchInv'
  BY <1>1, <1>5, LatchKept, NotDestroyed DEF data
<1>7. QED
  BY <1>2, <1>3, <1>4, <1>6 DEF LockInv

(* unassignHolder, in unlock() and when a wait begins.                     *)
LEMMA UnassignHolderKeeps ==
  ASSUME MonitorAssumption, MonitorInv, NEW t \in Threads, UnassignHolder(t)
  PROVE  MonitorInv'
<1> USE DEF MonitorInv
<1>1. PICK from, to : /\ place[t] = from /\ place' = [place EXCEPT ![t] = to]
                      /\ <<from, to>> \in {<<"unlock", "unassigned">>, <<"wait", "sleep">>}
  BY DEF UnassignHolder, Goes
<1>2. holder' = Free /\ UNCHANGED <<kind, data, mutex, waiting, call, begun, destroyed>>
  BY DEF UnassignHolder
<1>3. TypeInv'
  BY <1>1, <1>2 DEF TypeInv, data, Places, Held
<1>4. ASSUME NEW u \in Threads
      PROVE  (place'[u] \in Held <=> mutex' = u) /\ (place'[u] \in Inside <=> holder' = u)
  BY <1>1, <1>2 DEF MonitorAssumption, TypeInv, LockInv, Held, Inside
<1>5. CallInv'
  BY <1>1, <1>2 DEF TypeInv, CallInv, Sleeping, Returning, HasToWait, Full, data
<1>6. Pending' = Pending
  BY <1>1, <1>2 DEF TypeInv, CallInv, Sleeping, Pending
<1>7. LatchInv'
  BY <1>1, <1>2, <1>6, LatchKept, NotDestroyed DEF data
<1>8. QED
  BY <1>3, <1>4, <1>5, <1>7 DEF LockInv

(* The last step of a call.  When it ends a wait for the latch, nobody     *)
(* else is in a call: who counted down has taken effect before, and has    *)
(* left the mutex to the one that waited.                                  *)
LEMMA UnlockKeeps ==
  ASSUME MonitorAssumption, MonitorInv, NEW t \in Threads, Unlock(t)
  PROVE  MonitorInv'
<1> USE DEF MonitorInv
<1>1. /\ place[t] = "unassigned" /\ place' = [place EXCEPT ![t] = "out"] /\ mutex' = Free
      /\ destroyed' = (destroyed \/ call[t] = "wait")
      /\ UNCHANGED <<kind, data, holder, waiting, call, begun>>
  BY DEF Unlock, Goes
<1>2. ~destroyed
  BY <1>1, NotDestroyed
<1>3. TypeInv'
  <2>1. destroyed' \in BOOLEAN
    BY <1>1, <1>2, Zenon
  <2>2. QED
    BY <1>1, <2>1 DEF TypeInv, data, Places
<1>4. ASSUME NEW u \in Threads
      PROVE  (place'[u] \in Held <=> mutex' = u) /\ (place'[u] \in Inside <=> holder' = u)
  BY <1>1 DEF MonitorAssumption, TypeInv, LockInv, Held, Inside
<1>5. CallInv'
  BY <1>1 DEF TypeInv, CallInv, Sleeping, Returning, HasToWait, Full, data
<1>6. Pending' = Pending
  BY <1>1 DEF TypeInv, Pending
<1>7. LatchInv'
  <2>1. CASE call[t] # "wait"
    BY <1>1, <1>2, <1>6, <2>1 DEF LatchInv, data
  <2>2. CASE call[t] = "wait"
    <3>1. kind = "CountDownLatch" /\ count = 0 /\ "wait" \in MayCall(t)
      BY <1>1, <2>2, MonitorAssumption DEF CallInv, CallsOf, Returning, TypeInv, MonitorAssumption
    <3>2. Pending = {}
      BY <3>1, PendingFinite, FS_EmptySet DEF LatchInv
    <3>3. ASSUME NEW u \in Threads, u # t
          PROVE  place[u] = "out"
      <4>1. SUFFICES ASSUME place[u] # "out" PROVE FALSE
        OBVIOUS
      <4>2. call[u] \in {"wait", "countDown"}
        BY <3>1, <4>1 DEF CallInv, CallsOf
      <4>3. CASE call[u] = "wait"
        BY <3>1, <3>3, <4>3 DEF CallInv, MonitorAssumption
      <4>4. CASE call[u] = "countDown"
        <5>1. place[u] \notin Held
          BY <1>1, <3>3, OneHolds DEF Held
        <5>2. place[u] \notin Sleeping /\ place[u] \in Places
          BY <4>4 DEF CallInv, TypeInv
        <5>3. place[u] = "lock"
          BY <4>1, <5>1, <5>2 DEF Places, Sleeping
        <5>4. u \in Pending
          BY <4>4, <5>3 DEF Pending
        <5>5. QED
          BY <3>2, <5>4
      <4>5. QED
        BY <4>2, <4>3, <4>4
    <3>4. \A u \in Threads : place'[u] = "out"
      BY <1>1, <3>3 DEF TypeInv
    <3>5. count' = 0 /\ kind' = "CountDownLatch" /\ call'[t] = "wait"
      BY <1>1, <2>2, <3>1 DEF data
    <3>6. Cardinality(Pending') <= count'
      BY <1>1, <1>6 DEF LatchInv, data
    <3>7. QED
      BY <3>4, <3>5, <3>6 DEF LatchInv
  <2>3. QED
    BY <2>1, <2>2
<1>8. QED
  BY <1>3, <1>4, <1>5, <1>7 DEF LockInv

(* Falling asleep gives the mutex up.                                      *)
LEMMA SleepKeeps ==
  ASSUME MonitorAssumption, MonitorInv, NEW t \in Threads, Sleep(t)
  PROVE  MonitorInv'
<1> USE DEF MonitorInv
<1>1. /\ place[t] = "sleep" /\ place' = [place EXCEPT ![t] = "asleep"] /\ mutex' = Free
      /\ UNCHANGED <<kind, data, holder, call, begun, destroyed>>
  BY DEF Sleep, Goes
<1>2. TypeInv'
  BY <1>1 DEF TypeInv, data, Places
<1>3. ASSUME NEW u \in Threads
      PROVE  (place'[u] \in Held <=> mutex' = u) /\ (place'[u] \in Inside <=> holder' = u)
  BY <1>1 DEF MonitorAssumption, TypeInv, LockInv, Held, Inside
<1>4. CallInv'
  BY <1>1 DEF TypeInv, CallInv, Sleeping, Returning, HasToWait, Full, data
<1>5. Pending' = Pending
  BY <1>1 DEF TypeInv, CallInv, Sleeping, Pending
<1>6. LatchInv'
  BY <1>1, <1>5, LatchKept, NotDestroyed DEF data
<1>7. QED
  BY <1>2, <1>3, <1>4, <1>6 DEF LockInv

(* Who waits and who is notified is nobody's business but the condition's. *)
LEMMA WaitingIsFree ==
  ASSUME MonitorInv,
         UNCHANGED <<kind, data, mutex, holder, place, call, begun, destroyed>>
  PROVE  MonitorInv'
<1>1. TypeInv' /\ LockInv'
  BY DEF MonitorInv, TypeInv, LockInv, data
<1>2. CallInv'
  BY DEF MonitorInv, CallInv, HasToWait, Full, data
<1>3. LatchInv'
  BY DEF MonitorInv, LatchInv, Pending, data
<1>4. QED
  BY <1>1, <1>2, <1>3 DEF MonitorInv
-----------------------------------------------------------------------------
(* Steps of the functions.                                                 *)

(* A call begins; one of countDown() only while the count has room for it. *)
LEMMA BeginKeeps ==
  ASSUME MonitorAssumption, MonitorInv,
         NEW t \in Threads, NEW c \in CallsOf(kind) \cap MayCall(t), Begin(t, c)
  PROVE  MonitorInv'
<1> USE DEF MonitorInv
<1> DEFINE Active == {u \in Threads : place[u] # "out" /\ call[u] = "countDown"}
<1>1. /\ place[t] = "out" /\ place' = [place EXCEPT ![t] = "lock"]
      /\ call' = [call EXCEPT ![t] = c] /\ value' = [value EXCEPT ![t] = begun + 1]
      /\ begun' = begun + 1
      /\ UNCHANGED <<kind, items, count, result, locks, destroyed>>
      /\ c = "wait" => call[t] = "none"
      /\ c = "countDown" => Cardinality(Active) < count
  BY DEF Begin, Goes
<1>2. c \in CallsOf(kind) /\ c \in MayCall(t) /\ c \in Names
  BY DEF CallsOf, TypeInv, MonitorAssumption, Names
<1>3. TypeInv'
  BY <1>1, <1>2 DEF TypeInv, Places
<1>4. ASSUME NEW u \in Threads
      PROVE  (place'[u] \in Held <=> mutex' = u) /\ (place'[u] \in Inside <=> holder' = u)
  BY <1>1 DEF TypeInv, LockInv, Held, Inside, locks
<1>5. ASSUME NEW u \in Threads
      PROVE  /\ place'[u] # "out" => call'[u] \in CallsOf(kind')
             /\ call'[u] = "wait" => "wait" \in MayCall(u)
             /\ call'[u] \in {"countDown", "drain"} => place'[u] \notin Sleeping
             /\ place'[u] = "effect" => ~HasToWait(u)'
             /\ call'[u] = "wait" /\ place'[u] \in Returning => count' = 0
  <2>1. CASE u = t
    BY <1>1, <1>2, <2>1 DEF TypeInv, Sleeping, Returning
  <2>2. CASE u # t
    <3>1. place'[u] = place[u] /\ call'[u] = call[u] /\ CallsOf(kind') = CallsOf(kind) /\ count' = count
      BY <1>1, <2>2 DEF TypeInv
    <3>2. HasToWait(u)' = HasToWait(u)
      BY <1>1, <3>1 DEF HasToWait, Full
    <3>3. QED
      BY <3>1, <3>2 DEF CallInv
  <2>3. QED
    BY <2>1, <2>2
<1>6. CallInv'
  BY <1>5 DEF CallInv
<1>7. LatchInv'
  <2>1. /\ IsFiniteSet(Active) /\ Cardinality(Active) \in Nat
        /\ Pending \subseteq Active /\ t \notin Pending
        /\ Cardinality(Pending) <= Cardinality(Active)
    <3>1. Pending \subseteq Active /\ t \notin Pending
      BY <1>1 DEF Pending
    <3>2. IsFiniteSet(Active)
      BY FS_Subset DEF MonitorAssumption
    <3> HIDE DEF Active
    <3>3. QED
      BY <3>1, <3>2, FS_Subset, FS_CardinalityType
  <2>2. Pending' = IF c = "countDown" THEN Pending \cup {t} ELSE Pending
    BY <1>1 DEF TypeInv, Pending
  <2>3. Cardinality(Pending') <= count'
    <3>1. CASE c = "countDown"
      <4>1. Cardinality(Pending') = Cardinality(Pending) + 1
        BY <2>1, <2>2, <3>1, PendingFinite, FS_AddElement
      <4> HIDE DEF Active
      <4>2. QED
        BY <1>1, <2>1, <3>1, <4>1, PendingFinite DEF TypeInv
    <3>2. CASE c # "countDown"
      BY <1>1, <2>2, <3>2 DEF LatchInv
    <3>3. QED
      BY <3>1, <3>2
  <2>4. ~destroyed
    <3>1. SUFFICES ASSUME destroyed PROVE FALSE
      OBVIOUS
    <3>2. PICK u \in Threads : call[u] = "wait"
      BY <3>1 DEF LatchInv
    <3>3. kind = "CountDownLatch" /\ count = 0
      BY <3>1 DEF LatchInv
    <3>4. CASE c = "wait"
      BY <1>1, <1>2, <3>2, <3>4 DEF CallInv, MonitorAssumption
    <3>5. CASE c = "countDown"
      <4> HIDE DEF Active
      <4>1. QED
        BY <1>1, <2>1, <3>3, <3>5
    <3>6. QED
      BY <1>2, <3>3, <3>4, <3>5 DEF CallsOf
  <2>5. QED
    BY <1>1, <2>3, <2>4 DEF LatchInv
<1>8. QED
  BY <1>3, <1>4, <1>6, <1>7 DEF LockInv

(* The test of the loop around a wait: past it the call may take effect,   *)
(* and the mutex sees to it that this stays so.                            *)
LEMMA TestKeeps ==
  ASSUME MonitorAssumption, MonitorInv, NEW t \in Threads, Test(t)
  PROVE  MonitorInv'
<1> USE DEF MonitorInv
<1>1. /\ place[t] = "test" /\ UNCHANGED <<kind, data, locks, call, begun, destroyed>>
      /\ place' = [place EXCEPT ![t] = IF HasToWait(t) THEN "wait" ELSE "effect"]
  BY DEF Test, Goes, WaitBegins
<1>2. place'[t] \in {"wait", "effect"} /\ \A u \in Threads : u # t => place'[u] = place[u]
  BY <1>1 DEF TypeInv
<1>3. TypeInv'
  BY <1>1 DEF TypeInv, data, Places, Held
<1>4. ASSUME NEW u \in Threads
      PROVE  (place'[u] \in Held <=> mutex' = u) /\ (place'[u] \in Inside <=> holder' = u)
  BY <1>1, <1>2 DEF TypeInv, LockInv, Held, Inside, locks
<1>5. \A u \in Threads : HasToWait(u)' = HasToWait(u)
  BY <1>1 DEF HasToWait, Full, data
<1>6. place'[t] = (IF HasToWait(t) THEN "wait" ELSE "effect") /\ (HasToWait(t) => call[t] \notin {"countDown", "drain"})
  BY <1>1 DEF TypeInv, HasToWait
<1>7. CallInv'
  <2>1. ASSUME NEW u \in Threads
        PROVE  /\ place'[u] # "out" => call'[u] \in CallsOf(kind')
               /\ call'[u] = "wait" => "wait" \in MayCall(u)
               /\ call'[u] \in {"countDown", "drain"} => place'[u] \notin Sleeping
               /\ place'[u] = "effect" => ~HasToWait(u)'
               /\ call'[u] = "wait" /\ place'[u] \in Returning => count' = 0
    <3>1. call' = call /\ kind' = kind /\ count' = count
      BY <1>1 DEF data
    <3>2. CASE u = t
      BY <1>1, <1>5, <1>6, <3>1, <3>2 DEF CallInv, Sleeping, Returning
    <3>3. CASE u # t
      BY <1>2, <1>5, <3>1, <3>3 DEF CallInv
    <3>4. QED
      BY <3>2, <3>3
  <2>2. QED
    BY <2>1 DEF CallInv
<1>8. Pending' = Pending
  BY <1>1, <1>2, <1>6 DEF TypeInv, Pending
<1>9. LatchInv'
  BY <1>1, <1>8, LatchKept, NotDestroyed DEF data
<1>10. QED
  BY <1>3, <1>4, <1>7, <1>9 DEF LockInv

(* The effect: whatever it changes, nobody else is past its own test.      *)
LEMMA EffectKeeps ==
  ASSUME MonitorAssumption, MonitorInv, NEW t \in Threads, Effect(t)
  PROVE  MonitorInv'
<1> USE DEF MonitorInv
<1>1. /\ place[t] = "effect" /\ place' = [place EXCEPT ![t] = "notify"]
      /\ count' = IF call[t] = "countDown" THEN count - 1 ELSE count
      /\ UNCHANGED <<kind, value, locks, call, begun, destroyed>>
  BY DEF Effect, Goes
<1>2. place'[t] = "notify" /\ \A u \in Threads : u # t => place'[u] = place[u] /\ place[u] \notin Held
  <2>1. \A u \in Threads : u # t => place[u] \notin Held
    BY <1>1, OneHolds DEF Held
  <2>2. QED
    BY <1>1, <2>1 DEF TypeInv
<1>3. count' \in Nat /\ Cardinality(Pending') <= count'
  <2>1. CASE call[t] = "countDown"
    <3>1. t \in Pending /\ Pending' = Pending \ {t}
      BY <1>1, <2>1 DEF TypeInv, Pending
    <3>2. Cardinality(Pending') = Cardinality(Pending) - 1 /\ Cardinality(Pending') \in Nat
      BY <3>1, PendingFinite, FS_RemoveElement, FS_CardinalityType
    <3>3. QED
      BY <1>1, <2>1, <3>2, PendingFinite DEF TypeInv, LatchInv
  <2>2. CASE call[t] # "countDown"
    <3>1. Pending' = Pending /\ count' = count
      BY <1>1, <2>2 DEF TypeInv, Pending
    <3>2. QED
      BY <3>1 DEF TypeInv, LatchInv
  <2>3. QED
    BY <2>1, <2>2
<1>4. TypeInv'
  BY <1>1, <1>3 DEF TypeInv, Places, Held
<1>5. ASSUME NEW u \in Threads
      PROVE  (place'[u] \in Held <=> mutex' = u) /\ (place'[u] \in Inside <=> holder' = u)
  BY <1>1, <1>2 DEF TypeInv, LockInv, Held, Inside, locks
<1>6. CallInv'
  <2>1. ASSUME NEW u \in Threads
        PROVE  /\ place'[u] # "out" => call'[u] \in CallsOf(kind')
               /\ call'[u] = "wait" => "wait" \in MayCall(u)
               /\ call'[u] \in {"countDown", "drain"} => place'[u] \notin Sleeping
               /\ place'[u] = "effect" => ~HasToWait(u)'
               /\ call'[u] = "wait" /\ place'[u] \in Returning => count' = 0
    <3>1. CASE u = t
      <4>1. call[t] = "wait" => count = 0
        BY <1>1 DEF CallInv, HasToWait, TypeInv
      <4>2. QED
        BY <1>1, <1>2, <3>1, <4>1 DEF CallInv, Sleeping, Returning
    <3>2. CASE u # t
      BY <1>1, <1>2, <3>2 DEF CallInv, Held, Returning
    <3>3. QED
      BY <3>1, <3>2
  <2>2. QED
    BY <2>1 DEF CallInv
<1>7. LatchInv'
  BY <1>1, <1>3, NotDestroyed DEF LatchInv
<1>8. QED
  BY <1>4, <1>5, <1>6, <1>7 DEF LockInv

(* The notification wakes threads up and leaves the rest alone.            *)
LEMMA NotifyKeeps ==
  ASSUME MonitorAssumption, MonitorInv, NEW t \in Threads, NotifyThreads(t)
  PROVE  MonitorInv'
<1> USE DEF MonitorInv
<1>1. /\ place[t] = "notify" /\ place' = [place EXCEPT ![t] = "unlock"]
      /\ UNCHANGED <<kind, data, mutex, holder, call, begun, destroyed>>
  BY DEF NotifyThreads, Goes
<1>2. TypeInv'
  BY <1>1 DEF TypeInv, data, Places, Held
<1>3. ASSUME NEW u \in Threads
      PROVE  (place'[u] \in Held <=> mutex' = u) /\ (place'[u] \in Inside <=> holder' = u)
  BY <1>1 DEF TypeInv, LockInv, Held, Inside
<1>4. CallInv'
  BY <1>1 DEF TypeInv, CallInv, Sleeping, Returning, HasToWait, Full, data
<1>5. Pending' = Pending
  BY <1>1 DEF TypeInv, Pending
<1>6. LatchInv'
  BY <1>1, <1>5, LatchKept, NotDestroyed DEF data
<1>7. QED
  BY <1>2, <1>3, <1>4, <1>6 DEF LockInv
-----------------------------------------------------------------------------
(* The inductive invariant, from the first state on.                       *)
LEMMA MonitorInvariant == MonitorSpec => []MonitorInv
<1>1. MonitorInit => MonitorInv
  <2> SUFFICES ASSUME MonitorInit PROVE MonitorInv
    OBVIOUS
  <2> USE MonitorAssumption
  <2>1. TypeInv /\ LockInv /\ CallInv
    <3>1. kind \in Kinds /\ count \in Nat /\ begun \in Nat /\ destroyed \in BOOLEAN
      <4>1. count \in IF kind = "CountDownLatch" THEN Counts ELSE {0}
        BY DEF MonitorInit
      <4>2. count \in Nat
        BY <4>1 DEF MonitorAssumption
      <4>3. destroyed \in BOOLEAN
        BY Zenon DEF MonitorInit
      <4>4. QED
        BY <4>2, <4>3 DEF MonitorInit
    <3>2. TypeInv
      BY <3>1 DEF MonitorInit, TypeInv, Places, Names
    <3>3. LockInv
      BY DEF MonitorInit, MonitorAssumption, LockInv, Held, Inside
    <3>4. CallInv
      BY DEF MonitorInit, CallInv, Returning
    <3>5. QED
      BY <3>2, <3>3, <3>4
  <2>2. Pending = {}
    BY DEF MonitorInit, Pending
  <2>3. Cardinality(Pending) = 0
    BY <2>2, FS_EmptySet
  <2>4. QED
    BY <2>1, <2>3 DEF MonitorInit, MonitorInv, LatchInv, TypeInv
<1>2. MonitorInv /\ [MonitorNext]_monitorVars => MonitorInv'
  <2> SUFFICES ASSUME MonitorInv, [MonitorNext]_monitorVars PROVE MonitorInv'
    OBVIOUS
  <2> USE MonitorAssumption
  <2>1. ASSUME NEW t \in Threads, Runs(t)
        PROVE  MonitorInv'
    BY <2>1, LockKeeps, AssignHolderKeeps, UnassignHolderKeeps, UnlockKeeps, SleepKeeps,
       TestKeeps, EffectKeeps, NotifyKeeps DEF Runs
  <2>2. ASSUME NEW t \in Threads, SpuriousWakeup(t)
        PROVE  MonitorInv'
    BY <2>2, WaitingIsFree DEF SpuriousWakeup
  <2>3. ASSUME NEW t \in Threads, NEW c \in CallsOf(kind) \cap MayCall(t), Begin(t, c)
        PROVE  MonitorInv'
    BY <2>3, BeginKeeps
  <2>4. CASE UNCHANGED monitorVars
    BY <2>4, WaitingIsFree DEF monitorVars, data
  <2>5. QED
    BY <2>1, <2>2, <2>3, <2>4 DEF MonitorNext
<1>3. QED
  BY <1>1, <1>2, PTL DEF MonitorSpec

(* Inside a function the thread is the holder and alone, nobody is taken   *)
(* for the holder who has not the mutex, and nobody is in a latch when the *)
(* one that waited for it destroys it.                                     *)
THEOREM HolderIsTrue == MonitorSpec => []HolderTrue
<1>1. MonitorInv => HolderTrue
  BY DEF MonitorInv, LockInv, LatchInv, HolderTrue, Inside, Held
<1>2. QED
  BY <1>1, MonitorInvariant, PTL
-----------------------------------------------------------------------------
(* The calls are atomic: every step of Monitor is a step of AtomicCalls,   *)
(* the beginning, the effect or the end of one call, or none.              *)

(* What AtomicCalls sees of a thread that goes from one place to another.  *)
LEMMA Stages ==
  ASSUME TypeInv, NEW t \in Threads, NEW to \in Places, place' = [place EXCEPT ![t] = to]
  PROVE  /\ Stage[t] = CASE place[t] = "out" -> "out" [] place[t] \in Returning -> "done" [] OTHER -> "in"
         /\ Stage' = [Stage EXCEPT ![t] = CASE to = "out" -> "out" [] to \in Returning -> "done"
                                             [] OTHER -> "in"]
BY DEF TypeInv, Stage, Returning

(* Nothing that AtomicCalls knows of changes.                              *)
LEMMA Stutters ==
  ASSUME UNCHANGED <<kind, data, call>>, UNCHANGED Stage
  PROVE  UNCHANGED Atomic!vars
BY DEF data, Atomic!vars

(* A thread goes on, but not past the effect of its call.                  *)
LEMMA GoesOnQuietly ==
  ASSUME TypeInv, NEW t \in Threads, NEW from, NEW to \in Places, Goes(t, from, to),
         \/ {from, to} \subseteq Returning
         \/ {from, to} \cap (Returning \cup {"out"}) = {},
         UNCHANGED <<kind, data, call>>
  PROVE  UNCHANGED Atomic!vars
<1>1. place[t] = from /\ place' = [place EXCEPT ![t] = to]
  BY DEF Goes
<1>2. Stage' = [Stage EXCEPT ![t] = Stage[t]]
  <2>1. CASE {from, to} \subseteq Returning
    <3>1. Stage[t] = "done" /\ Stage' = [Stage EXCEPT ![t] = "done"]
      BY <1>1, <2>1, Stages DEF Returning
    <3>2. QED
      BY <3>1
  <2>2. CASE {from, to} \cap (Returning \cup {"out"}) = {}
    <3>1. from \notin Returning \cup {"out"} /\ to \notin Returning \cup {"out"}
      BY <2>2
    <3>2. Stage[t] = "in" /\ Stage' = [Stage EXCEPT ![t] = "in"]
      BY <1>1, <3>1, Stages
    <3>3. QED
      BY <3>2
  <2>3. QED
    BY <2>1, <2>2
<1>3. Stage' = Stage
  BY <1>2 DEF Stage
<1>4. QED
  BY <1>3, Stutters

(* The effect of a call is that of AtomicCalls: what the loop has tested   *)
(* is still so, and a full queue gives up nothing.                         *)
LEMMA EffectIsAtomic ==
  ASSUME MonitorInv, NEW t \in Threads, Effect(t)
  PROVE  Atomic!TakeEffect(t)
<1>1. /\ place[t] = "effect" /\ place' = [place EXCEPT ![t] = "notify"]
      /\ count' = (IF call[t] = "countDown" THEN count - 1 ELSE count)
      /\ UNCHANGED <<kind, value, locks, call, begun, destroyed>>
  BY DEF Effect, Goes
<1>2. Stage[t] = "in" /\ Stage' = [Stage EXCEPT ![t] = "done"]
  BY <1>1, Stages DEF MonitorInv, Returning, Places, Held
<1>3. ~HasToWait(t)
  BY <1>1 DEF MonitorInv, CallInv
<1>4. ~Atomic!MayNot(call[t])
  BY <1>3 DEF HasToWait, Full, Atomic!MayNot
<1>5. call[t] = "put" => ~Full
  BY <1>3 DEF HasToWait
<1>6. /\ items' = CASE call[t] = "put" -> Append(items, value[t])
                    [] call[t] = "take" -> Tail(items)
                    [] call[t] = "drain" -> <<>>
                    [] OTHER -> items
      /\ result' = [result EXCEPT ![t] = CASE call[t] = "take" -> <<Head(items)>>
                                           [] call[t] = "drain" -> items
                                           [] OTHER -> <<>>]
  BY <1>5 DEF Effect, Put
<1>7. QED
  BY <1>1, <1>2, <1>4, <1>6 DEF Atomic!TakeEffect

(* A call begins, with a value to put.                                     *)
LEMMA BeginIsAtomic ==
  ASSUME MonitorAssumption, MonitorInv,
         NEW t \in Threads, NEW c \in CallsOf(kind) \cap MayCall(t), Begin(t, c)
  PROVE  Atomic!Begin(t)
<1>1. /\ place[t] = "out" /\ place' = [place EXCEPT ![t] = "lock"]
      /\ call' = [call EXCEPT ![t] = c] /\ value' = [value EXCEPT ![t] = begun + 1]
      /\ UNCHANGED <<kind, items, count, result>>
  BY DEF Begin, Goes
<1>2. Stage[t] = "out" /\ Stage' = [Stage EXCEPT ![t] = "in"]
  <2>1. TypeInv /\ "lock" \in Places /\ "lock" \notin Returning /\ "lock" # "out"
    BY DEF MonitorInv, Places, Returning
  <2>2. Stage' = [Stage EXCEPT ![t] = "in"]
    BY <1>1, <2>1, Stages
  <2>3. Stage[t] = "out"
    BY <1>1 DEF Stage
  <2>4. QED
    BY <2>2, <2>3
<1>3. c \in Atomic!Calls[kind]
  BY DEF CallsOf, Atomic!Calls, MonitorInv, TypeInv, MonitorAssumption
<1>4. value'[t] = begun + 1 /\ begun + 1 \in Nat
  BY <1>1 DEF MonitorInv, TypeInv
<1>5. QED
  BY <1>1, <1>2, <1>3, <1>4 DEF Atomic!Begin

(* Every step, of any thread.                                              *)
LEMMA StepIsAtomic ==
  ASSUME MonitorAssumption, MonitorInv, [MonitorNext]_monitorVars
  PROVE  [Atomic!Next]_Atomic!vars
<1> USE DEF Places, Held, Returning
<1>1. TypeInv
  BY DEF MonitorInv
<1>2. ASSUME NEW t \in Threads, Lock(t)
      PROVE  UNCHANGED Atomic!vars
  BY <1>1, <1>2, GoesOnQuietly DEF Lock
<1>3. ASSUME NEW t \in Threads, AssignHolder(t)
      PROVE  UNCHANGED Atomic!vars
  BY <1>1, <1>3, GoesOnQuietly DEF AssignHolder, AfterWait
<1>4. ASSUME NEW t \in Threads, UnassignHolder(t)
      PROVE  UNCHANGED Atomic!vars
  BY <1>1, <1>4, GoesOnQuietly DEF UnassignHolder
<1>5. ASSUME NEW t \in Threads, Unlock(t)
      PROVE  Atomic!End(t)
  <2>1. place[t] = "unassigned" /\ place' = [place EXCEPT ![t] = "out"] /\ UNCHANGED <<kind, data, call>>
    BY <1>5 DEF Unlock, Goes
  <2>2. Stage[t] = "done" /\ Stage' = [Stage EXCEPT ![t] = "out"]
    BY <1>1, <2>1, Stages
  <2>3. QED
    BY <2>1, <2>2 DEF data, Atomic!End
<1>6. ASSUME NEW t \in Threads, Sleep(t)
      PROVE  UNCHANGED Atomic!vars
  BY <1>1, <1>6, GoesOnQuietly DEF Sleep
<1>7. ASSUME NEW t \in Threads, Test(t)
      PROVE  UNCHANGED Atomic!vars
  BY <1>1, <1>7, GoesOnQuietly DEF Test, WaitBegins
<1>8. ASSUME NEW t \in Threads, NotifyThreads(t)
      PROVE  UNCHANGED Atomic!vars
  BY <1>1, <1>8, GoesOnQuietly DEF NotifyThreads
<1>9. ASSUME NEW t \in Threads, SpuriousWakeup(t)
      PROVE  UNCHANGED Atomic!vars
  BY <1>9, Stutters DEF SpuriousWakeup, Stage
<1>10. CASE UNCHANGED monitorVars
  BY <1>10, Stutters DEF monitorVars, data, Stage
<1>11. QED
  BY <1>2, <1>3, <1>4, <1>5, <1>6, <1>7, <1>8, <1>9, <1>10, EffectIsAtomic, BeginIsAtomic
     DEF MonitorNext, Runs, Atomic!Next

(* Each call of put(), take(), wait() and the rest takes effect as if at   *)
(* once, between its beginning and its end and not before it may: no value *)
(* is lost, doubled or overtaken, none is put into a full queue or taken   *)
(* from an empty one, and wait() returns at zero.                          *)
THEOREM CallsAreAtomic == MonitorSpec => ImplementsCalls
<1>1. MonitorInit => Atomic!Init
  <2> SUFFICES ASSUME MonitorInit PROVE Atomic!Init
    OBVIOUS
  <2>1. kind \in Kinds /\ count \in Nat
    BY MonitorAssumption DEF MonitorInit, MonitorAssumption
  <2>2. Stage = [t \in Threads |-> "out"]
    BY DEF MonitorInit, Stage
  <2>3. QED
    BY <2>1, <2>2 DEF MonitorInit, Atomic!Init
<1>2. MonitorInv /\ [MonitorNext]_monitorVars => [Atomic!Next]_Atomic!vars
  BY MonitorAssumption, StepIsAtomic
<1>3. QED
  BY <1>1, <1>2, MonitorInvariant, PTL DEF MonitorSpec, ImplementsCalls, Atomic!Spec
=============================================================================
