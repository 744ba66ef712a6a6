--------------------------- MODULE EventLoopProofs ---------------------------
(***************************************************************************)
(* Theorems about EventLoop, for any callers and any number of functors:   *)
(* no wakeup is lost, a batch does not grow, and the loop implements       *)
(* TaskExecutor.  And theorems about Poller, on which the loop sleeps, for *)
(* every finite set of file descriptors and both pollers, as the library   *)
(* uses them: a callback removes its own channel only, and under poll(2) a *)
(* channel that went idle stays so.                                        *)
(***************************************************************************)
EXTENDS EventLoop, Poller, FiniteSetTheorems, SequenceTheorems, TLAPS

(* The loop.                                                               *)

(* The functor a thread hands over next is one of its own.                 *)
LEMMA NextFunctorType ==
  ASSUME NEW t \in Threads, TypeOK, Issue(t)
  PROVE  NextFunctor(t) \in Functors
<1>1. MaxCalls[t] \in Nat /\ issued[t] \in Nat /\ issued[t] < MaxCalls[t]
  BY LoopAssumption DEF Threads, TypeOK, Issue
<1>2. issued[t] + 1 \in 1..MaxCalls[t]
  BY <1>1
<1>3. <<t, issued[t] + 1>> \in {t} \X (1..MaxCalls[t])
  BY <1>2
<1>4. QED
  BY <1>3 DEF Functors, NextFunctor

(* A thread that issues a functor stays within its bound.                  *)
LEMMA IssuedType ==
  ASSUME NEW t \in Threads, TypeOK, Issue(t)
  PROVE  issued' \in [Threads -> Nat] /\ \A u \in Threads : issued'[u] <= MaxCalls[u]
BY LoopAssumption DEF Threads, TypeOK, Issue

(* The state always has its type; in particular no thread outside Callers  *)
(* is ever recorded as about to write the eventfd.                         *)
LEMMA TypeCorrect == Spec => []TypeOK
<1> USE LoopAssumption DEF Threads, LoopPoints, Channels, UserCode,
       RequestWakeup, Enqueue, LoopMustWake, TakeBatch
<1>1. Init => TypeOK
  <2> SUFFICES ASSUME Init PROVE TypeOK
    OBVIOUS
  <2>1. /\ lpc \in LoopPoints
        /\ quit \in BOOLEAN
        /\ calling \in BOOLEAN
        /\ eventfd \in BOOLEAN
    BY DEF Init
  <2>2. /\ pending \in Seq(Functors)
        /\ functors \in Seq(Functors)
        /\ done \in Seq(Functors)
    BY DEF Init
  <2>3. /\ active \in SUBSET Channels
        /\ waking \in SUBSET Callers
        /\ silent \in SUBSET Functors
    BY DEF Init
  <2>4. /\ issued \in [Threads -> Nat] /\ \A t \in Threads : issued[t] <= MaxCalls[t]
        /\ loops \in 0..MaxLoops
    BY DEF Init
  <2>5. QED
    BY <2>1, <2>2, <2>3, <2>4 DEF TypeOK
<1>2. TypeOK /\ [Next]_vars => TypeOK'
  <2> SUFFICES ASSUME TypeOK, [Next]_vars
               PROVE  TypeOK'
    OBVIOUS
  <2> USE DEF TypeOK
  <2>1. ASSUME NEW t \in Callers, QueueInLoop(t) PROVE TypeOK'
    <3>1. t \in Threads /\ Issue(t)
      BY <2>1 DEF QueueInLoop
    <3>2. NextFunctor(t) \in Functors
      BY <3>1, NextFunctorType
    <3>3. pending' \in Seq(Functors)
      BY <2>1, <3>2 DEF QueueInLoop
    <3>4. QED
      BY <2>1, <3>1, <3>3, IssuedType DEF QueueInLoop
  <2>2. ASSUME NEW t \in Callers, Quit(t) PROVE TypeOK'
    BY <2>2 DEF Quit
  <2>3. ASSUME NEW t \in Callers, Wakeup(t) PROVE TypeOK'
    BY <2>3 DEF Wakeup
  <2>4. CASE QueueInLoopThread
    <3>1. Loop \in Threads /\ Issue(Loop)
      BY <2>4 DEF QueueInLoopThread
    <3>2. NextFunctor(Loop) \in Functors
      BY <3>1, NextFunctorType
    <3>3. pending' \in Seq(Functors) /\ silent' \in SUBSET Functors
      BY <2>4, <3>2 DEF QueueInLoopThread
    <3>4. QED
      BY <2>4, <3>1, <3>3, IssuedType DEF QueueInLoopThread
  <2>5. CASE RunInLoopThread
    <3>1. Loop \in Threads /\ Issue(Loop)
      BY <2>5 DEF RunInLoopThread
    <3>2. NextFunctor(Loop) \in Functors
      BY <3>1, NextFunctorType
    <3>3. done' \in Seq(Functors)
      BY <2>5, <3>2 DEF RunInLoopThread
    <3>4. QED
      BY <2>5, <3>1, <3>3, IssuedType DEF RunInLoopThread
  <2>6. CASE QuitLoopThread
    BY <2>6 DEF QuitLoopThread
  <2>7. CASE EnterLoop
    <3>1. loops' \in 0..MaxLoops
      BY <2>7 DEF EnterLoop
    <3>2. lpc' \in LoopPoints /\ quit' \in BOOLEAN
      BY <2>7 DEF EnterLoop
    <3>3. UNCHANGED <<calling, eventfd, active, waking, queueVars>>
      BY <2>7 DEF EnterLoop
    <3>4. QED
      BY <3>1, <3>2, <3>3 DEF queueVars
  <2>8. CASE CheckQuit
    BY <2>8 DEF CheckQuit, queueVars
  <2>9. CASE PollWakeup \/ PollIO \/ PollTimeout
    BY <2>9 DEF PollWakeup, PollIO, PollTimeout, PollReturns, queueVars
  <2>10. CASE HandleRead
    BY <2>10 DEF HandleRead, queueVars
  <2>11. CASE HandleEvent
    BY <2>11 DEF HandleEvent, queueVars
  <2>12. CASE SwapPending
    BY <2>12 DEF SwapPending
  <2>13. CASE RunFunctor
    BY <2>13 DEF RunFunctor
  <2>14. CASE UserCodeReturns
    BY <2>14 DEF UserCodeReturns, queueVars
  <2>15. CASE EndPending
    BY <2>15 DEF EndPending, queueVars
  <2>16. CASE UNCHANGED vars
    BY <2>16 DEF vars
  <2>17. QED
    BY <2>1, <2>2, <2>3, <2>4, <2>5, <2>6, <2>7, <2>8, <2>9, <2>10, <2>11,
       <2>12, <2>13, <2>14, <2>15, <2>16
    DEF Next, CallerStep, LoopStep
<1>3. QED
  BY <1>1, <1>2, PTL DEF Spec

(* The loop never sleeps in poll() on a functor or a quit it was told of,  *)
(* for any number of callers and any interleaving of push, wakeup, read of *)
(* the eventfd and swap.                                                   *)
THEOREM WakeupNeverLost == Spec => []NoLostWakeup
<1> USE DEF Announced, RequestWakeup, Enqueue, LoopMustWake, TakeBatch
<1>1. Init => WakeupInv
  BY DEF Init, WakeupInv, FlagCoversBatch, QueueAnnounced, QuitAnnounced
<1>2. TypeOK /\ WakeupInv /\ [Next]_vars => WakeupInv'
  <2> SUFFICES ASSUME TypeOK, WakeupInv, [Next]_vars
               PROVE  WakeupInv'
    OBVIOUS
  <2> USE DEF WakeupInv, FlagCoversBatch, QueueAnnounced, QuitAnnounced
  <2>1. ASSUME NEW t \in Callers, QueueInLoop(t) PROVE WakeupInv'
    BY <2>1 DEF QueueInLoop
  <2>2. ASSUME NEW t \in Callers, Quit(t) PROVE WakeupInv'
    BY <2>2 DEF Quit
  <2>3. ASSUME NEW t \in Callers, Wakeup(t) PROVE WakeupInv'
    BY <2>3 DEF Wakeup
  <2>4. CASE QueueInLoopThread
    <3>1. FlagCoversBatch' /\ QuitAnnounced'
      BY <2>4 DEF QueueInLoopThread, UserCode
    <3>2. CASE eventfd'
      BY <3>1, <3>2
    <3>3. CASE ~eventfd' /\ lpc = "out"
      <4>1. silent' = silent \cup {NextFunctor(Loop)}
        BY <2>4, <3>3 DEF QueueInLoopThread
      <4>2. /\ Len(pending') = Len(pending) + 1
            /\ pending'[Len(pending) + 1] = NextFunctor(Loop)
            /\ \A i \in 1..Len(pending) : pending'[i] = pending[i]
        BY <2>4 DEF QueueInLoopThread, TypeOK
      <4>3. Announced' <=> Announced
        BY <2>4, <3>3 DEF QueueInLoopThread
      <4>4. ASSUME ~Announced, NEW i \in 1..Len(pending') PROVE pending'[i] \in silent'
        <5>1. Len(pending) \in Nat
          BY DEF TypeOK
        <5>2. i \in 1..Len(pending) \/ i = Len(pending) + 1
          BY <4>2, <4>4, <5>1
        <5>3. \A j \in 1..Len(pending) : pending[j] \in silent
          BY <3>3, <4>4, <2>4 DEF QueueInLoopThread
        <5>4. QED
          BY <4>1, <4>2, <5>2, <5>3
      <4>5. QED
        BY <3>1, <4>3, <4>4
    <3>4. CASE ~eventfd' /\ lpc # "out"
      BY <2>4, <3>1, <3>4 DEF QueueInLoopThread, UserCode
    <3>5. QED
      BY <3>2, <3>3, <3>4
  <2>5. CASE RunInLoopThread \/ QuitLoopThread
    BY <2>5 DEF RunInLoopThread, QuitLoopThread, UserCode
  <2>6. CASE EnterLoop
    BY <2>6 DEF EnterLoop, queueVars
  <2>7. CASE CheckQuit
    BY <2>7 DEF CheckQuit, queueVars
  <2>8. CASE PollWakeup \/ PollIO \/ PollTimeout
    BY <2>8 DEF PollWakeup, PollIO, PollTimeout, PollReturns, queueVars
  <2>9. CASE HandleRead \/ HandleEvent
    BY <2>9 DEF HandleRead, HandleEvent, queueVars
  <2>10. CASE SwapPending
    BY <2>10 DEF SwapPending
  <2>11. CASE RunFunctor
    BY <2>11 DEF RunFunctor
  <2>12. CASE UserCodeReturns
    BY <2>12 DEF UserCodeReturns, queueVars
  <2>13. CASE EndPending
    BY <2>13 DEF EndPending, queueVars
  <2>14. CASE UNCHANGED vars
    BY <2>14 DEF vars
  <2>15. QED
    BY <2>1, <2>2, <2>3, <2>4, <2>5, <2>6, <2>7, <2>8, <2>9, <2>10, <2>11,
       <2>12, <2>13, <2>14
    DEF Next, CallerStep, LoopStep
<1>3. WakeupInv => NoLostWakeup
  BY DEF WakeupInv, QueueAnnounced, QuitAnnounced, NoLostWakeup
<1>4. QED
  BY <1>1, <1>2, <1>3, TypeCorrect, PTL DEF Spec

(* Appending to the second of two sequences appends to the concatenation.  *)
LEMMA AppendConcat ==
  ASSUME NEW S, NEW s \in Seq(S), NEW t \in Seq(S), NEW e \in S
  PROVE  s \o Append(t, e) = Append(s \o t, e)
  OBVIOUS

(* Removing the head of the first of two sequences removes the head of the *)
(* concatenation.                                                          *)
LEMMA TailConcat ==
  ASSUME NEW S, NEW s \in Seq(S), NEW t \in Seq(S), s # <<>>
  PROVE  /\ s \o t # <<>>
         /\ Head(s \o t) = Head(s)
         /\ Tail(s \o t) = Tail(s) \o t
  OBVIOUS

(* doPendingFunctors leaves no functor of its batch behind, so that the    *)
(* swap never overwrites one.                                              *)
LEMMA NoBatchLeft == Spec => []BatchDrained
<1>1. Init => BatchDrained
  BY DEF Init, BatchDrained
<1>2. BatchDrained /\ [Next]_vars => BatchDrained'
  BY DEF BatchDrained, TakeBatch, Next, CallerStep, LoopStep, vars, queueVars, QueueInLoop,
     Quit, Wakeup, QueueInLoopThread, RunInLoopThread, QuitLoopThread, EnterLoop,
     CheckQuit, PollWakeup, PollIO, PollTimeout, PollReturns, HandleRead,
     HandleEvent, SwapPending, RunFunctor, UserCodeReturns, EndPending, UserCode
<1>3. QED
  BY <1>1, <1>2, PTL DEF Spec

(* The eventfd, the batches and the swap implement the FIFO contract of    *)
(* TaskExecutor: every step of EventLoop accepts one functor, runs the     *)
(* oldest one, runs one at once, or leaves the contract's state alone.     *)
THEOREM Refinement == Spec => ImplementsExecutor
<1> USE DEF Enqueue, TakeBatch, Executor!vars, Executor!Submit, Executor!RunNow, Executor!Execute
<1>1. Init => Executor!Init
  BY DEF Init, Executor!Init
<1>2. TypeOK /\ BatchDrained /\ [Next]_vars => [Executor!Next]_(Executor!vars)
  <2> SUFFICES ASSUME TypeOK, BatchDrained, [Next]_vars
               PROVE  Executor!Next \/ UNCHANGED Executor!vars
    OBVIOUS
  <2> USE DEF TypeOK
  <2>1. ASSUME NEW t \in Threads, Issue(t)
        PROVE  NextFunctor(t) \in Functors
    BY <2>1, NextFunctorType
  <2>2. ASSUME NEW t \in Callers, QueueInLoop(t) PROVE Executor!Next
    <3>1. /\ pending' = Append(pending, NextFunctor(t))
          /\ UNCHANGED <<functors, done>>
          /\ NextFunctor(t) \in Functors
      BY <2>1, <2>2 DEF QueueInLoop, Threads
    <3>2. Executor!Submit(NextFunctor(t))
      BY <3>1, AppendConcat
    <3>3. QED
      BY <3>1, <3>2 DEF Executor!Next
  <2>3. CASE QueueInLoopThread
    <3>1. /\ pending' = Append(pending, NextFunctor(Loop))
          /\ UNCHANGED <<functors, done>>
          /\ NextFunctor(Loop) \in Functors
      BY <2>1, <2>3 DEF QueueInLoopThread, Threads
    <3>2. Executor!Submit(NextFunctor(Loop))
      BY <3>1, AppendConcat
    <3>3. QED
      BY <3>1, <3>2 DEF Executor!Next
  <2>4. CASE RunInLoopThread
    <3>1. /\ done' = Append(done, NextFunctor(Loop))
          /\ UNCHANGED <<functors, pending>>
          /\ NextFunctor(Loop) \in Functors
      BY <2>1, <2>4 DEF RunInLoopThread, Threads
    <3>2. QED
      BY <3>1 DEF Executor!Next
  <2>5. CASE SwapPending
    <3>1. functors = <<>> /\ functors' = pending /\ pending' = <<>> /\ done' = done
      BY <2>5 DEF SwapPending, BatchDrained
    <3>2. QED
      BY <3>1
  <2>6. CASE RunFunctor
    <3>1. /\ functors # <<>>
          /\ functors' = Tail(functors)
          /\ done' = Append(done, Head(functors))
          /\ pending' = pending
      BY <2>6 DEF RunFunctor
    <3>2. Executor!Execute
      BY <3>1, TailConcat
    <3>3. QED
      BY <3>2 DEF Executor!Next
  <2>7. CASE UNCHANGED <<pending, functors, done>>
    BY <2>7
  <2>8. QED
    BY <2>2, <2>3, <2>4, <2>5, <2>6, <2>7
    DEF Next, CallerStep, LoopStep, vars, queueVars, Quit, Wakeup, QuitLoopThread,
        EnterLoop, CheckQuit, PollWakeup, PollIO, PollTimeout, PollReturns,
        HandleRead, HandleEvent, UserCodeReturns, EndPending
<1>3. QED
  BY <1>1, <1>2, TypeCorrect, NoBatchLeft, PTL DEF Spec, ImplementsExecutor, Executor!Spec

(* A batch never grows while it is run.                                    *)
THEOREM BatchesBounded == Spec => BatchBounded
<1>1. TypeOK /\ [Next]_vars
         => [(lpc \in {"run", "functor"}) => Len(functors') <= Len(functors)]_vars
  <2> SUFFICES ASSUME TypeOK, Next, lpc \in {"run", "functor"}
               PROVE  Len(functors') <= Len(functors)
    BY DEF vars
  <2>1. Len(functors) \in Nat
    BY DEF TypeOK
  <2>2. CASE RunFunctor
    BY <2>1, <2>2 DEF RunFunctor, TypeOK
  <2>3. CASE UNCHANGED functors
    BY <2>1, <2>3
  <2>4. QED
    BY <2>2, <2>3
    DEF Next, CallerStep, LoopStep, queueVars, QueueInLoop, Quit, Wakeup,
        QueueInLoopThread, RunInLoopThread, QuitLoopThread, EnterLoop, CheckQuit,
        PollWakeup, PollIO, PollTimeout, PollReturns, HandleRead, HandleEvent,
        SwapPending, UserCodeReturns, EndPending
<1>2. QED
  BY <1>1, TypeCorrect, PTL DEF Spec, BatchBounded
-----------------------------------------------------------------------------
(* The pollers.                                                            *)

AsTheLibraryDoes == "poll" \notin MayResume /\ Removes \subseteq {"own"}

\* The loop: who has a turn still is registered, and nobody has a turn while another does.
RoundInv ==
    /\ kind \in Kinds
    /\ listSize \in Nat \ {0} /\ ready \in SUBSET Fds
    /\ toHandle \in SUBSET channels
    /\ phase \in {"functors", "poll", "events"} /\ current \in Fds \cup {None}
    /\ phase # "events" => toHandle = {} /\ current = None
    /\ current \notin toHandle

\* The channels: who watches is registered.
ChannelsInv ==
    /\ events \in [Fds -> SUBSET Interest]
    /\ channels \in SUBSET Fds /\ addedIdle \in SUBSET channels
    /\ \A fd \in Fds : events[fd] # {} => fd \in channels

\* EPollPoller: the epoll set holds the channels that watch, for what they watch, and those
\* that were added idle.
EpollInv ==
    /\ index \in [Fds -> {kNew, kAdded, kDeleted}]
    /\ \A fd \in Fds : index[fd] = kAdded <=> Looked(fd)
    /\ DOMAIN epollSet = {fd \in Fds : Looked(fd)}
    /\ \A fd \in Fds : Looked(fd) => epollSet[fd] = events[fd]
    /\ pollfds = <<>>

Slot(fd) == [fd |-> IF Looked(fd) THEN fd ELSE Ignored(fd), events |-> events[fd]]

\* PollPoller: index_ goes from the channels to the places and back.
PollInv ==
    /\ index \in [Fds -> Int]
    /\ pollfds \in Seq([fd : Int, events : SUBSET Interest])
    /\ Len(pollfds) = Cardinality(channels)
    /\ \A fd \in Fds \ channels : index[fd] = kNew
    /\ \A fd \in channels : index[fd] + 1 \in 1 .. Len(pollfds) /\ pollfds[index[fd] + 1] = Slot(fd)
    /\ \A i \in 1 .. Len(pollfds) : \E fd \in channels : index[fd] + 1 = i
    /\ epollSet = <<>>

PollerInv ==
    /\ RoundInv /\ ChannelsInv
    /\ ~ctlFailed /\ ctlFailed \in BOOLEAN
    /\ kind = "epoll" => EpollInv
    /\ kind = "poll" => PollInv
-----------------------------------------------------------------------------
(* An fd can be told from its slot, also when the slot hides it.           *)
LEMMA SlotOfFd ==
  ASSUME ChannelsInv, NEW fd \in Fds
  PROVE  /\ fd \in Nat /\ Slot(fd) \in [fd : Int, events : SUBSET Interest]
         /\ FdOf(Slot(fd)) = fd /\ Slot(fd).events = events[fd]
         /\ \A g \in Nat : Slot(fd).fd = g <=> Looked(fd) /\ fd = g
<1>1. fd \in Nat /\ events[fd] \in SUBSET Interest
  BY PollerAssumption DEF ChannelsInv
<1>2. CASE ~Looked(fd)
  BY <1>1, <1>2 DEF Slot, Ignored, FdOf
<1>3. CASE Looked(fd)
  BY <1>1, <1>3 DEF Slot, FdOf
<1>4. QED
  BY <1>2, <1>3

(* What the invariant says of poll(): the kernel is asked about each       *)
(* channel that watches, for what it watches, and about no other.          *)
LEMMA AskedFor ==
  ASSUME PollerInv
  PROVE  InterestAgrees
<1> SUFFICES ASSUME NEW fd \in Fds
             PROVE  Asked(fd) = IF Looked(fd) THEN {events[fd]} ELSE {}
  BY DEF InterestAgrees
<1>1. CASE kind = "epoll"
  BY <1>1 DEF Asked, PollerInv, EpollInv
<1>2. CASE kind # "epoll"
  <2>1. kind = "poll" /\ PollInv /\ ChannelsInv
    BY <1>2, PollerAssumption DEF PollerInv, RoundInv
  <2> DEFINE looked == {j \in 1 .. Len(pollfds) : pollfds[j].fd = fd}
  <2>2. Asked(fd) = {pollfds[i].events : i \in looked}
    BY <1>2 DEF Asked
  <2>3. ASSUME NEW j \in 1 .. Len(pollfds)
        PROVE  j \in looked <=> Looked(fd) /\ j = index[fd] + 1
    <3>1. PICK g \in channels : index[g] + 1 = j
      BY <2>1 DEF PollInv
    <3>2. g \in Fds /\ pollfds[j] = Slot(g)
      BY <2>1, <3>1 DEF PollInv, ChannelsInv
    <3>3. pollfds[j].fd = fd <=> Looked(g) /\ g = fd
      BY <2>1, <3>2, SlotOfFd, PollerAssumption
    <3>4. Looked(fd) /\ j = index[fd] + 1 => g = fd
      <4>1. SUFFICES ASSUME Looked(fd), j = index[fd] + 1 PROVE g = fd
        OBVIOUS
      <4>2. pollfds[j] = Slot(fd)
        BY <2>1, <4>1 DEF PollInv, ChannelsInv, Looked
      <4>3. FdOf(Slot(fd)) = fd /\ FdOf(Slot(g)) = g
        BY <2>1, <3>2, SlotOfFd
      <4>4. QED
        BY <3>2, <4>2, <4>3
    <3>5. QED
      BY <3>1, <3>3, <3>4
  <2>4. CASE ~Looked(fd)
    BY <2>2, <2>3, <2>4
  <2>5. CASE Looked(fd)
    <3>1. fd \in channels
      BY <2>1, <2>5 DEF ChannelsInv, Looked
    <3>2. index[fd] + 1 \in 1 .. Len(pollfds) /\ pollfds[index[fd] + 1] = Slot(fd)
      BY <2>1, <3>1 DEF PollInv
    <3>3. pollfds[index[fd] + 1].events = events[fd]
      BY <2>1, <3>2, SlotOfFd
    <3>4. looked = {index[fd] + 1}
      BY <2>3, <2>5, <3>2
    <3> HIDE DEF looked
    <3>5. QED
      BY <2>2, <2>5, <3>3, <3>4
  <2>6. QED
    BY <2>4, <2>5
<1>3. QED
  BY <1>1, <1>2

(* The invariant implies what the run checks.                              *)
LEMMA InvAgrees ==
  ASSUME PollerInv
  PROVE  KernelAgrees
<1>1. InterestAgrees /\ CtlSucceeds /\ RoundSafe
  BY AskedFor DEF PollerInv, CtlSucceeds, RoundInv, RoundSafe
<1>2. /\ IsFiniteSet(Fds) /\ Cardinality(Fds) \in Nat
      /\ IsFiniteSet(channels) /\ Cardinality(channels) \in Nat
      /\ Cardinality(channels) <= Cardinality(Fds)
  BY PollerAssumption, FS_CardinalityType, FS_Subset DEF PollerInv, ChannelsInv
<1>3. PlacesAgree
  <2> SUFFICES ASSUME kind = "poll"
               PROVE  /\ Len(pollfds) = Cardinality(channels)
                      /\ \A fd \in channels : /\ index[fd] \in 0 .. Len(pollfds) - 1
                                              /\ FdOf(pollfds[index[fd] + 1]) = fd
    BY DEF PlacesAgree
  <2>1. PollInv /\ ChannelsInv
    BY DEF PollerInv
  <2>2. ASSUME NEW fd \in channels
        PROVE  index[fd] \in 0 .. Len(pollfds) - 1 /\ FdOf(pollfds[index[fd] + 1]) = fd
    <3>1. fd \in Fds /\ index[fd] \in Int /\ Len(pollfds) \in Nat
          /\ index[fd] + 1 \in 1 .. Len(pollfds) /\ pollfds[index[fd] + 1] = Slot(fd)
      BY <1>2, <2>1 DEF PollInv, ChannelsInv
    <3>2. FdOf(Slot(fd)) = fd
      BY <2>1, <3>1, SlotOfFd
    <3>3. QED
      BY <3>1, <3>2
  <2>3. QED
    BY <2>1, <2>2 DEF PollInv
<1>4. index \in [Fds -> IF kind = "epoll" THEN {kNew, kAdded, kDeleted}
                        ELSE -1 .. Cardinality(Fds) - 1]
  <2>1. CASE kind = "epoll"
    BY <2>1 DEF PollerInv, EpollInv
  <2>2. CASE kind # "epoll"
    <3>1. kind = "poll" /\ PollInv
      BY <2>2, PollerAssumption DEF PollerInv, RoundInv
    <3>2. ASSUME NEW fd \in Fds
          PROVE  index[fd] \in -1 .. Cardinality(Fds) - 1
      <4>1. CASE fd \in channels
        BY <1>2, <1>3, <3>1, <4>1 DEF PlacesAgree
      <4>2. CASE fd \notin channels
        BY <1>2, <3>1, <4>2 DEF PollInv, kNew
      <4>3. QED
        BY <4>1, <4>2
    <3>3. QED
      BY <2>2, <3>1, <3>2 DEF PollInv
  <2>3. QED
    BY <2>1, <2>2
<1>5. DOMAIN epollSet \subseteq Fds /\ \A fd \in DOMAIN epollSet : epollSet[fd] \in SUBSET Interest
  <2>1. CASE kind = "epoll"
    BY <2>1 DEF PollerInv, ChannelsInv, EpollInv
  <2>2. CASE kind # "epoll"
    <3>1. epollSet = <<>>
      BY <2>2, PollerAssumption DEF PollerInv, RoundInv, PollInv
    <3>2. DOMAIN epollSet = {}
      BY <3>1
    <3>3. QED
      BY <3>2
  <2>3. QED
    BY <2>1, <2>2
<1>6. \A i \in 1 .. Len(pollfds) : FdOf(pollfds[i]) \in Fds /\ pollfds[i].events \in SUBSET Interest
  <2>1. CASE kind = "epoll"
    <3>1. Len(pollfds) = 0
      BY <2>1, EmptySeq DEF PollerInv, EpollInv
    <3>2. QED
      BY <3>1
  <2>2. CASE kind # "epoll"
    <3>1. PollInv /\ ChannelsInv
      BY <2>2, PollerAssumption DEF PollerInv, RoundInv
    <3>2. ASSUME NEW i \in 1 .. Len(pollfds)
          PROVE  FdOf(pollfds[i]) \in Fds /\ pollfds[i].events \in SUBSET Interest
      <4>1. PICK g \in channels : index[g] + 1 = i
        BY <3>1 DEF PollInv
      <4>2. g \in Fds /\ pollfds[i] = Slot(g) /\ events[g] \in SUBSET Interest
        BY <3>1, <4>1 DEF PollInv, ChannelsInv
      <4>3. QED
        BY <3>1, <4>2, SlotOfFd
    <3>3. QED
      BY <3>2
  <2>3. QED
    BY <2>1, <2>2
<1>7. PollerTypeOK
  BY <1>4, <1>5, <1>6 DEF PollerTypeOK, PollerInv, RoundInv, ChannelsInv
<1>8. QED
  BY <1>1, <1>3, <1>7 DEF KernelAgrees
-----------------------------------------------------------------------------
(* Updates.  A channel that is idle is watched again under epoll only.     *)

(* EPollPoller::updateChannel: what it does succeeds, and the epoll set    *)
(* follows the channel.                                                    *)
LEMMA EpollUpdateKeeps ==
  ASSUME ChannelsInv, EpollInv, ctlFailed = FALSE,
         NEW fd \in Fds, NEW ev \in SUBSET Interest,
         events[fd] = {} /\ fd \in channels => ev # {},
         addedIdle' = IF events[fd] = {} /\ ev = {} THEN addedIdle \cup {fd} ELSE addedIdle \ {fd},
         events' = [events EXCEPT ![fd] = ev], EpollUpdate(fd, ev)
  PROVE  EpollInv' /\ ctlFailed' = FALSE /\ channels' = channels \cup {fd}
<1> USE DEF EpollInv, ChannelsInv, kNew, kAdded, kDeleted, Looked
<1>1. channels' = channels \cup {fd} /\ pollfds' = <<>>
  BY DEF EpollUpdate
<1>2. CASE index[fd] # kAdded
  <2>1. /\ index[fd] \in {kNew, kDeleted} /\ events[fd] = {}
        /\ fd \notin DOMAIN epollSet
    BY <1>2
  <2>2. EpollCtl("ADD", fd, ev) /\ index' = [index EXCEPT ![fd] = kAdded]
    BY <2>1 DEF EpollUpdate
  <2>3. /\ ctlFailed' = FALSE
        /\ epollSet' = [f \in (DOMAIN epollSet \ {fd}) \cup {fd} |-> IF f = fd THEN ev ELSE epollSet[f]]
    BY <2>1, <2>2 DEF EpollCtl
  <2>4. DOMAIN epollSet' = DOMAIN epollSet \cup {fd} /\ epollSet'[fd] = ev
        /\ \A f \in DOMAIN epollSet : f # fd => epollSet'[f] = epollSet[f]
    BY <2>3
  <2>5. QED
    BY <1>1, <2>1, <2>2, <2>3, <2>4
<1>3. CASE index[fd] = kAdded /\ ev = {}
  <2>1. fd \in DOMAIN epollSet
    BY <1>3
  <2>2. EpollCtl("DEL", fd, ev) /\ index' = [index EXCEPT ![fd] = kDeleted]
    BY <1>3 DEF EpollUpdate, DelWhenIdle
  <2>3. ctlFailed' = FALSE /\ epollSet' = [f \in DOMAIN epollSet \ {fd} |-> epollSet[f]]
    BY <2>1, <2>2 DEF EpollCtl
  <2>4. QED
    BY <1>1, <1>3, <2>2, <2>3
<1>4. CASE index[fd] = kAdded /\ ev # {}
  <2>1. fd \in DOMAIN epollSet
    BY <1>4
  <2>2. EpollCtl("MOD", fd, ev) /\ UNCHANGED index
    BY <1>4 DEF EpollUpdate
  <2>3. /\ ctlFailed' = FALSE
        /\ epollSet' = [f \in (DOMAIN epollSet \ {fd}) \cup {fd} |-> IF f = fd THEN ev ELSE epollSet[f]]
    BY <2>1, <2>2 DEF EpollCtl
  <2>4. DOMAIN epollSet' = DOMAIN epollSet /\ epollSet'[fd] = ev
        /\ \A f \in DOMAIN epollSet : f # fd => epollSet'[f] = epollSet[f]
    BY <2>1, <2>3
  <2>5. QED
    BY <1>1, <1>4, <2>2, <2>3, <2>4
<1>5. QED
  BY <1>2, <1>3, <1>4

(* PollPoller::updateChannel: a new channel gets the next place, and the   *)
(* place of another follows it.                                            *)
LEMMA PollUpdateKeeps ==
  ASSUME ChannelsInv, PollInv,
         NEW fd \in Fds, NEW ev \in SUBSET Interest,
         events[fd] = {} => fd \notin channels,
         addedIdle' = IF events[fd] = {} /\ ev = {} THEN addedIdle \cup {fd} ELSE addedIdle \ {fd},
         events' = [events EXCEPT ![fd] = ev], PollUpdate(fd, ev)
  PROVE  PollInv' /\ channels' = channels \cup {fd}
<1>1. /\ channels' = channels \cup {fd} /\ epollSet' = <<>>
      /\ Len(pollfds) \in Nat /\ fd \in Nat /\ DOMAIN pollfds = 1 .. Len(pollfds)
      /\ fd \in channels <=> ~(index[fd] < 0)
  <2>1. Len(pollfds) \in Nat /\ DOMAIN pollfds = 1 .. Len(pollfds)
    BY LenProperties DEF PollInv
  <2>2. fd \in channels => index[fd] \in Int /\ index[fd] + 1 \in 1 .. Len(pollfds)
    BY DEF PollInv
  <2>3. fd \notin channels => index[fd] = -1
    BY DEF PollInv, kNew
  <2>4. QED
    BY <2>1, <2>2, <2>3, PollerAssumption DEF PollUpdate, PollInv
<1>2. IsFiniteSet(channels)
  BY PollerAssumption, FS_Subset DEF ChannelsInv
<1>3. \A g \in Fds : g # fd => Slot(g)' = Slot(g)
  BY DEF Slot, ChannelsInv, Ignored, Looked
<1>4. [fd |-> fd, events |-> ev] \in [fd : Int, events : SUBSET Interest]
  BY <1>1
<1>5. CASE fd \notin channels
  <2> DEFINE new == [fd |-> fd, events |-> ev]
  <2>1. events[fd] = {} /\ Slot(fd)' = new
    BY <1>5 DEF ChannelsInv, Slot, Looked
  <2>2. pollfds' = Append(pollfds, new) /\ index' = [index EXCEPT ![fd] = Len(pollfds)]
    BY <1>1, <1>5 DEF PollUpdate, Place
  <2> HIDE DEF new
  <2>3. /\ pollfds' \in Seq([fd : Int, events : SUBSET Interest])
        /\ Len(pollfds') = Len(pollfds) + 1
        /\ \A i \in 1 .. Len(pollfds) : pollfds'[i] = pollfds[i]
        /\ pollfds'[Len(pollfds) + 1] = new
    <3>1. new \in [fd : Int, events : SUBSET Interest]
      BY <1>4 DEF new
    <3>2. pollfds \in Seq([fd : Int, events : SUBSET Interest])
      BY DEF PollInv
    <3>3. QED
      BY <2>2, <3>1, <3>2, AppendProperties
  <2>4. Cardinality(channels') = Len(pollfds')
    <3>1. Cardinality(channels \cup {fd}) = Cardinality(channels) + 1
      BY <1>2, <1>5, FS_AddElement
    <3>2. QED
      BY <1>1, <2>3, <3>1 DEF PollInv
  <2>5. index' \in [Fds -> Int] /\ \A g \in Fds \ channels' : index'[g] = kNew
    BY <1>1, <2>2 DEF PollInv
  <2>6. ASSUME NEW g \in channels'
        PROVE  index'[g] + 1 \in 1 .. Len(pollfds') /\ pollfds'[index'[g] + 1] = Slot(g)'
    <3>1. CASE g = fd
      <4>1. index'[g] = Len(pollfds)
        BY <2>2, <3>1 DEF PollInv
      <4>2. QED
        BY <1>1, <2>1, <2>3, <3>1, <4>1
    <3>2. CASE g # fd
      <4>1. g \in channels /\ g \in Fds /\ index'[g] = index[g]
        BY <1>1, <2>2, <3>2 DEF PollInv, ChannelsInv
      <4>2. index[g] + 1 \in 1 .. Len(pollfds) /\ pollfds[index[g] + 1] = Slot(g)
        BY <4>1 DEF PollInv
      <4>3. Slot(g)' = Slot(g)
        BY <1>3, <3>2, <4>1
      <4>4. QED
        BY <1>1, <2>3, <4>1, <4>2, <4>3
    <3>3. QED
      BY <3>1, <3>2
  <2>7. ASSUME NEW i \in 1 .. Len(pollfds')
        PROVE  \E g \in channels' : index'[g] + 1 = i
    <3>1. CASE i = Len(pollfds) + 1
      BY <1>1, <2>2, <3>1 DEF PollInv
    <3>2. CASE i # Len(pollfds) + 1
      <4>1. i \in 1 .. Len(pollfds)
        BY <1>1, <2>3, <3>2
      <4>2. PICK g \in channels : index[g] + 1 = i
        BY <4>1 DEF PollInv
      <4>3. g \in channels' /\ g # fd /\ g \in Fds
        BY <1>1, <1>5 DEF ChannelsInv
      <4>4. QED
        BY <2>2, <4>2, <4>3 DEF PollInv
    <3>3. QED
      BY <3>1, <3>2
  <2>8. QED
    BY <1>1, <2>3, <2>4, <2>5, <2>6, <2>7 DEF PollInv
<1>6. CASE fd \in channels
  <2> DEFINE p   == index[fd] + 1
             new == [fd |-> SlotFd(pollfds[p], ev), events |-> ev]
  <2>1. /\ events[fd] # {} /\ Looked(fd) /\ p \in 1 .. Len(pollfds) /\ pollfds[p] = Slot(fd)
        /\ channels' = channels
    BY <1>1, <1>6 DEF PollInv, Looked
  <2>2. pollfds' = [pollfds EXCEPT ![p] = new] /\ index' = index
    BY <1>1, <1>6 DEF PollUpdate
  <2>3. new = Slot(fd)' /\ new \in [fd : Int, events : SUBSET Interest]
    <3>1. pollfds[p].fd = fd /\ FdOf(pollfds[p]) = fd
      BY <1>1, <2>1, SlotOfFd
    <3>2. new.fd = IF ev = {} THEN Ignored(fd) ELSE fd
      BY <3>1 DEF SlotFd
    <3>3. Slot(fd)' = [fd |-> IF ev = {} THEN Ignored(fd) ELSE fd, events |-> ev]
      BY <2>1 DEF Slot, ChannelsInv, Ignored, Looked
    <3>4. Ignored(fd) \in Int
      BY <1>1 DEF Ignored
    <3>5. QED
      BY <1>1, <3>1, <3>2, <3>3, <3>4 DEF SlotFd
  <2> HIDE DEF p, new
  <2>4. /\ pollfds' \in Seq([fd : Int, events : SUBSET Interest])
        /\ Len(pollfds') = Len(pollfds) /\ pollfds'[p] = new
        /\ \A i \in 1 .. Len(pollfds) : i # p => pollfds'[i] = pollfds[i]
    BY <2>1, <2>2, <2>3, ExceptSeq DEF PollInv
  <2>5. ASSUME NEW g \in channels
        PROVE  index'[g] + 1 \in 1 .. Len(pollfds') /\ pollfds'[index'[g] + 1] = Slot(g)'
    <3>1. index[g] + 1 \in 1 .. Len(pollfds) /\ pollfds[index[g] + 1] = Slot(g) /\ g \in Fds
      BY DEF PollInv, ChannelsInv
    <3>2. CASE g = fd
      BY <2>2, <2>3, <2>4, <3>1, <3>2 DEF p
    <3>3. CASE g # fd
      <4>1. index[g] + 1 # p
        <5>1. FdOf(Slot(g)) = g /\ FdOf(Slot(fd)) = fd
          BY <3>1, SlotOfFd
        <5>2. QED
          BY <2>1, <3>1, <3>3, <5>1
      <4>2. Slot(g)' = Slot(g)
        BY <1>3, <3>1, <3>3
      <4>3. QED
        BY <2>2, <2>4, <3>1, <4>1, <4>2
    <3>4. QED
      BY <3>2, <3>3
  <2>6. QED
    BY <1>1, <2>1, <2>2, <2>4, <2>5 DEF PollInv
<1>7. QED
  BY <1>1, <1>5, <1>6
-----------------------------------------------------------------------------
(* Removals, of a channel that watches nothing.                            *)

(* EPollPoller::removeChannel: the channel is in the epoll set only when   *)
(* it was added idle, and is taken out of it.                              *)
LEMMA EpollRemoveKeeps ==
  ASSUME ChannelsInv, EpollInv, ctlFailed = FALSE,
         NEW fd \in Fds, events[fd] = {}, events' = events, addedIdle' = addedIdle \ {fd},
         EpollRemove(fd)
  PROVE  EpollInv' /\ ctlFailed' = FALSE
<1> USE DEF EpollInv, kNew, kAdded, kDeleted, Looked
<1>1. pollfds' = pollfds /\ index' = [index EXCEPT ![fd] = kNew]
  BY DEF EpollRemove
<1>2. CASE index[fd] # kAdded
  <2>1. fd \notin addedIdle /\ UNCHANGED <<epollSet, ctlFailed>>
    BY <1>2 DEF EpollRemove
  <2>2. QED
    BY <1>1, <1>2, <2>1
<1>3. CASE index[fd] = kAdded
  <2>1. fd \in DOMAIN epollSet /\ EpollCtl("DEL", fd, {})
    BY <1>3 DEF EpollRemove
  <2>2. ctlFailed' = FALSE /\ epollSet' = [f \in DOMAIN epollSet \ {fd} |-> epollSet[f]]
    BY <2>1 DEF EpollCtl
  <2>3. QED
    BY <1>1, <2>2
<1>4. QED
  BY <1>2, <1>3

(* PollPoller::removeChannel: the last slot takes the place of the one     *)
(* removed, and the channel it belongs to is the one that is told.         *)
LEMMA PollRemoveKeeps ==
  ASSUME ChannelsInv, PollInv,
         NEW fd \in channels, events' = events, addedIdle' = addedIdle \ {fd},
         channels' = channels \ {fd}, PollRemove(fd)
  PROVE  PollInv'
<1> DEFINE n    == Len(pollfds)
           p    == index[fd] + 1
           put  == [pollfds EXCEPT ![p] = pollfds[n]]
           Slots == [fd : Int, events : SUBSET Interest]
<1>1. /\ fd \in Fds /\ n \in Nat /\ p \in 1 .. n /\ n \in 1 .. n /\ n - 1 \in Nat
      /\ pollfds \in Seq(Slots) /\ index \in [Fds -> Int]
  <2>1. fd \in Fds /\ p \in 1 .. n /\ pollfds \in Seq(Slots) /\ index \in [Fds -> Int]
    BY DEF PollInv, ChannelsInv
  <2>2. n \in Nat
    BY <2>1, LenProperties
  <2> HIDE DEF n, p
  <2>3. n \in 1 .. n /\ n - 1 \in Nat
    BY <2>1, <2>2
  <2>4. QED
    BY <2>1, <2>2, <2>3
<1>2. PICK last \in channels : index[last] + 1 = n
  BY <1>1 DEF PollInv
<1>3. last \in Fds /\ pollfds[n] = Slot(last) /\ FdOf(pollfds[n]) = last
  <2>1. last \in Fds
    BY DEF ChannelsInv
  <2>2. pollfds[n] = Slot(last)
    BY <1>2 DEF PollInv
  <2>3. QED
    BY <2>1, <2>2, SlotOfFd
<1>4. /\ pollfds' = SubSeq(put, 1, n - 1)
      /\ index' = [[index EXCEPT ![last] = index[fd]] EXCEPT ![fd] = kNew]
      /\ UNCHANGED <<epollSet, ctlFailed>>
  BY <1>3 DEF PollRemove, Renumber
<1>5. ASSUME NEW g \in channels, NEW h \in channels, index[g] = index[h]
      PROVE  g = h
  <2>1. g \in Fds /\ h \in Fds /\ Slot(g) = Slot(h)
    BY <1>5 DEF PollInv, ChannelsInv
  <2>2. FdOf(Slot(g)) = g /\ FdOf(Slot(h)) = h
    BY <2>1, SlotOfFd
  <2>3. QED
    BY <2>1, <2>2
<1>6. /\ pollfds' \in Seq(Slots) /\ Len(pollfds') = n - 1
      /\ \A i \in 1 .. n - 1 : pollfds'[i] = IF i = p THEN pollfds[n] ELSE pollfds[i]
  <2>1. pollfds[n] \in Slots
    BY <1>1, ElementOfSeq
  <2> HIDE DEF n, p, Slots
  <2>2. /\ put \in Seq(Slots) /\ Len(put) = n /\ put[p] = pollfds[n]
        /\ \A i \in 1 .. n : i # p => put[i] = pollfds[i]
    BY <1>1, <2>1, ExceptSeq DEF n
  <2> HIDE DEF put
  <2>3. /\ SubSeq(put, 1, n - 1) \in Seq(Slots) /\ Len(SubSeq(put, 1, n - 1)) = n - 1
        /\ \A i \in 1 .. n - 1 : SubSeq(put, 1, n - 1)[i] = put[i]
    <3>1. 1 \in 1 .. n /\ n - 1 \in 0 .. n
      BY <1>1
    <3>2. CASE n = 1
      BY <1>1, <2>2, <3>2, SubSeqProperties
    <3>3. CASE n # 1
      BY <1>1, <2>2, <3>3, SubSeqProperties
    <3>4. QED
      BY <3>2, <3>3
  <2>4. QED
    BY <1>1, <1>4, <2>2, <2>3
<1>7. \A g \in Fds \ {fd} : Slot(g)' = Slot(g)
  BY DEF Slot, Ignored, Looked
<1>8. Len(pollfds') = Cardinality(channels')
  <2>1. IsFiniteSet(channels)
    BY PollerAssumption, FS_Subset DEF ChannelsInv
  <2>2. Cardinality(channels \ {fd}) = Cardinality(channels) - 1
    BY <2>1, FS_RemoveElement
  <2>3. QED
    BY <1>6, <2>2 DEF PollInv
<1>9. index' \in [Fds -> Int] /\ index'[fd] = kNew /\ (last # fd => index'[last] = index[fd])
      /\ \A g \in Fds : g # fd /\ g # last => index'[g] = index[g]
  <2>1. index[fd] \in Int /\ kNew \in Int
    BY <1>1 DEF kNew
  <2>2. QED
    BY <1>1, <1>3, <1>4, <2>1
<1>10. \A g \in Fds \ channels' : index'[g] = kNew
  BY <1>2, <1>9 DEF PollInv
<1>11. ASSUME NEW g \in channels'
       PROVE  index'[g] + 1 \in 1 .. Len(pollfds') /\ pollfds'[index'[g] + 1] = Slot(g)'
  <2>1. g \in channels /\ g \in Fds /\ g # fd
    BY DEF ChannelsInv
  <2>2. index[g] + 1 \in 1 .. n /\ pollfds[index[g] + 1] = Slot(g) /\ index[g] \in Int
        /\ index[g] + 1 # p
    <3>1. index[g] + 1 \in 1 .. n /\ pollfds[index[g] + 1] = Slot(g) /\ index[g] \in Int
          /\ index[fd] \in Int
      BY <1>1, <2>1 DEF PollInv
    <3>2. index[g] # index[fd]
      BY <1>5, <2>1
    <3>3. QED
      BY <3>1, <3>2
  <2>3. CASE g = last
    <3>1. index'[g] + 1 = p /\ p # n
      BY <1>2, <1>9, <2>1, <2>2, <2>3
    <3> HIDE DEF n, p
    <3>2. p \in 1 .. n - 1
      BY <1>1, <3>1
    <3>3. QED
      BY <1>3, <1>6, <1>7, <2>1, <2>3, <3>1, <3>2
  <2>4. CASE g # last
    <3>1. index'[g] = index[g] /\ index[g] + 1 # n
      <4>1. index[g] # index[last]
        BY <1>5, <2>1, <2>4
      <4>2. index[last] \in Int
        BY <1>1, <1>3
      <4>3. QED
        BY <1>2, <1>9, <2>1, <2>2, <2>4, <4>1, <4>2
    <3> HIDE DEF n, p
    <3>2. index[g] + 1 \in 1 .. n - 1
      BY <1>1, <2>2, <3>1
    <3>3. QED
      BY <1>6, <1>7, <2>1, <2>2, <3>1, <3>2
  <2>5. QED
    BY <2>3, <2>4
<1>12. ASSUME NEW i \in 1 .. Len(pollfds')
       PROVE  \E g \in channels' : index'[g] + 1 = i
  <2>1. i \in 1 .. n /\ i # n
    <3> HIDE DEF n
    <3>1. QED
      BY <1>1, <1>6
  <2>2. PICK g \in channels : index[g] + 1 = i
    BY <2>1 DEF PollInv
  <2>3. CASE g = fd
    <3>1. last # fd
      BY <1>2, <2>1, <2>2, <2>3
    <3>2. QED
      BY <1>9, <2>2, <2>3, <3>1
  <2>4. CASE g # fd
    <3>1. g # last /\ g \in Fds
      BY <1>2, <2>1, <2>2 DEF ChannelsInv
    <3>2. QED
      BY <1>9, <2>2, <2>4, <3>1
  <2>5. QED
    BY <2>3, <2>4
<1>13. QED
  BY <1>4, <1>6, <1>8, <1>9, <1>10, <1>11, <1>12 DEF PollInv
-----------------------------------------------------------------------------
(* Any update a callback or a functor makes keeps the invariant.           *)
LEMMA UpdateKeeps ==
  ASSUME AsTheLibraryDoes, PollerInv,
         NEW fd \in Fds, NEW ev \in Changes(events[fd]), Update(fd, ev)
  PROVE  PollerInv'
<1>1. ev \in SUBSET Interest
  BY DEF PollerInv, ChannelsInv, Changes
<1>2. /\ events[fd] = {} /\ fd \in channels => ev # {} /\ kind \in MayResume
      /\ addedIdle' = IF events[fd] = {} /\ ev = {} THEN addedIdle \cup {fd} ELSE addedIdle \ {fd}
      /\ events' = [events EXCEPT ![fd] = ev]
      /\ ready' \in {ready, ready \ {fd}}
      /\ UNCHANGED <<kind, listSize, phase, toHandle, current>>
  BY DEF Update
<1>3. /\ ctlFailed' = FALSE /\ channels' = channels \cup {fd}
      /\ kind' = "epoll" => EpollInv'
      /\ kind' = "poll" => PollInv'
  <2>1. CASE kind = "epoll"
    <3>1. EpollUpdate(fd, ev)
      BY <2>1 DEF Update
    <3>2. ChannelsInv /\ EpollInv /\ ctlFailed = FALSE
      BY <2>1 DEF PollerInv
    <3>3. QED
      BY <1>1, <1>2, <2>1, <3>1, <3>2, EpollUpdateKeeps
  <2>2. CASE kind = "poll"
    <3>1. PollUpdate(fd, ev)
      BY <2>2 DEF Update
    <3>2. ChannelsInv /\ PollInv /\ ctlFailed = FALSE
      BY <2>2 DEF PollerInv
    <3>3. events[fd] = {} => fd \notin channels
      BY <1>2, <2>2 DEF AsTheLibraryDoes
    <3>4. PollInv' /\ channels' = channels \cup {fd}
      BY <1>1, <1>2, <3>1, <3>2, <3>3, PollUpdateKeeps
    <3>5. QED
      BY <1>2, <2>2, <3>1, <3>2, <3>4 DEF PollUpdate
  <2>3. QED
    BY <2>1, <2>2, PollerAssumption DEF PollerInv, RoundInv
<1>4. ChannelsInv'
  BY <1>1, <1>2, <1>3 DEF PollerInv, ChannelsInv
<1>5. RoundInv'
  BY <1>2, <1>3 DEF PollerInv, RoundInv
<1>6. QED
  BY <1>3, <1>4, <1>5 DEF PollerInv

(* And so does any removal: the channel that goes has no turn to come.     *)
LEMMA RemoveKeeps ==
  ASSUME AsTheLibraryDoes, PollerInv, NEW fd \in Fds, Remove(fd)
  PROVE  PollerInv'
<1>1. /\ fd \in channels /\ events[fd] = {} /\ channels' = channels \ {fd}
      /\ ready' = ready \ {fd} /\ addedIdle' = addedIdle \ {fd}
      /\ UNCHANGED <<kind, events, listSize, phase, toHandle, current>>
  BY DEF Remove
<1>2. fd \notin toHandle
  <2>1. CASE current # None
    BY <2>1 DEF Remove, AsTheLibraryDoes, PollerInv, RoundInv
  <2>2. CASE current = None
    BY <2>2 DEF Remove, UserRuns, PollerInv, RoundInv
  <2>3. QED
    BY <2>1, <2>2
<1>3. /\ ctlFailed' = FALSE
      /\ kind' = "epoll" => EpollInv'
      /\ kind' = "poll" => PollInv'
  <2>1. CASE kind = "epoll"
    <3>1. EpollRemove(fd)
      BY <2>1 DEF Remove
    <3>2. ChannelsInv /\ EpollInv /\ ctlFailed = FALSE
      BY <2>1 DEF PollerInv
    <3>3. QED
      BY <1>1, <2>1, <3>1, <3>2, EpollRemoveKeeps
  <2>2. CASE kind = "poll"
    <3>1. PollRemove(fd)
      BY <2>2 DEF Remove
    <3>2. ChannelsInv /\ PollInv /\ ctlFailed = FALSE
      BY <2>2 DEF PollerInv
    <3>3. PollInv'
      BY <1>1, <3>1, <3>2, PollRemoveKeeps
    <3>4. ctlFailed' = ctlFailed
      BY <3>1 DEF PollRemove
    <3>5. QED
      BY <1>1, <2>2, <3>2, <3>3, <3>4
  <2>3. QED
    BY <2>1, <2>2, PollerAssumption DEF PollerInv, RoundInv
<1>4. ChannelsInv'
  BY <1>1 DEF PollerInv, ChannelsInv
<1>5. RoundInv'
  BY <1>1, <1>2 DEF PollerInv, RoundInv
<1>6. QED
  BY <1>3, <1>4, <1>5 DEF PollerInv
-----------------------------------------------------------------------------
(* What poll() may report are channels.                                    *)
LEMMA ReportedAreChannels ==
  ASSUME PollerInv, NEW fds \in Reported
  PROVE  fds \in SUBSET channels /\ Resized(Cardinality(fds)) \in Nat \ {0}
<1>1. Due \subseteq channels
  BY AskedFor DEF InterestAgrees, Due, PollerInv, RoundInv, ChannelsInv, Looked
<1>2. fds \subseteq Due
  BY DEF Reported, kSubset
<1>3. Resized(Cardinality(fds)) \in Nat \ {0}
  BY DEF Resized, PollerInv, RoundInv
<1>4. QED
  BY <1>1, <1>2, <1>3

(* The loop's own steps leave the channels and the kernel alone.           *)
LEMMA RoundKeeps ==
  ASSUME PollerInv, UNCHANGED <<kind, registration>>, RoundInv'
  PROVE  PollerInv'
<1>1. ChannelsInv'
  BY DEF registration, PollerInv, ChannelsInv
<1>2. kind' = "epoll" => EpollInv'
  BY DEF registration, PollerInv, EpollInv, Looked
<1>3. kind' = "poll" => PollInv'
  <2> SUFFICES ASSUME kind = "poll" PROVE PollInv'
    OBVIOUS
  <2>1. PollInv
    BY DEF PollerInv
  <2>2. UNCHANGED <<events, index, channels, epollSet, pollfds, addedIdle>>
    BY DEF registration
  <2>3. QED
    BY <2>1, <2>2 DEF PollInv, Slot, Looked
<1>4. QED
  BY <1>1, <1>2, <1>3 DEF registration, PollerInv

(* The inductive invariant, from the first state on.                       *)
LEMMA PollerInvariant ==
  ASSUME AsTheLibraryDoes
  PROVE  PollerSpec => []PollerInv
<1>1. PollerInit => PollerInv
  <2> SUFFICES ASSUME PollerInit PROVE PollerInv
    OBVIOUS
  <2>1. RoundInv /\ ChannelsInv
    BY PollerAssumption DEF PollerInit, RoundInv, ChannelsInv
  <2>2. EpollInv
    <3>1. DOMAIN epollSet = {}
      BY DEF PollerInit
    <3>2. QED
      BY <3>1 DEF PollerInit, EpollInv, kNew, kAdded, kDeleted, Looked
  <2>3. PollInv
    <3>1. Len(pollfds) = 0 /\ pollfds \in Seq([fd : Int, events : SUBSET Interest])
      BY EmptySeq DEF PollerInit
    <3>2. Cardinality(channels) = 0
      BY FS_EmptySet DEF PollerInit
    <3>3. QED
      BY <3>1, <3>2 DEF PollerInit, PollInv, kNew
  <2>4. QED
    BY <2>1, <2>2, <2>3 DEF PollerInit, PollerInv
<1>2. PollerInv /\ [PollerNext]_pollerVars => PollerInv'
  <2> SUFFICES ASSUME PollerInv, [PollerNext]_pollerVars PROVE PollerInv'
    OBVIOUS
  <2>1. ASSUME NEW fd \in Fds, NEW ev \in Changes(events[fd]), Update(fd, ev)
        PROVE  PollerInv'
    BY <2>1, UpdateKeeps
  <2>2. ASSUME NEW fd \in Fds, Remove(fd)
        PROVE  PollerInv'
    BY <2>2, RemoveKeeps
  <2>3. ASSUME NEW fd \in Fds, BecomesReady(fd)
        PROVE  PollerInv'
    <3>1. RoundInv'
      BY <2>3 DEF BecomesReady, registration, PollerInv, RoundInv
    <3>2. QED
      BY <2>3, <3>1, RoundKeeps DEF BecomesReady
  <2>4. CASE Poll
    <3>1. PICK fds \in Reported : toHandle' = fds /\ listSize' = Resized(Cardinality(fds))
      BY <2>4 DEF Poll
    <3>2. fds \in SUBSET channels /\ Resized(Cardinality(fds)) \in Nat \ {0}
      BY ReportedAreChannels
    <3>3. phase = "poll" /\ phase' = "events" /\ UNCHANGED <<kind, registration, ready, current>>
      BY <2>4 DEF Poll
    <3>4. current' = None /\ channels' = channels
      BY <3>3 DEF registration, PollerInv, RoundInv
    <3>5. None \notin toHandle'
      BY <3>1, <3>2, PollerAssumption DEF PollerInv, ChannelsInv
    <3>6. RoundInv'
      BY <3>1, <3>2, <3>3, <3>4, <3>5 DEF PollerInv, RoundInv
    <3>7. QED
      BY <3>3, <3>6, RoundKeeps
  <2>5. CASE HandleEventBegins
    <3>1. RoundInv'
      BY <2>5 DEF HandleEventBegins, registration, PollerInv, RoundInv, ChannelsInv
    <3>2. QED
      BY <2>5, <3>1, RoundKeeps DEF HandleEventBegins
  <2>6. CASE HandleEventReturns
    <3>1. None \notin toHandle
      BY PollerAssumption DEF PollerInv, RoundInv, ChannelsInv
    <3>2. RoundInv'
      BY <2>6, <3>1 DEF HandleEventReturns, registration, PollerInv, RoundInv
    <3>3. QED
      BY <2>6, <3>2, RoundKeeps DEF HandleEventReturns
  <2>7. CASE DoPendingFunctors
    <3>1. RoundInv'
      BY <2>7 DEF DoPendingFunctors, registration, PollerInv, RoundInv
    <3>2. QED
      BY <2>7, <3>1, RoundKeeps DEF DoPendingFunctors
  <2>8. CASE NextRound
    <3>1. RoundInv'
      BY <2>8 DEF NextRound, registration, PollerInv, RoundInv
    <3>2. QED
      BY <2>8, <3>1, RoundKeeps DEF NextRound
  <2>9. CASE UNCHANGED pollerVars
    <3>1. UNCHANGED <<kind, registration>> /\ RoundInv'
      BY <2>9 DEF pollerVars, registration, PollerInv, RoundInv
    <3>2. QED
      BY <3>1, RoundKeeps
  <2>10. QED
    BY <2>1, <2>2, <2>3, <2>4, <2>5, <2>6, <2>7, <2>8, <2>9 DEF PollerNext, Round
<1>3. QED
  BY <1>1, <1>2, PTL DEF PollerSpec

(* The channels, what the kernel is asked and the round agree at every     *)
(* moment, whatever the callbacks do: each index_ is the place or state    *)
(* the poller takes it for, no epoll_ctl fails, a channel that watches is  *)
(* asked about once and for what it watches, and the loop handles none     *)
(* that is gone.                                                           *)
THEOREM KernelFollowsChannels ==
  ASSUME AsTheLibraryDoes
  PROVE  PollerSpec => []KernelAgrees
<1>1. PollerInv => KernelAgrees
  BY InvAgrees
<1>2. QED
  BY <1>1, PollerInvariant, PTL
=============================================================================
