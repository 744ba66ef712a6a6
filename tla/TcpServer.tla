------------------------------ MODULE TcpServer ------------------------------
(***************************************************************************)
(* The life of one TcpConnection of a TcpServer: accepted on the server's  *)
(* loop, served on its I/O loop, closed from either side, erased from      *)
(* connections_ and destroyed.  The server's loop and the I/O loop are two *)
(* threads, or one (sameLoop).  Other threads that hold a TcpConnectionPtr *)
(* call shutdown, forceClose and send.  The two functor queues are FIFO:   *)
(* that is the contract of TaskExecutor, which EventLoop implements.       *)
(*                                                                         *)
(* Assertions are properties here, not guards: the default build compiles  *)
(* them out and goes on.  Where the code goes on with a dead object the    *)
(* model stops, and a property says when it may get there.                 *)
(***************************************************************************)
EXTENDS Integers, Sequences, FiniteSets

CONSTANTS Users,            \* threads other than the two loops
          Uses,             \* ways to use a server
          MaxCalls          \* bound: calls of Ops

Ops == {"shutdown", "forceClose", "send"}

\* sameLoop: the connection's loop is the server's loop.  userOps and callbackOps: what other
\* threads and what message callbacks call.  destroys: the TcpServer goes before its loops.
ASSUME ServerAssumption ==
    /\ Uses \subseteq [sameLoop : BOOLEAN, userOps : SUBSET Ops, callbackOps : SUBSET Ops,
                       destroys : BOOLEAN]
    /\ MaxCalls \in Nat

VARIABLES
    use,        \* how the program uses the server: one of Uses, for good
    state,      \* state_; "none" before the connection is accepted
    events,     \* events_ of the channel
    index,      \* index_ of the channel: is its fd in the epoll set
    phase,      \* of the connection's loop: its event handlers or its functors
    batch,      \* how many functors of the batch swapped out are still to run
    revents,    \* revents_ of the channel, reported by the poller and still to be handled
    inMap,      \* connections_ has the connection
    server,     \* the TcpServer object exists
    ioQueue,    \* functors pending on the connection's loop
    baseQueue,  \* functors pending on the server's loop
    calling,    \* what each thread calls, and what it does next there
    holders,    \* threads that hold a TcpConnectionPtr
    calls,      \* calls made so far
    notified,   \* history: what the connection callback was told
    reopened,   \* history: a caller has set kDisconnecting over kDisconnected
    overtaken   \* history: functors queued by callers when the map had let the connection go

loopVars == <<phase, batch>>
userVars == <<calling, reopened, overtaken>>
vars == <<use, state, events, index, revents, inMap, server, ioQueue,
          baseQueue, holders, calls, notified, userVars, loopVars>>

States == {"none", "kConnecting", "kConnected", "kDisconnecting", "kDisconnected"}
Interest == {"read", "write"}

\* Functors bound to a TcpConnectionPtr keep the connection alive; these are bound to this.
RawFunctors == {"shutdownInLoop", "sendInLoop"}
Functors == RawFunctors \cup {"connectEstablished", "forceCloseInLoop",
                              "connectDestroyed", "removeConnectionInLoop"}

NoCall == [op |-> "none", next |-> "test"]

Holds(queue) == \E i \in 1..Len(queue) : queue[i] \notin RawFunctors
Alive == /\ state # "none"
         /\ inMap \/ holders # {} \/ Holds(ioQueue) \/ Holds(baseQueue)

Init == /\ use \in Uses
        /\ state = "none"
        /\ phase = "functors" /\ batch = 0
        /\ events = {} /\ index = "kNew" /\ revents = {}
        /\ inMap = FALSE /\ server = TRUE
        /\ ioQueue = <<>> /\ baseQueue = <<>>
        /\ calling = [u \in Users |-> NoCall]
        /\ holders = {}
        /\ calls = 0
        /\ notified = <<>>
        /\ reopened = FALSE /\ overtaken = {}
-----------------------------------------------------------------------------
(* Pieces of the handlers.  A handler on the I/O loop is given the queue   *)
(* it leaves behind before anything it queues itself.                      *)

\* Channel::update through EPollPoller::updateChannel.
UpdateChannel(ev) ==
    /\ events' = ev
    /\ index' = IF index = "kAdded" /\ ev = {} THEN "kDeleted" ELSE "kAdded"

QueueDestroy_Overtakes(queue) == ioQueue' = <<"connectDestroyed">> \o queue  \* seeded bug: put in front
QueueDestroy_Forgotten(queue) == ioQueue' = queue                         \* seeded bug: never queued
QueueDestroy(queue) == ioQueue' = Append(queue, "connectDestroyed")

\* removeConnection: to the server's loop, or straight on when it is this thread.
\* Called on a server that is gone it is undefined; here it has no effect.
CloseCallback(queue) ==
    IF ~server
    THEN ioQueue' = queue /\ UNCHANGED <<inMap, baseQueue>>
    ELSE IF use.sameLoop
    THEN /\ inMap' = FALSE
         /\ QueueDestroy(queue)
         /\ UNCHANGED baseQueue
    ELSE /\ baseQueue' = Append(baseQueue, "removeConnectionInLoop")
         /\ ioQueue' = queue
         /\ UNCHANGED inMap

DisableAll == UpdateChannel({})

HandleClose(queue) ==
    /\ state' = "kDisconnected"
    /\ DisableAll
    /\ notified' = Append(notified, "down")
    /\ CloseCallback(queue)

\* sendInLoop as far as the channel goes: it may have to wait for a writable socket.
SendInLoop ==
    \/ UNCHANGED <<events, index>>
    \/ /\ state # "kDisconnected"
       /\ "write" \notin events
       /\ UpdateChannel(events \cup {"write"})

DestroyGuard_Mutant == state # "none"       \* seeded bug: the callback runs again after handleClose
DestroyGuard == state = "kConnected"

RemoveChannel == index' = "kNew"

ConnectDestroyed(queue) ==
    /\ IF DestroyGuard
       THEN /\ state' = "kDisconnected"
            /\ notified' = Append(notified, "down")
            /\ events' = {}
       ELSE UNCHANGED <<state, notified, events>>
    /\ RemoveChannel
    /\ ioQueue' = queue
-----------------------------------------------------------------------------
(* The server's loop.                                                      *)

NewConnection ==
    /\ state = "none"
    /\ server
    /\ use.sameLoop => phase = "events"
    /\ inMap' = TRUE
    /\ IF use.sameLoop
       THEN /\ state' = "kConnected"
            /\ UpdateChannel({"read"})
            /\ notified' = <<"up">>
            /\ holders' = Users
            /\ UNCHANGED ioQueue
       ELSE /\ state' = "kConnecting"
            /\ ioQueue' = Append(ioQueue, "connectEstablished")
            /\ UNCHANGED <<events, index, notified, holders>>
    /\ UNCHANGED <<use, revents, server, baseQueue, userVars, calls, loopVars>>

RemoveConnectionInLoop ==
    /\ server
    /\ baseQueue # <<>>
    /\ baseQueue' = Tail(baseQueue)
    /\ inMap' = FALSE
    /\ QueueDestroy(ioQueue)
    /\ UNCHANGED <<use, state, events, index, revents, server, userVars,
                   holders, calls, notified, loopVars>>

\* ~TcpServer, on the server's loop, while the loops go on running.
DestroyServer ==
    /\ use.destroys
    /\ use.sameLoop => phase = "events"
    /\ server
    /\ server' = FALSE
    /\ inMap' = FALSE
    /\ IF ~inMap THEN UNCHANGED <<state, events, index, notified, ioQueue>>
       ELSE IF use.sameLoop THEN ConnectDestroyed(ioQueue)
       ELSE QueueDestroy(ioQueue) /\ UNCHANGED <<state, events, index, notified>>
    /\ UNCHANGED <<use, revents, baseQueue, userVars, holders, calls, loopVars>>
-----------------------------------------------------------------------------
(* The I/O loop: poll, the event handlers, the functors, poll again.       *)

\* The fd is reported only while it is in the epoll set and something is watched.
Poll ==
    /\ phase = "functors" /\ batch = 0
    /\ phase' = "events"
    /\ revents' \in IF index = "kAdded" THEN SUBSET events ELSE {{}}
    /\ UNCHANGED <<use, state, events, index, inMap, server, ioQueue,
                   baseQueue, userVars, holders, calls, notified, batch>>

TakeBatch == batch' = Len(ioQueue)

\* doPendingFunctors takes what is pending when the handlers are done.
SwapFunctors ==
    /\ phase = "events" /\ revents = {}
    /\ phase' = "functors"
    /\ TakeBatch
    /\ UNCHANGED <<use, state, events, index, revents, inMap, server, ioQueue,
                   baseQueue, userVars, holders, calls, notified>>

\* handleEventWithGuard calls the callback of ev, the read callback first.
Handles(ev) ==
    /\ ev \in revents
    /\ ev = "write" => "read" \notin revents
    /\ revents' = revents \ {ev}
    /\ Alive
    /\ UNCHANGED loopVars

\* handleRead gives a message to the message callback, which may call op.
ShutdownTest == state = "kConnected"
ForceCloseTest == state \in {"kConnected", "kDisconnecting"}

MessageCallback(op) ==
    CASE op = "shutdown" ->
           /\ state' = IF ShutdownTest THEN "kDisconnecting" ELSE state
           /\ UNCHANGED <<events, index, ioQueue>>
      [] op = "forceClose" ->
           /\ state' = IF ForceCloseTest THEN "kDisconnecting" ELSE state
           /\ ioQueue' = IF ForceCloseTest THEN Append(ioQueue, "forceCloseInLoop") ELSE ioQueue
           /\ UNCHANGED <<events, index>>
      [] op = "send" ->
           /\ IF state = "kConnected" THEN SendInLoop ELSE UNCHANGED <<events, index>>
           /\ UNCHANGED <<state, ioQueue>>

HandleRead ==
    /\ Handles("read")
    /\ \/ UNCHANGED <<state, events, index, ioQueue, calls>>
       \/ /\ calls < MaxCalls
          /\ calls' = calls + 1
          /\ \E op \in use.callbackOps : MessageCallback(op)
    /\ UNCHANGED <<use, inMap, server, baseQueue, userVars, holders, notified>>

\* handleRead reads 0 bytes: the peer has closed.
HandleReadEof ==
    /\ Handles("read")
    /\ HandleClose(ioQueue)
    /\ UNCHANGED <<use, server, userVars, holders, calls>>

\* handleWrite: the output is drained, some of it is left, or nothing is to be written.
HandleWrite ==
    /\ Handles("write")
    /\ \/ "write" \in events /\ UpdateChannel(events \ {"write"})
       \/ UNCHANGED <<events, index>>
    /\ UNCHANGED <<use, state, inMap, server, ioQueue, baseQueue, userVars,
                   holders, calls, notified>>

\* The next functor of the batch is f.
Due(f) == phase = "functors" /\ batch > 0 /\ Head(ioQueue) = f
Runs(f) == Due(f) /\ batch' = batch - 1 /\ UNCHANGED phase

RunConnectEstablished ==
    /\ Runs("connectEstablished")
    /\ state' = "kConnected"
    /\ UpdateChannel({"read"})
    /\ notified' = Append(notified, "up")
    /\ holders' = Users
    /\ ioQueue' = Tail(ioQueue)
    /\ UNCHANGED <<use, revents, inMap, server, baseQueue, userVars, calls>>

RunForceCloseTest == state \in {"kConnected", "kDisconnecting"}

RunForceClose ==
    /\ Runs("forceCloseInLoop")
    /\ IF RunForceCloseTest
       THEN HandleClose(Tail(ioQueue))
       ELSE /\ ioQueue' = Tail(ioQueue)
            /\ UNCHANGED <<state, events, index, notified, inMap, baseQueue>>
    /\ UNCHANGED <<use, revents, server, userVars, holders, calls>>

RunConnectDestroyed ==
    /\ Runs("connectDestroyed")
    /\ ConnectDestroyed(Tail(ioQueue))
    /\ UNCHANGED <<use, revents, inMap, server, baseQueue, userVars, holders, calls>>

RunRaw ==
    /\ \/ Runs("shutdownInLoop") /\ UNCHANGED <<events, index>>
       \/ Runs("sendInLoop") /\ SendInLoop
    /\ Alive
    /\ ioQueue' = Tail(ioQueue)
    /\ UNCHANGED <<use, state, revents, inMap, server, baseQueue, userVars,
                   holders, calls, notified>>
-----------------------------------------------------------------------------
(* Threads that are neither loop.                                          *)

\* The test of state_, which takes no lock.
Test(u, op) ==
    /\ u \in holders /\ calling[u] = NoCall
    /\ calls < MaxCalls
    /\ IF op = "forceClose" THEN ForceCloseTest ELSE ShutdownTest
    /\ calls' = calls + 1
    /\ calling' = [calling EXCEPT ![u] = [op |-> op, next |-> IF op = "send" THEN "queue" ELSE "set"]]
    /\ UNCHANGED <<use, state, events, index, revents, inMap, server, ioQueue, baseQueue,
                   holders, notified, reopened, overtaken, loopVars>>

\* setState(kDisconnecting), whatever state_ is by now.
SetDisconnecting(u) ==
    /\ calling[u].next = "set"
    /\ state' = "kDisconnecting"
    /\ reopened' = (reopened \/ state = "kDisconnected")
    /\ calling' = [calling EXCEPT ![u].next = "queue"]
    /\ UNCHANGED <<use, events, index, revents, inMap, server, ioQueue, baseQueue,
                   holders, calls, notified, overtaken, loopVars>>

FunctorOf(op) == CASE op = "shutdown" -> "shutdownInLoop"
                   [] op = "forceClose" -> "forceCloseInLoop"
                   [] op = "send" -> "sendInLoop"

\* runInLoop or queueInLoop: the functor is queued.
QueueFunctor(u) ==
    /\ calling[u].next = "queue"
    /\ ioQueue' = Append(ioQueue, FunctorOf(calling[u].op))
    /\ overtaken' = IF inMap THEN overtaken ELSE overtaken \cup {FunctorOf(calling[u].op)}
    /\ calling' = [calling EXCEPT ![u] = NoCall]
    /\ UNCHANGED <<use, state, events, index, revents, inMap, server, baseQueue,
                   holders, calls, notified, reopened, loopVars>>

\* A thread lets go of its TcpConnectionPtr.
Release(u) ==
    /\ u \in holders /\ calling[u] = NoCall
    /\ holders' = holders \ {u}
    /\ UNCHANGED <<use, state, events, index, revents, inMap, server,
                   ioQueue, baseQueue, calls, notified, userVars, loopVars>>
-----------------------------------------------------------------------------
BaseLoopStep == RemoveConnectionInLoop
IoLoopStep == \/ ioQueue # <<>> /\ Poll
              \/ SwapFunctors
              \/ HandleRead \/ HandleReadEof \/ HandleWrite
              \/ RunConnectEstablished \/ RunForceClose \/ RunConnectDestroyed \/ RunRaw

Next == \/ NewConnection \/ DestroyServer \/ Poll
        \/ BaseLoopStep \/ IoLoopStep
        \/ \E u \in Users : \/ \E op \in use.userOps : Test(u, op)
                            \/ SetDisconnecting(u) \/ QueueFunctor(u) \/ Release(u)

Spec == Init /\ [][Next]_vars

(* Both loops run, and a pending functor ends poll.  Neither the peer nor any user thread has to do         *)
(* anything.                                                               *)
FairSpec == Spec /\ WF_vars(BaseLoopStep) /\ WF_vars(IoLoopStep)
-----------------------------------------------------------------------------
TypeOK ==
    /\ use \in Uses
    /\ state \in States
    /\ events \in SUBSET Interest
    /\ index \in {"kNew", "kAdded", "kDeleted"}
    /\ phase \in {"events", "functors"}
    /\ batch \in 0..Len(ioQueue)
    /\ revents \in SUBSET Interest
    /\ inMap \in BOOLEAN /\ server \in BOOLEAN
    /\ ioQueue \in Seq(Functors)
    /\ baseQueue \in Seq({"removeConnectionInLoop"})
    /\ calling \in [Users -> {NoCall} \cup [op : Ops, next : {"set", "queue"}]]
    /\ holders \in SUBSET Users
    /\ calls \in 0..MaxCalls
    /\ notified \in Seq({"up", "down"})
    /\ reopened \in BOOLEAN /\ overtaken \in SUBSET Functors

(* removeConnectionInLoop always finds the connection in connections_:     *)
(* assert(n == 1) at TcpServer.cc:121.                                     *)
ErasedOnce == server /\ baseQueue # <<>> => inMap

(* A functor bound to a bare this runs before the connection is destroyed  *)
(* (TcpConnection.cc:232, 331, 349), though its caller tested state_ long  *)
(* before and anything may have come between: when it was queued while the *)
(* connection was in the map, it is ahead of connectDestroyed.  Only a     *)
(* caller that was overtaken until the map had let go has no such promise. *)
NoDanglingThis == \A f \in RawFunctors \ overtaken : Due(f) => Alive

(* When connectDestroyed removes the channel, the channel watches nothing: *)
(* assert(isNoneEvent()) at Channel.cc:46.                                 *)
RemovesIdleChannel ==
    [][index # "kNew" /\ index' = "kNew" => events' = {} \/ reopened]_vars

(* ~TcpConnection finds the connection disconnected and its channel out of *)
(* the poller: asserts at TcpConnection.cc:55 and Channel.cc:32-36.        *)
DestroyedClean ==
    state # "none" /\ ~Alive => state = "kDisconnected" /\ index = "kNew"

(* The user hears of the connection once when it is established and once   *)
(* when it is gone, however it ends.                                       *)
NotifiedOnce == notified \in {<<>>, <<"up">>, <<"up", "down">>}

(* A connection ends once, for the map, the poller and the user, and leaves *)
(* nothing behind, whichever of its ends come together: unless a shutdown  *)
(* or forceClose whose test was overtaken by the close has set state_ back *)
(* to kDisconnecting (TcpConnection.cc:229-231, 246-249).                  *)
EndsOnce == TypeOK /\ (~reopened => ErasedOnce /\ DestroyedClean /\ NotifiedOnce)

(* A connection that is closed leaves the map and the poller, idle when it *)
(* does, and a forceClose that was called closes it, whatever the peer     *)
(* does; even one that was set back to kDisconnecting leaves them.         *)
ClosedIsDestroyed ==
    /\ RemovesIdleChannel
    /\ (state = "kDisconnected" \/ \E i \in 1..Len(ioQueue) : ioQueue[i] = "forceCloseInLoop")
            ~> ((state = "kDisconnected" \/ reopened) /\ ~inMap /\ index = "kNew")
=============================================================================
