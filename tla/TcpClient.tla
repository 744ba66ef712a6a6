------------------------------ MODULE TcpClient ------------------------------
(***************************************************************************)
(* A TcpClient and its Connector on their loop: connect, disconnect and    *)
(* stop from any thread, the attempts to connect and the timer that        *)
(* repeats them, the connection that comes of them, and the reconnection   *)
(* when it goes down.  Of the TcpConnection only what the client sees is   *)
(* here; its own life is in TcpServer and ConnectionOutput.                *)
(*                                                                         *)
(* The loop runs the handlers of what poll() found ready, then the         *)
(* functors that are pending at that moment.  A handler is given the queue *)
(* it leaves behind before anything it queues itself.                      *)
(***************************************************************************)
EXTENDS Integers, Sequences, FiniteSets, FiniteSetsExt

CONSTANTS Ids,          \* numbers the kernel and the TimerQueue reuse for sockets and for timers;
                        \* bound: how many are in use at once
          Reconnects,   \* may connect() be called again after stop()?
          RacingStop,   \* may stop() come between the test of connect_ and restart()?
          DestroyEarly, \* may the client be destroyed while resetChannel is queued?
          MaxCalls      \* bound: calls of connect, disconnect and stop

ASSUME ClientAssumption == /\ Ids \subseteq Nat \ {0}
                           /\ Reconnects \in BOOLEAN /\ RacingStop \in BOOLEAN
                           /\ DestroyEarly \in BOOLEAN
                           /\ MaxCalls \in Nat

VARIABLES
    state,      \* Connector::state_
    connect,    \* Connector::connect_
    channel,    \* Connector::channel_: its socket, or None
    timers,     \* timers pending that will call startInLoop
    timerId,    \* Connector::timerId_
    gaveUp,     \* the last connect(2) failed in a way that is not retried
    watched,    \* sockets whose Connector channel the poller has
    open,       \* sockets that are open
    connector,  \* the Connector exists
    client,     \* the TcpClient exists
    retry,      \* TcpClient::retry_
    connectToo, \* TcpClient::connect_
    connection, \* TcpClient::connection_: its socket, or None
    tcp,        \* state_ of the TcpConnection on each socket
    restarting, \* removeConnection has passed its test and is about to restart
    phase,      \* the loop: its event handlers or its functors
    batch,      \* how many functors of the batch are still to run
    ready,      \* what poll() found, and is still to be handled
    queue,      \* functors pending on the loop
    calls,      \* calls made so far
    wanted      \* history: the user wants a connection

connectorVars == <<state, connect, channel, timers, timerId, gaveUp, watched, connector>>
clientVars == <<client, retry, connectToo, connection, restarting>>
loopVars == <<phase, batch, ready>>
vars == <<connectorVars, open, clientVars, tcp, loopVars, queue, calls, wanted>>

None == 0
RawFunctors == {"startInLoop", "stopInLoop", "resetChannel"}     \* bound to the Connector's this
Functors == RawFunctors \cup {"cancel", "connectDestroyed", "forceCloseInLoop"}
Sources == {"channel", "connection", "timer"}

Init == /\ state = "kDisconnected" /\ connect = FALSE
        /\ channel = None
        /\ timers = {} /\ timerId = None
        /\ gaveUp = FALSE
        /\ watched = {} /\ open = {}
        /\ connector = TRUE /\ client = TRUE
        /\ retry \in BOOLEAN
        /\ connectToo = TRUE
        /\ connection = None
        /\ tcp = [s \in Ids |-> "none"]
        /\ restarting = FALSE
        /\ phase = "functors" /\ batch = 0 /\ ready = {}
        /\ queue = <<>>
        /\ calls = 0 /\ wanted = FALSE

QueuedCancels == {queue[i][2] : i \in {j \in DOMAIN queue : queue[j][1] = "cancel"}}
FreeTimers == Ids \ (timers \cup {timerId} \cup QueuedCancels)
FreeSockets == Ids \ (open \cup {channel})
NewTimer == Min(FreeTimers)
NewSocket == Min(FreeSockets)
RawPending == \E i \in DOMAIN queue : queue[i][1] \in RawFunctors
-----------------------------------------------------------------------------
(* Pieces of the Connector.  left is what remains of timers.               *)

CloseSocket(s) == open' = open \ {s}

ScheduleRetry_Mutant(left) == timers' = left /\ UNCHANGED timerId   \* seeded bug: no timer
ScheduleRetry(left) ==
    IF connect' THEN FreeTimers # {} /\ timers' = left \cup {NewTimer} /\ timerId' = NewTimer
    ELSE timers' = left /\ UNCHANGED timerId

\* retry, after the socket is closed.
Retry(left) == state' = "kDisconnected" /\ ScheduleRetry(left)

\* connect and connecting, from a state before it.
Connect(before, left) ==
    \/ \* under way
       /\ FreeSockets # {}
       /\ state' = "kConnecting"
       /\ channel' = NewSocket
       /\ watched' = watched \cup {NewSocket}
       /\ open' = open \cup {NewSocket}
       /\ gaveUp' = FALSE
       /\ timers' = left /\ UNCHANGED timerId
    \/ \* an error that is retried
       /\ Retry(left)
       /\ gaveUp' = FALSE
       /\ UNCHANGED <<channel, watched, open>>
    \/ \* an error that is not
       /\ state' = before
       /\ gaveUp' = TRUE
       /\ timers' = left
       /\ UNCHANGED <<channel, watched, open, timerId>>

StartTest == connect'

StartInLoop(left) ==
    IF StartTest THEN Connect(state, left)
    ELSE timers' = left /\ UNCHANGED <<state, channel, timerId, gaveUp, watched, open>>

\* The Channel leaves the poller now and is destroyed by a functor.
RemoveAndResetChannel(q) ==
    /\ watched' = watched \ {channel}
    /\ queue' = Append(q, <<"resetChannel", None>>)

\* Connector::stop: stopInLoop is queued on any thread, cancel runs at once on the loop.
StopConnector(onLoop) ==
    /\ connect' = FALSE
    /\ queue' = Append(queue, <<"stopInLoop", None>>)
                  \o (IF onLoop THEN <<>> ELSE <<<<"cancel", timerId>>>>)
    /\ timers' = IF onLoop THEN timers \ {timerId} ELSE timers
-----------------------------------------------------------------------------
(* Calls of the user, in callbacks on the loop thread or on another thread.*)

Calls == /\ client
         /\ calls < MaxCalls
         /\ calls' = calls + 1

CallConnect(onLoop) ==
    /\ Calls
    /\ ~restarting
    /\ ~wanted /\ (calls = 0 \/ Reconnects)
    /\ wanted' = TRUE /\ connectToo' = TRUE /\ connect' = TRUE
    /\ IF onLoop
       THEN StartInLoop(timers) /\ UNCHANGED queue
       ELSE /\ queue' = Append(queue, <<"startInLoop", None>>)
            /\ UNCHANGED <<state, channel, timers, timerId, gaveUp, watched, open>>
    /\ UNCHANGED <<connector, client, retry, connection, restarting, tcp, loopVars>>

\* disconnect: shutdown() of the connection, if there is one.
Disconnect ==
    /\ Calls
    /\ ~restarting
    /\ connectToo' = FALSE
    /\ IF connection # None
       THEN /\ tcp' = [tcp EXCEPT ![connection] = IF @ = "kConnected" THEN "kDisconnecting" ELSE @]
            /\ wanted' = FALSE
       ELSE UNCHANGED <<tcp, wanted>>
    /\ UNCHANGED <<connectorVars, open, client, retry, connection, restarting, loopVars, queue>>

StopsRestart_Mutant == UNCHANGED connectToo     \* seeded bug: removeConnection does not learn of it
StopsRestart == connectToo' = FALSE

Stop(onLoop) ==
    /\ Calls
    /\ restarting => RacingStop /\ ~onLoop
    /\ wanted' = FALSE
    /\ StopsRestart
    /\ StopConnector(onLoop)
    /\ UNCHANGED <<state, channel, timerId, gaveUp, watched, connector, open,
                   client, retry, connection, restarting, tcp, loopVars>>

\* Without a connection the Connector is stopped and a timer holds it for a second.
WithoutConnection == UNCHANGED connector /\ StopConnector(TRUE)

\* ~TcpClient on the loop thread.
Destroy ==
    /\ client /\ calls > 0 /\ ~restarting
    /\ connection # None /\ RawPending => DestroyEarly
    /\ client' = FALSE /\ wanted' = FALSE
    /\ connection' = None
    /\ IF connection = None
       THEN WithoutConnection /\ UNCHANGED tcp
       ELSE /\ connector' = FALSE
            /\ \/ \* the client alone holds the connection: forceClose
                  /\ tcp' = [tcp EXCEPT ![connection] = "kDisconnecting"]
                  /\ queue' = Append(queue, <<"forceCloseInLoop", connection>>)
               \/ UNCHANGED <<tcp, queue>>
            /\ timers' = timers \ {timerId}
            /\ UNCHANGED connect
    /\ UNCHANGED <<state, channel, timerId, gaveUp, watched, open, retry, connectToo,
                   restarting, loopVars, calls>>
-----------------------------------------------------------------------------
(* The event handlers of the loop.                                         *)

Connections == {s \in Ids : tcp[s] \in {"kConnected", "kDisconnecting"}}

Reportable == {source \in Sources :
    CASE source = "channel" -> watched # {}
      [] source = "connection" -> Connections # {}
      [] source = "timer" -> timers # {} \/ (~client /\ connector)}

Poll ==
    /\ phase = "functors" /\ batch = 0
    /\ phase' = "events"
    /\ ready' \in SUBSET Reportable
    /\ UNCHANGED <<connectorVars, open, clientVars, tcp, batch, queue, calls, wanted>>

\* A handler runs, unless what was ready is no longer there.
Handles(source) ==
    /\ phase = "events" /\ ~restarting
    /\ source \in ready
    /\ ready' = ready \ {source}
    /\ UNCHANGED <<phase, batch, calls, wanted, retry, connectToo, client>>

\* handleWrite finds no error: newConnection, or nothing is wanted any more.
Established ==
    /\ state' = "kConnected"
    /\ IF connect
       THEN /\ connection' = channel
            /\ tcp' = [tcp EXCEPT ![channel] = "kConnected"]
            /\ UNCHANGED open
       ELSE CloseSocket(channel) /\ UNCHANGED <<connection, tcp>>
    /\ UNCHANGED <<timers, timerId>>

\* handleError, or handleWrite finds SO_ERROR or a connection to itself.
Failed == CloseSocket(channel) /\ Retry(timers) /\ UNCHANGED <<connection, tcp>>

HandleWriteOrError ==
    /\ Handles("channel")
    /\ state = "kConnecting"
    /\ UNCHANGED <<connect, channel, gaveUp, connector, restarting>>
    /\ RemoveAndResetChannel(queue)
    /\ Established \/ Failed

ForgetConnection_Mutant == UNCHANGED connection     \* seeded bug: connection_ is not reset
ForgetConnection == connection' = None

\* handleClose of a TcpConnection with its close callback: removeConnection of the
\* client, or the function that ~TcpClient has put in its place.
HandleClose(s, q) ==
    /\ tcp' = [tcp EXCEPT ![s] = "kDisconnected"]
    /\ queue' = Append(q, <<"connectDestroyed", s>>)
    /\ IF client
       THEN ForgetConnection /\ restarting' = (retry /\ connectToo)
       ELSE UNCHANGED <<connection, restarting>>

PeerCloses ==
    /\ Handles("connection")
    /\ \E s \in Connections : HandleClose(s, queue)
    /\ UNCHANGED <<connectorVars, open>>

\* The rest of removeConnection.
Restart ==
    /\ restarting
    /\ restarting' = FALSE
    /\ connect' = TRUE
    /\ Connect("kDisconnected", timers)
    /\ UNCHANGED <<connector, client, retry, connectToo, connection, tcp, loopVars, queue, calls, wanted>>

RetryTimer ==
    /\ Handles("timer")
    /\ UNCHANGED connect
    /\ \E t \in timers : StartInLoop(timers \ {t})
    /\ UNCHANGED <<connector, connection, restarting, tcp, queue>>

\* The timer of ~TcpClient lets the Connector go.  In its second the loop has gone round.
ReleaseConnector ==
    /\ Handles("timer")
    /\ ~client /\ connector /\ ~RawPending
    /\ connector' = FALSE
    /\ timers' = timers \ {timerId}
    /\ UNCHANGED <<state, connect, channel, timerId, gaveUp, watched, open, connection,
                   restarting, tcp, queue>>

\* What was ready is gone: its channel was removed or its timer cancelled.
NothingLeft ==
    /\ \/ Handles("channel") /\ state # "kConnecting"
       \/ Handles("timer") /\ timers = {}
       \/ Handles("connection") /\ Connections = {}
    /\ UNCHANGED <<connectorVars, open, connection, restarting, tcp, queue>>
-----------------------------------------------------------------------------
(* The functors.                                                           *)

SwapFunctors ==
    /\ phase = "events" /\ ready = {} /\ ~restarting
    /\ phase' = "functors"
    /\ batch' = Len(queue)
    /\ UNCHANGED <<connectorVars, open, clientVars, tcp, ready, queue, calls, wanted>>

BatchLeft == batch - 1

Runs(f) ==
    /\ phase = "functors" /\ batch > 0 /\ ~restarting
    /\ Head(queue)[1] = f
    /\ f \in RawFunctors => connector
    /\ batch' = BatchLeft
    /\ UNCHANGED <<phase, ready, calls, wanted, connect, client, retry, connectToo, connector>>

RunStartInLoop ==
    /\ Runs("startInLoop")
    /\ StartInLoop(timers)
    /\ queue' = Tail(queue)
    /\ UNCHANGED <<connection, restarting, tcp>>

RunStopInLoop ==
    /\ Runs("stopInLoop")
    /\ IF state = "kConnecting"
       THEN RemoveAndResetChannel(Tail(queue)) /\ CloseSocket(channel) /\ Retry(timers)
       ELSE queue' = Tail(queue) /\ UNCHANGED <<state, timers, timerId, watched, open>>
    /\ UNCHANGED <<channel, gaveUp, connection, restarting, tcp>>

RunResetChannel ==
    /\ Runs("resetChannel")
    /\ channel' = None
    /\ queue' = Tail(queue)
    /\ UNCHANGED <<state, timers, timerId, gaveUp, watched, open, connection, restarting, tcp>>

RunCancel ==
    /\ Runs("cancel")
    /\ timers' = timers \ {Head(queue)[2]}
    /\ queue' = Tail(queue)
    /\ UNCHANGED <<state, channel, timerId, gaveUp, watched, open, connection, restarting, tcp>>

\* The last holder of the connection lets it go, and its socket is closed.
RunConnectDestroyed ==
    /\ Runs("connectDestroyed")
    /\ LET s == Head(queue)[2]
       IN /\ tcp' = [tcp EXCEPT ![s] = "none"]
          /\ CloseSocket(s)
    /\ queue' = Tail(queue)
    /\ UNCHANGED <<state, channel, timers, timerId, gaveUp, watched, connection, restarting>>

RunForceClose ==
    /\ Runs("forceCloseInLoop")
    /\ IF Head(queue)[2] \in Connections
       THEN HandleClose(Head(queue)[2], Tail(queue))
       ELSE queue' = Tail(queue) /\ UNCHANGED <<tcp, connection, restarting>>
    /\ UNCHANGED <<state, channel, timers, timerId, gaveUp, watched, open>>
-----------------------------------------------------------------------------
HandleEvent == \/ HandleWriteOrError \/ PeerCloses \/ RetryTimer \/ ReleaseConnector
               \/ NothingLeft \/ Restart
RunFunctor == \/ RunStartInLoop \/ RunStopInLoop \/ RunResetChannel
              \/ RunCancel \/ RunConnectDestroyed \/ RunForceClose

Next == \/ \E onLoop \in BOOLEAN : CallConnect(onLoop) \/ Stop(onLoop)
        \/ Disconnect \/ Destroy
        \/ Poll \/ HandleEvent \/ SwapFunctors \/ RunFunctor

Spec == Init /\ [][Next]_vars

(* The loop goes round; a timer expires, and an attempt to connect comes   *)
(* to an end, the kernel's timeout being one.  No peer and no user has to  *)
(* do anything.                                                            *)
FairSpec == /\ Spec
            /\ WF_vars(Poll) /\ WF_vars(HandleEvent) /\ WF_vars(SwapFunctors) /\ WF_vars(RunFunctor)
            /\ SF_vars(Poll /\ "timer" \in ready')
            /\ SF_vars(Poll /\ "channel" \in ready')
-----------------------------------------------------------------------------
TypeOK ==
    /\ state \in {"kDisconnected", "kConnecting", "kConnected"}
    /\ channel \in Ids \cup {None} /\ timerId \in Ids \cup {None}
    /\ connection \in Ids \cup {None}
    /\ {timers, watched, open} \subseteq SUBSET Ids
    /\ {connect, gaveUp, connector, client, retry, connectToo, restarting, wanted} \subseteq BOOLEAN
    /\ tcp \in [Ids -> {"none", "kConnected", "kDisconnecting", "kDisconnected"}]
    /\ phase \in {"events", "functors"}
    /\ batch \in 0..Len(queue)
    /\ ready \in SUBSET Sources
    /\ queue \in Seq(Functors \X (Ids \cup {None}))
    /\ calls \in 0..MaxCalls

(* The poller has the Connector's channel exactly while it is connecting,  *)
(* and never one that channel_ has been reset from or that a later attempt *)
(* has replaced: resetChannel runs late and must not meet a new Channel.   *)
ChannelKnown == watched = IF state = "kConnecting" THEN {channel} \ {None} ELSE {}

(* Every socket that is open belongs to the attempt under way or to a      *)
(* connection: none is left open and none is closed twice or in use.       *)
SocketsOwned == open = watched \cup {s \in Ids : tcp[s] # "none"}

(* connection_ is the one connection that is up, or nothing is             *)
(* (assert at TcpClient.cc:145).                                           *)
OneConnection == client => Connections = {connection} \ {None}

(* Nothing that still has to run is bound to a Connector that is gone, and *)
(* a Connector goes without a Channel (assert at Connector.cc:27).         *)
NothingOutlives == ~connector => ~RawPending /\ channel = None /\ timers = {}

(* Sockets, channels, connections and the Connector agree: the four        *)
(* together, through failures, retries, stops and destruction.             *)
SocketsAgree == TypeOK /\ ChannelKnown /\ SocketsOwned /\ OneConnection /\ NothingOutlives

(* An attempt begins when the one before is over, its Channel destroyed    *)
(* (assert at Connector.cc:139), and no other is under way (assert at      *)
(* Connector.cc:41).                                                       *)
OneAttempt ==
    [][state' = "kConnecting" /\ channel' # channel => channel = None /\ state # "kConnecting"]_vars

(* When no connection is wanted any more, no attempt begins.               *)
NoneUnwanted == [][~wanted /\ state # "kConnecting" => state' # "kConnecting" \/ wanted']_vars

(* After stop(), or disconnect() of a connection, or ~TcpClient, no        *)
(* attempt to connect begins, and the one under way and the timer for the  *)
(* next are given up.                                                      *)
StopSticks ==
    /\ NoneUnwanted
    /\ (~wanted /\ calls > 0) ~> (wanted \/ (state # "kConnecting" /\ timers = {}))

(* Attempts are made one at a time, and only while one is wanted: the two  *)
(* together.                                                               *)
AttemptsAreDue == OneAttempt /\ StopSticks

(* While a connection is wanted and the last attempt has failed, another   *)
(* is to come, unless the error is one that is not retried.                *)
KeepsTrying ==
    wanted /\ state = "kDisconnected" /\ ~gaveUp =>
        timers # {} \/ \E i \in DOMAIN queue : queue[i][1] = "startInLoop"
=============================================================================
