---------------------------- MODULE ServerStart ----------------------------
(***************************************************************************)
(* A TcpServer from start() to its destruction: the pool of loops, the     *)
(* Acceptor that takes connections from the backlog while descriptors      *)
(* last, and the connections handed to the loops in turn.                  *)
(*                                                                         *)
(* What becomes of one connection is in TcpServer; here it is established, *)
(* ends at some time and frees its descriptor.                             *)
(***************************************************************************)
EXTENDS EventLoopThreadPool

CONSTANTS MaxPeers,       \* bound: connections that arrive
          MaxFds,         \* descriptors there are for connections and the spare one
          MaxFaults,      \* bound: calls of accept(2) that fail for the moment
          SpareTaken      \* may another thread take the descriptor of the spare one

ASSUME StartAssumption ==
    MaxPeers \in Nat /\ MaxFds \in Nat \ {0} /\ MaxFaults \in Nat /\ SpareTaken \in BOOLEAN

VARIABLES
    started,       \* started_
    listening,     \* listening_
    readable,      \* has poll() reported the listening socket
    arrived,       \* connections that have arrived
    gaveUp,        \* how many of them were given up by their peers in the backlog
    refused,       \* how many were accepted only to be closed
    faults,        \* history: calls of accept(2) that have failed for the moment
    spare,         \* is idleFd_ open
    connections,   \* connections_
    loopOf         \* history: the loop of every connection accepted, in order

serverVars == <<started, listening, readable, arrived, gaveUp, refused, faults, spare, connections, loopOf>>
startVars == <<poolVars, serverVars>>

StartInit ==
    /\ PoolInit
    /\ started = FALSE
    /\ listening = FALSE
    /\ readable = FALSE
    /\ arrived = 0 /\ gaveUp = 0 /\ refused = 0 /\ faults = 0
    /\ spare = TRUE
    /\ connections = {}
    /\ loopOf = <<>>

Accepted == Len(loopOf)
Backlog == arrived - gaveUp - refused - Accepted
UsedFds == Cardinality(connections) + (IF spare THEN 1 ELSE 0)
Established(c) == <<"connectEstablished", c>>
Destroyed(c) == <<"connectDestroyed", c>>

-----------------------------------------------------------------------------
(* TcpServer::start and Acceptor::listen *)

\* A second start() finds started_ set.
Start ==
    /\ ownerPc \in {"new", "serving"}
    /\ started' = TRUE
    /\ ownerPc' = IF started THEN ownerPc ELSE "starting"
    /\ UNCHANGED <<numThreads, at, loops, next, threadVars, listening, readable, arrived, gaveUp,
                   refused, faults, spare, connections, loopOf>>

Listen ==
    /\ ownerPc = "starting" /\ at = numThreads
    /\ InitialiseBase
    /\ listening' = TRUE
    /\ ownerPc' = "serving"
    /\ UNCHANGED <<numThreads, at, loops, next, latch, loopPtr, tpc, quit, pending, ran,
                   started, readable, arrived, gaveUp, refused, faults, spare, connections, loopOf>>

-----------------------------------------------------------------------------
(* Peers and accept(2) *)

Arrive ==
    /\ arrived < MaxPeers /\ listening
    /\ arrived' = arrived + 1
    /\ UNCHANGED <<poolVars, started, listening, readable, gaveUp, refused, faults, spare, connections, loopOf>>

GiveUp ==
    /\ Backlog > 0
    /\ gaveUp' = gaveUp + 1
    /\ UNCHANGED <<poolVars, started, listening, readable, arrived, refused, faults, spare, connections, loopOf>>

\* poll() reports the socket, as long as there is something in the backlog.
PollAccept ==
    /\ ownerPc = "serving" /\ ~readable /\ Backlog > 0
    /\ readable' = TRUE
    /\ UNCHANGED <<poolVars, started, listening, arrived, gaveUp, refused, faults, spare, connections, loopOf>>

\* TcpServer::newConnection.
HandOver ==
    LET c == Accepted + 1 IN
    /\ GetNextLoop
    /\ loopOf' = Append(loopOf, NextLoop)
    /\ connections' = connections \cup {c}
    /\ RunInLoop(NextLoop, Established(c))

Reopened_Mutant == FALSE        \* seeded bug: /dev/null is not opened again
Reopened == TRUE

Accept ==
    /\ Backlog > 0 /\ UsedFds < MaxFds
    /\ HandOver
    /\ UNCHANGED <<refused, faults, spare>>

\* accept(2) finds the backlog empty, is interrupted or meets another error of the moment, or
\* the EMFILE in errno does not outlast the log line before its test (Acceptor.cc:73).
AcceptFails ==
    /\ \/ Backlog = 0 /\ UNCHANGED faults
       \/ faults < MaxFaults /\ faults' = faults + 1
    /\ UNCHANGED <<next, pending, ran, loopOf, connections, refused, spare>>

\* There is no descriptor (EMFILE): the spare one is used to accept and close, and opened
\* again; it is lost when another thread is faster.
TurnAway ==
    /\ Backlog > 0 /\ UsedFds >= MaxFds
    /\ \E taken \in IF SpareTaken THEN BOOLEAN ELSE {FALSE} :
          IF spare /\ ~taken THEN refused' = refused + 1 /\ spare' = Reopened
          ELSE spare' = FALSE /\ UNCHANGED refused
    /\ UNCHANGED <<next, pending, ran, loopOf, connections, faults>>

AcceptorReads ==
    /\ ownerPc = "serving" /\ readable
    /\ readable' = FALSE
    /\ Accept \/ AcceptFails \/ TurnAway
    /\ UNCHANGED <<numThreads, ownerPc, at, loops, latch, loopPtr, tpc, initialised, quit,
                   started, listening, arrived, gaveUp>>

\* A connection has ended (TcpServer says how).
Ends(c) ==
    /\ ownerPc = "serving" /\ c \in connections /\ Established(c) \in ran
    /\ connections' = connections \ {c}
    /\ ran' = ran \cup {Destroyed(c)}
    /\ UNCHANGED <<numThreads, ownerPc, at, loops, next, latch, loopPtr, tpc, initialised, quit, pending,
                   started, listening, readable, arrived, gaveUp, refused, faults, spare, loopOf>>

-----------------------------------------------------------------------------
(* ~TcpServer: the connections first, then the threads, then the Acceptor. *)

Destroy ==
    /\ ownerPc = "serving" /\ MayDestroy
    /\ ownerPc' = "destroying"
    /\ UNCHANGED <<numThreads, at, loops, next, threadVars, serverVars>>

DestroyConnection ==
    /\ ownerPc = "destroying" /\ connections # {}
    /\ LET c == CHOOSE d \in connections : \A e \in connections : d <= e IN
          /\ connections' = connections \ {c}
          /\ RunInLoop(loopOf[c], Destroyed(c))
    /\ UNCHANGED <<numThreads, ownerPc, at, loops, next, latch, loopPtr, tpc, initialised, quit,
                   started, listening, readable, arrived, gaveUp, refused, faults, spare, loopOf>>

DestroyThreads ==
    /\ ownerPc = "destroying" /\ connections = {}
    /\ ownerPc' = "quit"
    /\ at' = 1
    /\ UNCHANGED <<numThreads, loops, next, threadVars, serverVars>>

CloseAcceptor ==
    /\ ownerPc = "gone" /\ (listening \/ spare)
    /\ listening' = FALSE /\ spare' = FALSE
    /\ UNCHANGED <<poolVars, started, readable, arrived, gaveUp, refused, faults, connections, loopOf>>

-----------------------------------------------------------------------------
Owner == \/ OwnerStep /\ UNCHANGED serverVars
         \/ Listen \/ PollAccept \/ AcceptorReads
         \/ DestroyConnection \/ DestroyThreads \/ CloseAcceptor

Thread(t) == ThreadStep(t) /\ UNCHANGED serverVars

Environment == \/ SpuriousWakeup /\ UNCHANGED serverVars
               \/ Start \/ Arrive \/ GiveUp \/ Destroy
               \/ \E c \in connections : Ends(c)

StartNext == Owner \/ Environment \/ \E t \in Threads : Thread(t)

StartSpec == StartInit /\ [][StartNext]_startVars

\* Every thread goes on when it can; poll() returns after ten seconds at most.
StartFairSpec == StartSpec /\ WF_startVars(Owner) /\ \A t \in Threads : WF_startVars(Thread(t))

-----------------------------------------------------------------------------
(* Properties *)

LoopAlive(t) == InLoop(t) \/ tpc[t] = "published"

Load(l) == Cardinality({c \in DOMAIN loopOf : loopOf[c] = l})

\* The connections are spread evenly: no loop has been given two more than another.
Balanced == \A i, j \in DOMAIN loops : Load(loops[i]) <= Load(loops[j]) + 1

\* A loop that startLoop() has returned is there: its thread has constructed it, has
\* called the callback for it, and has not left it, until that thread is told to end;
\* no functor is given to another, and each gets its share of the connections.
LoopsUsable ==
    /\ \A i \in DOMAIN loops :
          LET t == loops[i] IN
          /\ t = i /\ loopPtr[t] /\ t \in initialised
          /\ ownerPc \in {"starting", "latchTest", "latchWait", "loopTest", "loopWait", "serving",
                          "destroying"} => LoopAlive(t)
          /\ ownerPc \in {"quit", "wakeup", "join"} /\ t > at => LoopAlive(t)
    /\ \A t \in Threads : pending[t] # <<>> => t \in {loops[i] : i \in DOMAIN loops}
    /\ listening /\ numThreads = 0 => Base \in initialised
    /\ Balanced

\* A peer in the backlog is accepted or turned away, also when there is no descriptor
\* left, unless it gives up or the server is destroyed: it does not stay there while
\* the loop spins on a socket that is ever readable.
PeersServed ==
    \A n \in 1 .. MaxPeers :
        arrived = n ~> Accepted + refused + gaveUp >= n \/ ownerPc # "serving"

\* start() returns, listening, and the destructor returns, with all threads joined.
ComesAndGoes ==
    /\ ownerPc = "starting" ~> ownerPc = "serving"
    /\ ownerPc = "destroying" ~> ownerPc = "gone"
=============================================================================
