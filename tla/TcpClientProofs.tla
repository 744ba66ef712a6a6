-------------------------- MODULE TcpClientProofs --------------------------
(***************************************************************************)
(* Theorems about TcpClient, for any sockets and timers and any number of  *)
(* calls: sockets, channels, connections and the Connector agree, a wanted *)
(* connection is being made, and attempts are made one at a time and only  *)
(* while one is wanted.  They hold for users that do what the library can  *)
(* bear: connect() is called once, stop() does not come between the test   *)
(* of connect_ and restart(), and the client is not destroyed while a      *)
(* functor of the Connector is queued.                                     *)
(***************************************************************************)
EXTENDS TcpClient, SequenceTheorems, FiniteSetTheorems, WellFoundedInduction, TLAPS

Careful == ~Reconnects /\ ~RacingStop /\ ~DestroyEarly

\* What is in a queue of functors.
Items == (RawFunctors \X {None}) \cup ({"cancel"} \X (Ids \cup {None}))
         \cup ({"connectDestroyed", "forceCloseInLoop"} \X Ids)
HasIn(q, f) == \E i \in 1..Len(q) : q[i][1] = f
Has(f) == HasIn(queue, f)
Destroys(q) == {q[i][2] : i \in {j \in 1..Len(q) : q[j][1] = "connectDestroyed"}}
ResetWithin(q, n) == \E i \in 1..n : q[i][1] = "resetChannel"

\* A Channel is reset and a connection destroyed by one functor, and startInLoop comes first of all.
OnceIn(q) ==
    /\ \A i, j \in 1..Len(q) :
          q[i] = q[j] /\ q[i][1] \in {"resetChannel", "connectDestroyed"} => i = j
    /\ \A i \in 1..Len(q) : q[i][1] = "startInLoop" => i = 1

TypeInv ==
    /\ state \in {"kDisconnected", "kConnecting", "kConnected"}
    /\ channel \in Ids \cup {None} /\ timerId \in Ids \cup {None}
    /\ connection \in Ids \cup {None}
    /\ timers \in SUBSET Ids /\ watched \in SUBSET Ids /\ open \in SUBSET Ids
    /\ connect \in BOOLEAN /\ gaveUp \in BOOLEAN /\ connector \in BOOLEAN /\ client \in BOOLEAN
    /\ retry \in BOOLEAN /\ connectToo \in BOOLEAN /\ restarting \in BOOLEAN /\ wanted \in BOOLEAN
    /\ tcp \in [Ids -> {"none", "kConnected", "kDisconnecting", "kDisconnected"}]
    /\ phase \in {"events", "functors"}
    /\ ready \in SUBSET Sources
    /\ calls \in 0..MaxCalls

QueueInv == queue \in Seq(Items) /\ OnceIn(queue) /\ batch \in 0..Len(queue)

\* Sockets and channels: channel_ is reset after the attempt, and a connection has left it behind.
SocketsInv ==
    /\ ChannelKnown /\ SocketsOwned /\ OneConnection
    /\ channel = None <=> (state # "kConnecting" /\ ~Has("resetChannel"))
    /\ state = "kConnecting" => ~Has("resetChannel") /\ tcp[channel] = "none"
    /\ \A s \in Destroys(queue) : tcp[s] = "kDisconnected"
    /\ connection # None => client /\ state = "kConnected"

\* One timer at most, and only between two attempts.
TimersInv ==
    /\ timers \subseteq {timerId}
    /\ timers # {} => state = "kDisconnected"

\* While connect_ is set a round has one thing to handle, and resetChannel runs in the same round.
RoundInv ==
    /\ phase = "functors" => ready = {}
    /\ connect => \E source \in Sources : ready \subseteq {source}
    /\ connect /\ Has("resetChannel") =>
          IF phase = "events" THEN ready = {} ELSE ResetWithin(queue, batch)

\* The beginning, and a new beginning after a connection.
StartInv ==
    /\ Has("startInLoop") => state = "kDisconnected" /\ timers = {} /\ ~Has("resetChannel")
    /\ calls = 0 => /\ queue = <<>> /\ state = "kDisconnected" /\ timers = {} /\ ready = {}
                    /\ client /\ connectToo /\ connection = None
                    /\ ~connect /\ ~wanted /\ ~restarting
    /\ restarting => /\ wanted /\ connectToo /\ connection = None
                     /\ state = "kConnected" /\ ~Has("resetChannel")

\* What is so when no connection is wanted any more.
StopInv ==
    /\ wanted => connect /\ client
    /\ calls > 0 /\ ~(wanted /\ connect) => ~client \/ ~connectToo
    /\ connect /\ ~wanted => state = "kConnected" /\ ~Has("startInLoop")
    /\ Has("stopInLoop") \/ Has("cancel") => ~connect
    /\ Has("forceCloseInLoop") => ~client
    /\ state = "kConnecting" /\ ~connect => Has("stopInLoop")

\* The Connector goes after the client, and at once only when it has nothing left to do.
EndInv ==
    /\ ~connector => /\ ~client /\ channel = None /\ timers = {}
                     /\ ~Has("startInLoop") /\ ~Has("stopInLoop") /\ ~Has("resetChannel")
    /\ ~client /\ connector => ~connect /\ Connections = {}

TriesInv ==
    wanted /\ state = "kDisconnected" /\ ~gaveUp => timers # {} \/ Has("startInLoop")

ClientInv == /\ TypeInv /\ QueueInv /\ SocketsInv /\ TimersInv /\ RoundInv
             /\ StartInv /\ StopInv /\ EndInv /\ TriesInv
-----------------------------------------------------------------------------
(* Queues.                                                                 *)

(* An item is a functor's name and a number.                               *)
LEMMA ItemsAre ==
  ASSUME NEW item \in Items
  PROVE  item = <<item[1], item[2]>> /\ item[1] \in Functors /\ item[2] \in Ids \cup {None}
BY DEF Items, Functors, RawFunctors

(* What Append leaves of a queue, and adds to it.                          *)
LEMMA AfterAppend ==
  ASSUME NEW q \in Seq(Items), NEW item \in Items
  PROVE  /\ Append(q, item) \in Seq(Items) /\ Len(Append(q, item)) = Len(q) + 1
         /\ \A f \in Functors : HasIn(Append(q, item), f) <=> HasIn(q, f) \/ f = item[1]
         /\ Destroys(Append(q, item))
              = Destroys(q) \cup (IF item[1] = "connectDestroyed" THEN {item[2]} ELSE {})
         /\ \A n \in 0..Len(q) : ResetWithin(q, n) => ResetWithin(Append(q, item), n)
<1> DEFINE r == Append(q, item)
<1>1. /\ r \in Seq(Items) /\ Len(r) = Len(q) + 1 /\ Len(q) \in Nat
      /\ r[Len(q) + 1] = item /\ \A i \in 1..Len(q) : r[i] = q[i]
  BY AppendProperties, LenProperties
<1>2. 1..Len(r) = 1..Len(q) \cup {Len(q) + 1}
  BY <1>1
<1> HIDE DEF r
<1>3. \A f \in Functors : HasIn(r, f) <=> HasIn(q, f) \/ f = item[1]
  BY <1>1, <1>2 DEF HasIn
<1>4. Destroys(r) = Destroys(q) \cup (IF item[1] = "connectDestroyed" THEN {item[2]} ELSE {})
  BY <1>1, <1>2 DEF Destroys
<1>5. \A n \in 0..Len(q) : ResetWithin(q, n) => ResetWithin(r, n)
  BY <1>1 DEF ResetWithin
<1>6. QED
  BY <1>1, <1>3, <1>4, <1>5 DEF r

(* A functor that must be there once may be appended when it is not there. *)
LEMMA AppendOnce ==
  ASSUME NEW q \in Seq(Items), OnceIn(q), NEW item \in Items,
         item[1] = "startInLoop" => q = <<>>,
         item[1] = "resetChannel" => ~HasIn(q, "resetChannel"),
         item[1] = "connectDestroyed" => item[2] \notin Destroys(q)
  PROVE  OnceIn(Append(q, item))
<1> DEFINE r == Append(q, item)
<1>1. /\ r \in Seq(Items) /\ Len(r) = Len(q) + 1 /\ Len(q) \in Nat
      /\ r[Len(q) + 1] = item /\ \A i \in 1..Len(q) : r[i] = q[i]
  BY AppendProperties, LenProperties
<1>2. 1..Len(r) = 1..Len(q) \cup {Len(q) + 1}
  BY <1>1
<1> HIDE DEF r
<1>3. ASSUME NEW i \in 1..Len(q), q[i] = item, item[1] \in {"resetChannel", "connectDestroyed"}
      PROVE  FALSE
  BY <1>3 DEF HasIn, Destroys
<1>4. \A i, j \in 1..Len(r) :
         r[i] = r[j] /\ r[i][1] \in {"resetChannel", "connectDestroyed"} => i = j
  BY <1>1, <1>2, <1>3 DEF OnceIn
<1>5. \A i \in 1..Len(r) : r[i][1] = "startInLoop" => i = 1
  <2>1. item[1] = "startInLoop" => Len(q) = 0
    BY EmptySeq
  <2>2. QED
    BY <1>1, <1>2, <2>1 DEF OnceIn
<1>6. QED
  BY <1>4, <1>5 DEF OnceIn, r

(* What is left of a queue when its first functor has run.                 *)
LEMMA AfterTail ==
  ASSUME NEW q \in Seq(Items), OnceIn(q), Len(q) > 0
  PROVE  /\ Tail(q) \in Seq(Items) /\ Len(Tail(q)) = Len(q) - 1 /\ Head(q) \in Items
         /\ OnceIn(Tail(q))
         /\ \A f \in Functors : HasIn(q, f) <=> HasIn(Tail(q), f) \/ f = Head(q)[1]
         /\ ~HasIn(Tail(q), "startInLoop")
         /\ Head(q)[1] = "resetChannel" => ~HasIn(Tail(q), "resetChannel")
         /\ Destroys(Tail(q)) \subseteq Destroys(q)
         /\ Head(q)[1] = "connectDestroyed" => Head(q)[2] \in Destroys(q) \ Destroys(Tail(q))
         /\ \A n \in 1..Len(q) :
               ResetWithin(q, n) /\ Head(q)[1] # "resetChannel" => ResetWithin(Tail(q), n - 1)
<1> DEFINE r == Tail(q)
<1>1. /\ r \in Seq(Items) /\ Len(r) = Len(q) - 1 /\ Len(q) \in Nat
      /\ Head(q) = q[1] /\ q[1] \in Items /\ \A i \in 1..Len(r) : r[i] = q[i + 1]
  BY HeadTailProperties, LenProperties, EmptySeq
<1>2. \A i \in 1..Len(r) : i + 1 \in 1..Len(q) /\ i + 1 # 1
  BY <1>1
<1>3. \A i \in 1..Len(q) : i = 1 \/ (i - 1 \in 1..Len(r) /\ r[i - 1] = q[i])
  BY <1>1
<1> HIDE DEF r
<1>4. OnceIn(r) /\ ~HasIn(r, "startInLoop")
  <2>1. ASSUME NEW i \in 1..Len(r), NEW j \in 1..Len(r), r[i] = r[j],
               r[i][1] \in {"resetChannel", "connectDestroyed"}
        PROVE  i = j
    <3>1. q[i + 1] = q[j + 1] /\ q[i + 1][1] \in {"resetChannel", "connectDestroyed"}
      BY <1>1, <2>1
    <3>2. i + 1 = j + 1
      BY <1>2, <3>1 DEF OnceIn
    <3>3. QED
      BY <3>2
  <2>2. \A i \in 1..Len(r) : r[i][1] # "startInLoop"
    BY <1>1, <1>2 DEF OnceIn
  <2>3. QED
    BY <2>1, <2>2 DEF OnceIn, HasIn
<1>5. \A f \in Functors : HasIn(q, f) <=> HasIn(r, f) \/ f = q[1][1]
  BY <1>1, <1>2, <1>3, SMTT(30) DEF HasIn
<1>6. ASSUME NEW i \in 1..Len(r), r[i] = q[1], q[1][1] \in {"resetChannel", "connectDestroyed"}
      PROVE  FALSE
  BY <1>1, <1>2, <1>6 DEF OnceIn
<1>7. q[1][1] = "resetChannel" => ~HasIn(r, "resetChannel")
  <2> SUFFICES ASSUME q[1][1] = "resetChannel", NEW i \in 1..Len(r), r[i][1] = "resetChannel" PROVE FALSE
    BY DEF HasIn
  <2>1. \A item \in Items : item[1] = "resetChannel" => item = <<"resetChannel", None>>
    BY DEF Items, RawFunctors
  <2>2. r[i] \in Items
    BY <1>1, ElementOfSeq
  <2>3. r[i] = q[1]
    BY <1>1, <2>1, <2>2
  <2>4. QED
    BY <1>6, <2>3
<1>8. Destroys(r) \subseteq Destroys(q)
  BY <1>1, <1>2 DEF Destroys
<1>9. q[1][1] = "connectDestroyed" => q[1][2] \in Destroys(q) \ Destroys(r)
  <2> SUFFICES ASSUME q[1][1] = "connectDestroyed" PROVE q[1][2] \in Destroys(q) \ Destroys(r)
    OBVIOUS
  <2>1. ASSUME NEW i \in 1..Len(r), r[i][1] = "connectDestroyed", r[i][2] = q[1][2]
        PROVE  FALSE
    <3>1. r[i] \in Items
      BY <1>1, ElementOfSeq
    <3>2. r[i] = <<r[i][1], r[i][2]>> /\ q[1] = <<q[1][1], q[1][2]>>
      BY <1>1, <3>1, ItemsAre
    <3>3. r[i] = q[1]
      BY <2>1, <3>2
    <3>4. QED
      BY <1>6, <3>3
  <2>2. q[1][2] \in Destroys(q)
    BY <1>1 DEF Destroys
  <2>3. QED
    BY <2>1, <2>2 DEF Destroys
<1>10. ASSUME NEW n \in 1..Len(q), ResetWithin(q, n), q[1][1] # "resetChannel"
       PROVE  ResetWithin(r, n - 1)
  <2>1. PICK i \in 1..n : q[i][1] = "resetChannel"
    BY <1>10 DEF ResetWithin
  <2>2. i - 1 \in 1..(n - 1) /\ r[i - 1] = q[i]
    BY <1>1, <1>3, <1>10, <2>1
  <2>3. QED
    BY <2>1, <2>2 DEF ResetWithin
<1>11. QED
  BY <1>1, <1>4, <1>5, <1>7, <1>8, <1>9, <1>10 DEF r

(* A connection that is to be destroyed has a socket.                      *)
LEMMA DestroysKnown ==
  ASSUME NEW q \in Seq(Items)
  PROVE  Destroys(q) \subseteq Ids
<1>1. \A item \in Items : item[1] = "connectDestroyed" => item[2] \in Ids
  BY DEF Items, RawFunctors
<1>2. \A i \in 1..Len(q) : q[i] \in Items
  BY ElementOfSeq
<1>3. QED
  BY <1>1, <1>2 DEF Destroys

(* What is pending for the Connector, by name.                             *)
LEMMA RawByName ==
  ASSUME queue \in Seq(Items)
  PROVE  RawPending <=> Has("startInLoop") \/ Has("stopInLoop") \/ Has("resetChannel")
<1>1. DOMAIN queue = 1..Len(queue)
  BY LenProperties
<1>2. QED
  BY <1>1 DEF RawPending, Has, HasIn, RawFunctors
-----------------------------------------------------------------------------
(* Numbers.                                                                *)

(* A set of numbers that is not empty has its least in it.                 *)
LEMMA LeastIs ==
  ASSUME NEW S, S # {}, S \subseteq Nat
  PROVE  Min(S) \in S
<1> DEFINE T == {0 .. x : x \in S}
           R == StrictSubsetOrdering(Nat)
<1>1. T \subseteq FiniteSubsetsOf(Nat) /\ T # {}
  <2>1. ASSUME NEW x \in S
        PROVE  0 .. x \in FiniteSubsetsOf(Nat)
    <3>1. IsFiniteSet(0 .. x) /\ 0 .. x \in SUBSET Nat
      BY FS_Interval
    <3>2. QED
      BY <3>1 DEF FiniteSubsetsOf
  <2>2. PICK x \in S : TRUE
    OBVIOUS
  <2>3. 0 .. x \in T
    OBVIOUS
  <2>4. QED
    BY <2>1, <2>3
<1>2. IsWellFoundedOn(R, FiniteSubsetsOf(Nat))
  BY FS_StrictSubsetOrderingWellFounded
<1>3. PICK n \in T : \A y \in T : ~(<<y, n>> \in R)
  <2> HIDE DEF T, R
  <2>1. QED
    BY <1>1, <1>2, WFMin, Zenon
<1>4. PICK m \in S : n = 0 .. m
  OBVIOUS
<1>5. ASSUME NEW y \in S, y < m
      PROVE  FALSE
  <2>1. m \in Nat /\ y \in Nat
    OBVIOUS
  <2>2. ~(<<0 .. y, 0 .. m>> \in R)
    BY <1>3, <1>4
  <2>3. 0 .. y \subseteq 0 .. m /\ 0 .. y # 0 .. m
    BY <1>5, <2>1
  <2>4. 0 .. y \in SUBSET Nat /\ 0 .. m \in SUBSET Nat
    BY <2>1
  <2>5. QED
    BY <2>2, <2>3, <2>4 DEF StrictSubsetOrdering
<1>6. \A y \in S : m <= y
  BY <1>5
<1>7. QED
  BY <1>6 DEF Min

(* A socket or a timer that is new has a number that is not in use.        *)
LEMMA NewIsFree ==
  ASSUME ClientAssumption
  PROVE  /\ FreeSockets # {} => NewSocket \in FreeSockets
         /\ FreeTimers # {} => NewTimer \in FreeTimers
BY LeastIs DEF ClientAssumption, FreeSockets, FreeTimers, NewSocket, NewTimer
-----------------------------------------------------------------------------
(* Attempts to connect.                                                    *)

(* An attempt that begins when the one before is over, and the Channel of  *)
(* that is destroyed: it is under way, to be made again or given up.       *)
LEMMA ConnectKeeps ==
  ASSUME ClientAssumption, ClientInv,
         state # "kConnecting", ~Has("resetChannel"), connection = None, client,
         Connect("kDisconnected", {}),
         connect' = TRUE, wanted' = TRUE, restarting' = FALSE,
         connectToo' \in BOOLEAN, calls' \in 1..MaxCalls,
         UNCHANGED <<connector, client, retry, connection, tcp, phase>>,
         QueueInv', Destroys(queue') \subseteq Destroys(queue),
         \A f \in RawFunctors \cup {"cancel", "forceCloseInLoop"} : ~Has(f)',
         ready' \in SUBSET Sources, phase = "functors" => ready' = {},
         \E source \in Sources : ready' \subseteq {source}
  PROVE  ClientInv'
<1> USE DEF ClientInv
<1>1. connector /\ channel = None /\ watched = {} /\ Connections = {}
  BY DEF EndInv, SocketsInv, ChannelKnown, OneConnection
<1>2. /\ ~Has("startInLoop")' /\ ~Has("stopInLoop")' /\ ~Has("resetChannel")'
      /\ ~Has("cancel")' /\ ~Has("forceCloseInLoop")'
  BY DEF RawFunctors
<1>3. \/ /\ state' = "kConnecting" /\ timers' = {} /\ timerId' = timerId /\ gaveUp' = FALSE
         /\ channel' \in FreeSockets /\ watched' = {channel'} /\ open' = open \cup {channel'}
      \/ /\ state' = "kDisconnected" /\ timers' = {timerId'} /\ timerId' \in Ids /\ gaveUp' = FALSE
         /\ UNCHANGED <<channel, watched, open>>
      \/ /\ state' = "kDisconnected" /\ timers' = {} /\ timerId' = timerId /\ gaveUp' = TRUE
         /\ UNCHANGED <<channel, watched, open>>
  BY <1>1, NewIsFree DEF Connect, Retry, ScheduleRetry, FreeTimers
<1>4. TypeInv'
  <2>1. /\ state' \in {"kDisconnected", "kConnecting", "kConnected"} /\ gaveUp' \in BOOLEAN
        /\ channel' \in Ids \cup {None} /\ timerId' \in Ids \cup {None}
        /\ timers' \in SUBSET Ids /\ watched' \in SUBSET Ids /\ open' \in SUBSET Ids
    BY <1>1, <1>3 DEF TypeInv, FreeSockets
  <2>2. client' \in BOOLEAN /\ connector' \in BOOLEAN /\ retry' \in BOOLEAN
    BY DEF TypeInv
  <2>3. calls' \in 0..MaxCalls
    BY DEF ClientAssumption
  <2>4. QED
    BY <2>1, <2>2, <2>3 DEF TypeInv
<1>5. SocketsInv'
  <2>1. ChannelKnown' /\ OneConnection' /\ (connection' # None => client' /\ state' = "kConnected")
    BY <1>1, <1>3 DEF TypeInv, SocketsInv, ChannelKnown, OneConnection, Connections, FreeSockets,
                      ClientAssumption, None
  <2>2. SocketsOwned'
    BY <1>1, <1>3 DEF SocketsInv, SocketsOwned
  <2>3. state' = "kConnecting" => tcp'[channel'] = "none"
    BY <1>1, <1>3 DEF TypeInv, SocketsInv, SocketsOwned, FreeSockets
  <2>4. \A s \in Destroys(queue') : tcp'[s] = "kDisconnected"
    BY DEF SocketsInv
  <2>5. channel' = None <=> state' # "kConnecting"
    BY <1>1, <1>3 DEF FreeSockets, ClientAssumption, None
  <2>6. QED
    BY <1>2, <2>1, <2>2, <2>3, <2>4, <2>5 DEF SocketsInv
<1>6. TimersInv' /\ TriesInv'
  BY <1>3 DEF TimersInv, TriesInv
<1>7. RoundInv'
  BY <1>2 DEF RoundInv
<1>8. StartInv' /\ StopInv'
  BY <1>1, <1>2, <1>3 DEF StartInv, StopInv
<1>9. EndInv'
  BY <1>1 DEF EndInv
<1>10. QED
  BY <1>4, <1>5, <1>6, <1>7, <1>8, <1>9

(* A queue that gets one functor more.                                     *)
LEMMA QueueLonger ==
  ASSUME QueueInv, NEW item \in Items,
         item[1] = "startInLoop" => queue = <<>>,
         item[1] = "resetChannel" => ~Has("resetChannel"),
         item[1] = "connectDestroyed" => item[2] \notin Destroys(queue),
         queue' = Append(queue, item), batch' = batch
  PROVE  /\ QueueInv'
         /\ \A f \in Functors : HasIn(queue', f) <=> HasIn(queue, f) \/ f = item[1]
         /\ Destroys(queue')
              = Destroys(queue) \cup (IF item[1] = "connectDestroyed" THEN {item[2]} ELSE {})
         /\ ResetWithin(queue, batch) => ResetWithin(queue', batch')
<1>1. queue \in Seq(Items) /\ OnceIn(queue) /\ batch \in 0..Len(queue) /\ Len(queue) \in Nat
  BY LenProperties DEF QueueInv
<1>2. OnceIn(queue')
  BY <1>1, AppendOnce DEF Has
<1>3. /\ queue' \in Seq(Items) /\ Len(queue') = Len(queue) + 1
      /\ \A f \in Functors : HasIn(queue', f) <=> HasIn(queue, f) \/ f = item[1]
      /\ Destroys(queue')
           = Destroys(queue) \cup (IF item[1] = "connectDestroyed" THEN {item[2]} ELSE {})
      /\ ResetWithin(queue, batch) => ResetWithin(queue', batch')
  BY <1>1, AfterAppend
<1>4. QED
  BY <1>1, <1>2, <1>3 DEF QueueInv

(* A queue whose first functor is run, what it queues itself left aside.   *)
LEMMA QueueShorter ==
  ASSUME QueueInv, batch > 0
  PROVE  /\ Tail(queue) \in Seq(Items) /\ OnceIn(Tail(queue)) /\ batch - 1 \in 0..Len(Tail(queue))
         /\ Head(queue) \in Items
         /\ \A f \in Functors : HasIn(queue, f) <=> HasIn(Tail(queue), f) \/ f = Head(queue)[1]
         /\ ~HasIn(Tail(queue), "startInLoop")
         /\ Head(queue)[1] = "resetChannel" => ~HasIn(Tail(queue), "resetChannel")
         /\ Destroys(Tail(queue)) \subseteq Destroys(queue)
         /\ Head(queue)[1] = "connectDestroyed"
              => Head(queue)[2] \in Destroys(queue) \ Destroys(Tail(queue))
         /\ ResetWithin(queue, batch) /\ Head(queue)[1] # "resetChannel"
              => ResetWithin(Tail(queue), batch - 1)
<1>1. queue \in Seq(Items) /\ OnceIn(queue) /\ batch \in 1..Len(queue) /\ Len(queue) \in Nat
  BY LenProperties DEF QueueInv
<1>2. Len(queue) > 0
  BY <1>1
<1>3. Len(Tail(queue)) = Len(queue) - 1
  BY <1>1, <1>2, AfterTail
<1>4. batch - 1 \in 0..Len(Tail(queue))
  BY <1>1, <1>3
<1>5. QED
  BY <1>1, <1>2, <1>4, AfterTail
-----------------------------------------------------------------------------
(* The rounds of the loop.                                                 *)

(* While connect_ is set one thing at most can be reported.                *)
LEMMA OneReportable ==
  ASSUME ClientInv
  PROVE  /\ connect => \E source \in Sources : Reportable \subseteq {source}
         /\ calls = 0 => Reportable = {}
<1> USE DEF ClientInv
<1>1. /\ "channel" \in Reportable => watched # {}
      /\ "connection" \in Reportable => Connections # {}
      /\ "timer" \in Reportable => timers # {} \/ (~client /\ connector)
      /\ Reportable \subseteq {"channel", "connection", "timer"}
  BY DEF Reportable, Sources
<1>2. watched # {} => state = "kConnecting"
  BY DEF SocketsInv, ChannelKnown
<1>3. client /\ Connections # {} => state = "kConnected" /\ connection # None
  BY DEF SocketsInv, OneConnection
<1>4. timers # {} => state = "kDisconnected"
  BY DEF TimersInv
<1>5. ~client /\ connect => watched = {} /\ timers = {} /\ ~connector
  BY <1>2 DEF EndInv, SocketsInv
<1>6. connect => \/ Reportable \subseteq {"channel"}
                 \/ Reportable \subseteq {"connection"}
                 \/ Reportable \subseteq {"timer"}
  BY <1>1, <1>2, <1>3, <1>4, <1>5
<1>7. calls = 0 => Reportable = {}
  BY <1>1, <1>2, <1>3 DEF StartInv
<1>8. QED
  BY <1>6, <1>7 DEF Sources

(* poll() returns with some of what can be reported.                       *)
LEMMA PollKeeps ==
  ASSUME ClientInv, Poll
  PROVE  ClientInv'
<1> USE DEF ClientInv
<1>1. /\ phase = "functors" /\ batch = 0 /\ phase' = "events" /\ ready' \in SUBSET Reportable
      /\ UNCHANGED <<connectorVars, open, clientVars, tcp, batch, queue, calls, wanted>>
  BY DEF Poll
<1>2. ~ResetWithin(queue, 0)
  BY DEF ResetWithin
<1>3. RoundInv'
  <2>1. ~(connect /\ Has("resetChannel"))
    BY <1>1, <1>2 DEF RoundInv
  <2>2. connect' => \E source \in Sources : ready' \subseteq {source}
    BY <1>1, OneReportable DEF connectorVars
  <2>3. QED
    BY <1>1, <2>1, <2>2 DEF RoundInv, connectorVars, Has
<1>4. ready' \in SUBSET Sources /\ (calls = 0 => ready' = {})
  BY <1>1, OneReportable DEF Reportable
<1>5. TypeInv' /\ QueueInv'
  BY <1>1, <1>4 DEF TypeInv, QueueInv, connectorVars, clientVars
<1>6. StartInv'
  BY <1>1, <1>4 DEF StartInv, connectorVars, clientVars, Has
<1>7. SocketsInv' /\ TimersInv'
  BY <1>1 DEF SocketsInv, ChannelKnown, SocketsOwned, OneConnection, Connections, TimersInv,
              connectorVars, clientVars, Has
<1>8. StopInv' /\ EndInv' /\ TriesInv'
  BY <1>1 DEF StopInv, EndInv, TriesInv, Connections, connectorVars, clientVars, Has
<1>9. QED
  BY <1>3, <1>5, <1>6, <1>7, <1>8

(* What was ready is not there any more.                                   *)
LEMMA NothingLeftKeeps ==
  ASSUME ClientInv, NothingLeft
  PROVE  ClientInv'
<1> USE DEF ClientInv
<1>1. /\ ready' \subseteq ready /\ phase = "events"
      /\ UNCHANGED <<connectorVars, open, clientVars, tcp, batch, phase, queue, calls, wanted>>
  BY DEF NothingLeft, Handles, clientVars
<1>2. TypeInv' /\ QueueInv' /\ RoundInv'
  BY <1>1 DEF TypeInv, QueueInv, RoundInv, connectorVars, clientVars, Has
<1>3. StartInv'
  BY <1>1 DEF StartInv, connectorVars, clientVars, Has
<1>4. SocketsInv' /\ TimersInv'
  BY <1>1 DEF SocketsInv, ChannelKnown, SocketsOwned, OneConnection, Connections, TimersInv,
              connectorVars, clientVars, Has
<1>5. StopInv' /\ EndInv' /\ TriesInv'
  BY <1>1 DEF StopInv, EndInv, TriesInv, Connections, connectorVars, clientVars, Has
<1>6. QED
  BY <1>2, <1>3, <1>4, <1>5

(* The functors that are pending are the batch, a resetChannel among them. *)
LEMMA SwapFunctorsKeeps ==
  ASSUME ClientInv, SwapFunctors
  PROVE  ClientInv'
<1> USE DEF ClientInv
<1>1. /\ ready = {} /\ phase' = "functors" /\ batch' = Len(queue)
      /\ UNCHANGED <<connectorVars, open, clientVars, tcp, ready, queue, calls, wanted>>
  BY DEF SwapFunctors
<1>2. QueueInv' /\ (Has("resetChannel") => ResetWithin(queue', batch'))
  BY <1>1, LenProperties DEF QueueInv, Has, HasIn, ResetWithin
<1>3. TypeInv' /\ RoundInv'
  BY <1>1, <1>2 DEF TypeInv, RoundInv, Has, connectorVars, clientVars, Sources
<1>4. StartInv'
  BY <1>1 DEF StartInv, connectorVars, clientVars, Has
<1>5. SocketsInv' /\ TimersInv'
  BY <1>1 DEF SocketsInv, ChannelKnown, SocketsOwned, OneConnection, Connections, TimersInv,
              connectorVars, clientVars, Has
<1>6. StopInv' /\ EndInv' /\ TriesInv'
  BY <1>1 DEF StopInv, EndInv, TriesInv, Connections, connectorVars, clientVars, Has
<1>7. QED
  BY <1>2, <1>3, <1>4, <1>5, <1>6
-----------------------------------------------------------------------------
(* Connections.                                                            *)

(* A connection is closed, in the poller's round or by a functor: it waits *)
(* to be destroyed, and the client knows of it no more.  There is to be a  *)
(* new one only when one is wanted and the Channel of the last attempt is  *)
(* gone.                                                                   *)
LEMMA CloseKeeps ==
  ASSUME ClientAssumption, ClientInv, NEW s \in Connections, ~restarting,
         NEW q \in Seq(Items), OnceIn(q), Destroys(q) \subseteq Destroys(queue),
         \A f \in Functors \ {"forceCloseInLoop"} : HasIn(q, f) <=> HasIn(queue, f),
         HasIn(q, "forceCloseInLoop") => HasIn(queue, "forceCloseInLoop"),
         batch' \in 0..Len(q), ResetWithin(queue, batch) => ResetWithin(q, batch'),
         client /\ connect => ~Has("resetChannel"),
         HandleClose(s, q), ready' \subseteq ready,
         UNCHANGED <<connectorVars, open, client, retry, connectToo, phase, calls, wanted>>
  PROVE  ClientInv'
<1> USE DEF ClientInv
<1> DEFINE item == <<"connectDestroyed", s>>
<1>1. /\ s \in Ids /\ tcp[s] \in {"kConnected", "kDisconnecting"}
      /\ tcp' = [tcp EXCEPT ![s] = "kDisconnected"]
      /\ queue' = Append(q, item)
      /\ client => connection' = None /\ restarting' = (retry /\ connectToo)
      /\ ~client => UNCHANGED <<connection, restarting>>
  BY DEF Connections, HandleClose, ForgetConnection
<1>2. item \in Items /\ item[1] = "connectDestroyed" /\ item[2] = s /\ s \notin Destroys(q)
  BY <1>1 DEF Items, SocketsInv
<1>3. /\ QueueInv'
      /\ \A f \in Functors : HasIn(queue', f) <=> HasIn(q, f) \/ f = "connectDestroyed"
      /\ Destroys(queue') \subseteq Destroys(queue) \cup {s}
      /\ ResetWithin(queue, batch) => ResetWithin(queue', batch')
  <2> HIDE DEF item
  <2>1. OnceIn(queue')
    BY <1>1, <1>2, AppendOnce
  <2>2. /\ Append(q, item) \in Seq(Items) /\ Len(Append(q, item)) = Len(q) + 1 /\ Len(q) \in Nat
        /\ \A f \in Functors : HasIn(Append(q, item), f) <=> HasIn(q, f) \/ f = item[1]
        /\ Destroys(Append(q, item)) = Destroys(q) \cup {s}
        /\ \A n \in 0..Len(q) : ResetWithin(q, n) => ResetWithin(Append(q, item), n)
    BY <1>2, AfterAppend, LenProperties
  <2>3. QED
    BY <1>1, <1>2, <2>1, <2>2 DEF QueueInv
<1>4. /\ Has("startInLoop")' <=> Has("startInLoop")
      /\ Has("stopInLoop")' <=> Has("stopInLoop")
      /\ Has("resetChannel")' <=> Has("resetChannel")
      /\ Has("cancel")' <=> Has("cancel")
      /\ Has("forceCloseInLoop")' => Has("forceCloseInLoop")
  BY <1>3 DEF Has, Functors, RawFunctors
<1>5. /\ Connections' = Connections \ {s}
      /\ \A i \in Ids : tcp'[i] # "none" <=> tcp[i] # "none"
  BY <1>1 DEF TypeInv, Connections
<1>6. client => s = connection /\ state = "kConnected" /\ Connections' = {}
  BY <1>1, <1>5 DEF SocketsInv, OneConnection, None, ClientAssumption
<1>7. restarting' \in BOOLEAN /\ connection' \in Ids \cup {None}
      /\ (restarting' => client /\ retry /\ connectToo)
  BY <1>1 DEF TypeInv
<1>8. TypeInv'
  BY <1>1, <1>7 DEF TypeInv, connectorVars
<1>9. SocketsInv'
  <2>1. ChannelKnown' /\ SocketsOwned'
    BY <1>1, <1>5 DEF SocketsInv, ChannelKnown, SocketsOwned, connectorVars
  <2>2. OneConnection' /\ (connection' # None => client' /\ state' = "kConnected")
    BY <1>1, <1>6 DEF SocketsInv, OneConnection, connectorVars
  <2>3. state' = "kConnecting" => tcp'[channel'] = "none"
    BY <1>1 DEF SocketsInv, TypeInv, connectorVars
  <2>4. \A d \in Destroys(queue') : tcp'[d] = "kDisconnected"
    BY <1>1, <1>3, DestroysKnown DEF SocketsInv, TypeInv, QueueInv
  <2>5. QED
    BY <1>4, <2>1, <2>2, <2>3, <2>4 DEF SocketsInv, connectorVars
<1>10. TimersInv' /\ TriesInv'
  BY <1>4 DEF TimersInv, TriesInv, connectorVars
<1>11. RoundInv'
  BY <1>3, <1>4 DEF RoundInv, connectorVars, Has
<1>12. StartInv'
  <2>1. restarting' => calls > 0 /\ wanted /\ connect
    <3>1. connection # None => calls # 0
      BY DEF StartInv
    <3>2. QED
      BY <1>1, <1>6, <1>7, <3>1 DEF StopInv, TypeInv, None, ClientAssumption
  <2>2. restarting' => ~Has("resetChannel") /\ connection' = None /\ state = "kConnected"
    BY <1>1, <1>6, <1>7, <2>1
  <2>3. calls # 0
    BY <1>6 DEF StartInv, None, ClientAssumption
  <2>4. QED
    BY <1>4, <1>7, <2>1, <2>2, <2>3 DEF StartInv, connectorVars
<1>13. StopInv' /\ EndInv'
  BY <1>4, <1>5 DEF StopInv, EndInv, connectorVars
<1>14. QED
  BY <1>3, <1>8, <1>9, <1>10, <1>11, <1>12, <1>13

(* The peer has closed.                                                    *)
LEMMA PeerClosesKeeps ==
  ASSUME ClientAssumption, ClientInv, PeerCloses
  PROVE  ClientInv'
<1> USE DEF ClientInv
<1>1. PICK s \in Connections : HandleClose(s, queue)
  BY DEF PeerCloses
<1>2. /\ phase = "events" /\ ready # {} /\ ready' \subseteq ready /\ ~restarting
      /\ UNCHANGED <<connectorVars, open, client, retry, connectToo, phase, batch, calls, wanted>>
  BY DEF PeerCloses, Handles
<1>3. client /\ connect => ~Has("resetChannel")
  BY <1>2 DEF RoundInv
<1>4. queue \in Seq(Items) /\ OnceIn(queue) /\ batch' \in 0..Len(queue)
  BY <1>2 DEF QueueInv
<1>5. QED
  BY <1>1, <1>2, <1>3, <1>4, CloseKeeps

(* forceClose() of a destroyed client has its turn.                        *)
LEMMA RunForceCloseKeeps ==
  ASSUME ClientAssumption, ClientInv, RunForceClose
  PROVE  ClientInv'
<1> USE DEF ClientInv
<1> DEFINE s == Head(queue)[2]
<1>1. /\ phase = "functors" /\ batch > 0 /\ ~restarting /\ batch' = batch - 1
      /\ Head(queue)[1] = "forceCloseInLoop"
      /\ UNCHANGED <<connectorVars, open, client, retry, connectToo, phase, ready, calls, wanted>>
  BY DEF RunForceClose, Runs, BatchLeft, connectorVars
<1>2. ~client
  <2>1. Has("forceCloseInLoop")
    BY <1>1, QueueShorter DEF Has, Functors
  <2>2. QED
    BY <2>1 DEF StopInv
<1>3. /\ Tail(queue) \in Seq(Items) /\ OnceIn(Tail(queue)) /\ batch' \in 0..Len(Tail(queue))
      /\ Destroys(Tail(queue)) \subseteq Destroys(queue)
      /\ \A f \in Functors \ {"forceCloseInLoop"} : HasIn(Tail(queue), f) <=> HasIn(queue, f)
      /\ HasIn(Tail(queue), "forceCloseInLoop") => HasIn(queue, "forceCloseInLoop")
      /\ ResetWithin(queue, batch) => ResetWithin(Tail(queue), batch')
  BY <1>1, QueueShorter DEF Functors
<1>4. CASE s \in Connections
  <2>1. HandleClose(s, Tail(queue))
    BY <1>4 DEF RunForceClose
  <2>2. QED
    BY <1>1, <1>2, <1>3, <1>4, <2>1, CloseKeeps
<1>5. CASE s \notin Connections
  <2>1. queue' = Tail(queue) /\ UNCHANGED <<tcp, connection, restarting>>
    BY <1>5 DEF RunForceClose
  <2>2. /\ Has("startInLoop")' <=> Has("startInLoop")
        /\ Has("stopInLoop")' <=> Has("stopInLoop")
        /\ Has("resetChannel")' <=> Has("resetChannel")
        /\ Has("cancel")' <=> Has("cancel")
        /\ Has("forceCloseInLoop")' => Has("forceCloseInLoop")
    BY <1>3, <2>1 DEF Has, Functors, RawFunctors
  <2>3. TypeInv' /\ QueueInv'
    BY <1>1, <1>3, <2>1 DEF TypeInv, QueueInv, connectorVars
  <2>4. SocketsInv' /\ TimersInv' /\ TriesInv'
    BY <1>1, <1>3, <2>1, <2>2 DEF SocketsInv, ChannelKnown, SocketsOwned, OneConnection, Connections,
                                  TimersInv, TriesInv, connectorVars
  <2>5. RoundInv'
    BY <1>1, <1>3, <2>1, <2>2 DEF RoundInv, connectorVars
  <2>6. StartInv' /\ StopInv' /\ EndInv'
    <3>1. calls # 0
      BY <1>2 DEF StartInv
    <3>2. QED
      BY <1>1, <2>1, <2>2, <3>1 DEF StartInv, StopInv, EndInv, Connections, connectorVars
  <2>7. QED
    BY <2>3, <2>4, <2>5, <2>6
<1>6. QED
  BY <1>4, <1>5
-----------------------------------------------------------------------------
(* The functors.                                                           *)

(* What a functor leaves of the queue when it queues nothing.              *)
LEMMA FunctorRuns ==
  ASSUME QueueInv, batch > 0, queue' = Tail(queue), batch' = batch - 1
  PROVE  /\ QueueInv'
         /\ Destroys(queue') \subseteq Destroys(queue)
         /\ \A f \in Functors : Has(f)' => Has(f)
         /\ \A f \in Functors : f # Head(queue)[1] => (Has(f) => Has(f)')
         /\ Head(queue)[1] \in Functors /\ Has(Head(queue)[1]) /\ ~Has("startInLoop")'
         /\ Head(queue)[1] = "resetChannel" => ~Has("resetChannel")'
         /\ Head(queue)[1] = "connectDestroyed"
              => Head(queue)[2] \in Destroys(queue) \ Destroys(queue')
         /\ ResetWithin(queue, batch) /\ Head(queue)[1] # "resetChannel"
              => ResetWithin(queue', batch')
<1>1. Head(queue)[1] \in Functors
  BY QueueShorter, ItemsAre
<1>2. QueueInv' /\ Destroys(queue') \subseteq Destroys(queue)
  BY QueueShorter DEF QueueInv
<1>3. /\ \A f \in Functors : Has(f)' => Has(f)
      /\ \A f \in Functors : f # Head(queue)[1] => (Has(f) => Has(f)')
      /\ Has(Head(queue)[1]) /\ ~Has("startInLoop")'
      /\ Head(queue)[1] = "resetChannel" => ~Has("resetChannel")'
  BY <1>1, QueueShorter DEF Has
<1>4. /\ Head(queue)[1] = "connectDestroyed"
           => Head(queue)[2] \in Destroys(queue) \ Destroys(queue')
      /\ ResetWithin(queue, batch) /\ Head(queue)[1] # "resetChannel"
           => ResetWithin(queue', batch')
  BY QueueShorter
<1>5. QED
  BY <1>1, <1>2, <1>3, <1>4

(* The Channel that left the poller is destroyed.                          *)
LEMMA RunResetChannelKeeps ==
  ASSUME ClientAssumption, ClientInv, RunResetChannel
  PROVE  ClientInv'
<1> USE DEF ClientInv
<1>1. /\ phase = "functors" /\ batch > 0 /\ batch' = batch - 1 /\ Head(queue)[1] = "resetChannel"
      /\ connector /\ ~restarting /\ channel' = None /\ queue' = Tail(queue)
      /\ UNCHANGED <<phase, ready, calls, wanted, connect, client, retry, connectToo, connector, state,
                     timers, timerId, gaveUp, watched, open, connection, restarting, tcp>>
  BY DEF RunResetChannel, Runs, BatchLeft, RawFunctors
<1>2. /\ QueueInv' /\ Destroys(queue') \subseteq Destroys(queue)
      /\ Has("resetChannel") /\ ~Has("resetChannel")' /\ ~Has("startInLoop")'
      /\ Has("stopInLoop") <=> Has("stopInLoop")'
      /\ Has("cancel")' => Has("cancel")
      /\ Has("forceCloseInLoop")' => Has("forceCloseInLoop")
  BY <1>1, FunctorRuns DEF Functors, RawFunctors
<1>3. ~Has("startInLoop") /\ calls # 0 /\ state # "kConnecting"
  <2>1. calls = 0 => ~Has("resetChannel")
    BY LenProperties DEF StartInv, Has, HasIn, QueueInv
  <2>2. QED
    BY <1>2, <2>1 DEF StartInv, SocketsInv
<1>4. TypeInv' /\ TimersInv' /\ RoundInv'
  BY <1>1, <1>2 DEF TypeInv, TimersInv, RoundInv
<1>5. SocketsInv'
  BY <1>1, <1>2, <1>3 DEF SocketsInv, ChannelKnown, SocketsOwned, OneConnection, Connections
<1>6. StartInv' /\ StopInv' /\ EndInv' /\ TriesInv'
  BY <1>1, <1>2, <1>3 DEF StartInv, StopInv, EndInv, TriesInv, Connections
<1>7. QED
  BY <1>2, <1>4, <1>5, <1>6

(* A timer is cancelled, if it is still there.                             *)
LEMMA RunCancelKeeps ==
  ASSUME ClientAssumption, ClientInv, RunCancel
  PROVE  ClientInv'
<1> USE DEF ClientInv
<1>1. /\ phase = "functors" /\ batch > 0 /\ batch' = batch - 1 /\ Head(queue)[1] = "cancel"
      /\ ~restarting /\ timers' \subseteq timers /\ queue' = Tail(queue)
      /\ UNCHANGED <<phase, ready, calls, wanted, connect, client, retry, connectToo, connector, state,
                     channel, timerId, gaveUp, watched, open, connection, restarting, tcp>>
  BY DEF RunCancel, Runs, BatchLeft
<1>2. /\ QueueInv' /\ Destroys(queue') \subseteq Destroys(queue)
      /\ Has("cancel") /\ ~Has("startInLoop")'
      /\ Has("resetChannel") <=> Has("resetChannel")'
      /\ Has("stopInLoop") <=> Has("stopInLoop")'
      /\ Has("forceCloseInLoop")' => Has("forceCloseInLoop")
  BY <1>1, FunctorRuns DEF Functors, RawFunctors
<1>3. ~connect /\ ~wanted /\ calls # 0
  <2>1. calls = 0 => ~Has("cancel")
    BY LenProperties DEF StartInv, Has, HasIn, QueueInv
  <2>2. QED
    BY <1>2, <2>1 DEF StopInv
<1>4. TypeInv' /\ TimersInv' /\ RoundInv' /\ TriesInv'
  BY <1>1, <1>2, <1>3, ZenonT(60) DEF TypeInv, TimersInv, RoundInv, TriesInv
<1>5. SocketsInv'
  BY <1>1, <1>2 DEF SocketsInv, ChannelKnown, SocketsOwned, OneConnection, Connections
<1>6. StartInv' /\ StopInv' /\ EndInv'
  BY <1>1, <1>2, <1>3 DEF StartInv, StopInv, EndInv, Connections
<1>7. QED
  BY <1>2, <1>4, <1>5, <1>6

(* A connection is destroyed, and its socket closed, which is not that of  *)
(* an attempt.                                                             *)
LEMMA RunConnectDestroyedKeeps ==
  ASSUME ClientAssumption, ClientInv, RunConnectDestroyed
  PROVE  ClientInv'
<1> USE DEF ClientInv
<1> DEFINE s == Head(queue)[2]
<1>1. /\ phase = "functors" /\ batch > 0 /\ batch' = batch - 1 /\ Head(queue)[1] = "connectDestroyed"
      /\ ~restarting /\ tcp' = [tcp EXCEPT ![s] = "none"] /\ open' = open \ {s} /\ queue' = Tail(queue)
      /\ UNCHANGED <<phase, ready, calls, wanted, connect, client, retry, connectToo, connector, state,
                     channel, timers, timerId, gaveUp, watched, connection, restarting>>
  BY DEF RunConnectDestroyed, Runs, BatchLeft, CloseSocket
<1>2. /\ QueueInv' /\ Destroys(queue') \subseteq Destroys(queue)
      /\ s \in Destroys(queue) \ Destroys(queue')
      /\ ResetWithin(queue, batch) => ResetWithin(queue', batch')
  BY <1>1, FunctorRuns
<1>3. /\ Has("startInLoop") => Has("startInLoop")'
      /\ ~Has("startInLoop")'
      /\ Has("resetChannel") <=> Has("resetChannel")'
      /\ Has("stopInLoop") <=> Has("stopInLoop")'
      /\ Has("cancel")' => Has("cancel")
      /\ Has("forceCloseInLoop")' => Has("forceCloseInLoop")
  BY <1>1, FunctorRuns DEF Functors, RawFunctors
<1>4. s \in Ids /\ tcp[s] = "kDisconnected" /\ s \notin watched
  BY <1>2, DestroysKnown DEF QueueInv, SocketsInv, ChannelKnown
<1>5. calls # 0
  BY <1>1, LenProperties DEF StartInv, QueueInv
<1>6. /\ Connections' = Connections
      /\ {i \in Ids : tcp'[i] # "none"} = {i \in Ids : tcp[i] # "none"} \ {s}
  BY <1>1, <1>4 DEF TypeInv, Connections
<1>7. TypeInv' /\ TimersInv' /\ TriesInv'
  BY <1>1, <1>3, ZenonT(60) DEF TypeInv, TimersInv, TriesInv
<1>8. RoundInv'
  BY <1>1, <1>2, <1>3 DEF RoundInv
<1>9. SocketsInv'
  <2>1. ChannelKnown' /\ SocketsOwned' /\ OneConnection'
    BY <1>1, <1>4, <1>6 DEF SocketsInv, ChannelKnown, SocketsOwned, OneConnection
  <2>2. \A d \in Destroys(queue') : tcp'[d] = "kDisconnected"
    BY <1>1, <1>2, DestroysKnown DEF SocketsInv, TypeInv, QueueInv
  <2>3. state' = "kConnecting" => tcp'[channel'] = "none"
    BY <1>1, <1>4 DEF SocketsInv, TypeInv
  <2>4. QED
    BY <1>1, <1>3, <2>1, <2>2, <2>3 DEF SocketsInv
<1>10. StartInv' /\ StopInv' /\ EndInv'
  BY <1>1, <1>3, <1>5, <1>6 DEF StartInv, StopInv, EndInv
<1>11. QED
  BY <1>2, <1>7, <1>8, <1>9, <1>10

(* startInLoop has its turn: the user still wants the connection, or the   *)
(* Connector was stopped first.                                            *)
LEMMA RunStartInLoopKeeps ==
  ASSUME ClientAssumption, ClientInv, RunStartInLoop
  PROVE  ClientInv'
<1> USE DEF ClientInv
<1>1. /\ phase = "functors" /\ batch > 0 /\ batch' = batch - 1 /\ Head(queue)[1] = "startInLoop"
      /\ connector /\ ~restarting /\ queue' = Tail(queue)
      /\ StartInLoop(timers)
      /\ UNCHANGED <<phase, ready, calls, wanted, connect, client, retry, connectToo, connector,
                     connection, restarting, tcp>>
  BY DEF RunStartInLoop, Runs, BatchLeft, RawFunctors
<1>2. /\ QueueInv' /\ Destroys(queue') \subseteq Destroys(queue)
      /\ Has("startInLoop") /\ ~Has("startInLoop")'
      /\ Has("resetChannel")' => Has("resetChannel")
      /\ Has("stopInLoop") <=> Has("stopInLoop")'
      /\ Has("cancel")' => Has("cancel")
      /\ Has("forceCloseInLoop")' => Has("forceCloseInLoop")
  BY <1>1, FunctorRuns DEF Functors, RawFunctors
<1>3. /\ state = "kDisconnected" /\ timers = {} /\ ~Has("resetChannel") /\ connection = None /\ calls # 0
      /\ ready = {}
  <2>1. calls = 0 => ~Has("startInLoop")
    BY LenProperties DEF StartInv, Has, HasIn, QueueInv
  <2>2. QED
    BY <1>1, <1>2, <2>1 DEF StartInv, SocketsInv, RoundInv
<1>4. CASE connect
  <2>1. connect' = TRUE /\ wanted' = TRUE /\ restarting' = FALSE /\ client
    BY <1>1, <1>2, <1>3, <1>4 DEF TypeInv, StopInv, EndInv
  <2>2. Connect("kDisconnected", {})
    BY <1>1, <1>3, <2>1 DEF StartInLoop, StartTest
  <2>3. \A f \in RawFunctors \cup {"cancel", "forceCloseInLoop"} : ~Has(f)'
    BY <1>2, <1>3, <1>4, <2>1 DEF StopInv, RawFunctors
  <2>4. connectToo' \in BOOLEAN /\ calls' \in 1..MaxCalls
    BY <1>1, <1>3 DEF TypeInv, ClientAssumption
  <2>5. ready' \in SUBSET Sources /\ ready' = {} /\ \E source \in Sources : ready' \subseteq {source}
    BY <1>1, <1>3 DEF Sources
  <2>6. UNCHANGED <<connector, client, retry, connection, tcp, phase>>
    BY <1>1
  <2>7. QED
    BY <1>2, <1>3, <2>1, <2>2, <2>3, <2>4, <2>5, <2>6, ConnectKeeps
<1>5. CASE ~connect
  <2>1. UNCHANGED <<state, channel, timers, timerId, gaveUp, watched, open>>
    BY <1>1, <1>5 DEF StartInLoop, StartTest
  <2>2. TypeInv' /\ TimersInv' /\ RoundInv'
    BY <1>1, <1>3, <1>5, <2>1 DEF TypeInv, TimersInv, RoundInv
  <2>3. SocketsInv'
    BY <1>1, <1>2, <1>3, <2>1 DEF SocketsInv, ChannelKnown, SocketsOwned, OneConnection, Connections
  <2>4. StartInv' /\ StopInv' /\ EndInv' /\ TriesInv'
    BY <1>1, <1>2, <1>3, <1>5, <2>1 DEF StartInv, StopInv, EndInv, TriesInv, Connections
  <2>5. QED
    BY <1>2, <2>2, <2>3, <2>4
<1>6. QED
  BY <1>4, <1>5

(* stopInLoop has its turn: an attempt under way is given up, and its      *)
(* Channel leaves the poller.                                              *)
LEMMA RunStopInLoopKeeps ==
  ASSUME ClientAssumption, ClientInv, RunStopInLoop
  PROVE  ClientInv'
<1> USE DEF ClientInv
<1>1. /\ phase = "functors" /\ batch > 0 /\ batch' = batch - 1 /\ Head(queue)[1] = "stopInLoop"
      /\ connector /\ ~restarting
      /\ UNCHANGED <<phase, ready, calls, wanted, connect, client, retry, connectToo, connector,
                     channel, gaveUp, connection, restarting, tcp>>
  BY DEF RunStopInLoop, Runs, BatchLeft, RawFunctors
<1>2. /\ Tail(queue) \in Seq(Items) /\ OnceIn(Tail(queue)) /\ batch - 1 \in 0..Len(Tail(queue))
      /\ Has("stopInLoop") /\ ~HasIn(Tail(queue), "startInLoop")
      /\ HasIn(Tail(queue), "resetChannel") <=> Has("resetChannel")
      /\ HasIn(Tail(queue), "cancel") => Has("cancel")
      /\ HasIn(Tail(queue), "forceCloseInLoop") => Has("forceCloseInLoop")
      /\ Destroys(Tail(queue)) \subseteq Destroys(queue)
  BY <1>1, QueueShorter DEF Has, Functors, RawFunctors
<1>3. ~connect /\ ~wanted /\ calls # 0
  <2>1. calls = 0 => ~Has("stopInLoop")
    BY LenProperties DEF StartInv, Has, HasIn, QueueInv
  <2>2. QED
    BY <1>2, <2>1 DEF StopInv
<1>4. CASE state = "kConnecting"
  <2> DEFINE item == <<"resetChannel", None>>
  <2>1. /\ state' = "kDisconnected" /\ watched' = watched \ {channel} /\ open' = open \ {channel}
        /\ queue' = Append(Tail(queue), item)
        /\ UNCHANGED <<timers, timerId>>
    BY <1>1, <1>3, <1>4 DEF RunStopInLoop, RemoveAndResetChannel, CloseSocket, Retry, ScheduleRetry
  <2>2. item \in Items /\ item[1] = "resetChannel" /\ ~Has("resetChannel")
    BY <1>4 DEF Items, RawFunctors, SocketsInv
  <2>3. /\ QueueInv' /\ Destroys(queue') \subseteq Destroys(queue)
        /\ Has("resetChannel")' /\ ~Has("startInLoop")'
        /\ Has("cancel")' => Has("cancel")
        /\ Has("forceCloseInLoop")' => Has("forceCloseInLoop")
    <3> DEFINE q == Tail(queue)
    <3>1. q \in Seq(Items) /\ OnceIn(q) /\ queue' = Append(q, item) /\ ~HasIn(q, "resetChannel")
      BY <1>2, <2>1, <2>2
    <3> HIDE DEF q, item
    <3>2. /\ OnceIn(queue') /\ queue' \in Seq(Items) /\ Len(queue') = Len(q) + 1
          /\ \A f \in Functors : HasIn(queue', f) <=> HasIn(q, f) \/ f = "resetChannel"
          /\ Destroys(queue') = Destroys(q)
      BY <2>2, <3>1, AppendOnce, AfterAppend
    <3>3. batch' \in 0..Len(queue')
      BY <1>1, <1>2, <3>1, <3>2, LenProperties DEF q
    <3>4. QED
      BY <1>2, <3>2, <3>3 DEF QueueInv, Has, Functors, RawFunctors, q
  <2>4. TypeInv' /\ TimersInv' /\ RoundInv'
    BY <1>1, <1>3, <2>1 DEF TypeInv, TimersInv, RoundInv
  <2>5. watched = {channel} \ {None} /\ tcp[channel] = "none" /\ timers = {} /\ channel # None
    BY <1>4, <2>2 DEF SocketsInv, ChannelKnown, TimersInv
  <2>6. SocketsInv'
    BY <1>1, <1>4, <2>1, <2>2, <2>3, <2>5 DEF SocketsInv, ChannelKnown, SocketsOwned, OneConnection, Connections
  <2>7. StartInv' /\ StopInv' /\ EndInv' /\ TriesInv'
    BY <1>1, <1>3, <2>1, <2>3, <2>5 DEF StartInv, StopInv, EndInv, TriesInv, Connections
  <2>8. QED
    BY <2>3, <2>4, <2>6, <2>7
<1>5. CASE state # "kConnecting"
  <2>1. queue' = Tail(queue) /\ UNCHANGED <<state, timers, timerId, watched, open>>
    BY <1>5 DEF RunStopInLoop
  <2>2. /\ QueueInv' /\ Destroys(queue') \subseteq Destroys(queue)
        /\ Has("resetChannel") <=> Has("resetChannel")'
        /\ ~Has("startInLoop")'
        /\ Has("cancel")' => Has("cancel")
        /\ Has("forceCloseInLoop")' => Has("forceCloseInLoop")
    BY <1>1, <1>2, <2>1 DEF QueueInv, Has
  <2>3. TypeInv' /\ TimersInv' /\ RoundInv'
    BY <1>1, <1>3, <2>1 DEF TypeInv, TimersInv, RoundInv
  <2>4. SocketsInv'
    BY <1>1, <1>5, <2>1, <2>2 DEF SocketsInv, ChannelKnown, SocketsOwned, OneConnection, Connections
  <2>5. StartInv' /\ StopInv' /\ EndInv' /\ TriesInv'
    BY <1>1, <1>3, <1>5, <2>1, <2>2 DEF StartInv, StopInv, EndInv, TriesInv, Connections
  <2>6. QED
    BY <2>2, <2>3, <2>4, <2>5
<1>6. QED
  BY <1>4, <1>5
-----------------------------------------------------------------------------
(* What the poller reports, and the timers.                                *)

(* The timer of the next attempt has expired.                              *)
LEMMA RetryTimerKeeps ==
  ASSUME ClientAssumption, ClientInv, RetryTimer
  PROVE  ClientInv'
<1> USE DEF ClientInv
<1>1. PICK t \in timers : StartInLoop(timers \ {t})
  BY DEF RetryTimer
<1>2. /\ phase = "events" /\ ~restarting /\ "timer" \in ready /\ ready' = ready \ {"timer"}
      /\ UNCHANGED <<phase, batch, calls, wanted, retry, connectToo, client, connect,
                     connector, connection, restarting, tcp, queue>>
  BY DEF RetryTimer, Handles
<1>3. timers \ {t} = {} /\ state = "kDisconnected" /\ connection = None /\ calls # 0
      /\ connector /\ ~Has("startInLoop")
  BY <1>1 DEF TimersInv, SocketsInv, StartInv, EndInv
<1>4. QueueInv' /\ \A f \in Functors : Has(f)' <=> Has(f)
  BY <1>2 DEF QueueInv, Has
<1>5. ready' \in SUBSET Sources /\ ready' \subseteq ready
  BY <1>2 DEF TypeInv
<1>6. CASE connect
  <2>1. connect' = TRUE /\ wanted' = TRUE /\ restarting' = FALSE /\ client
    BY <1>2, <1>3, <1>6 DEF TypeInv, StopInv, EndInv
  <2>2. Connect("kDisconnected", {})
    BY <1>1, <1>3, <2>1 DEF StartInLoop, StartTest
  <2>3. ~Has("resetChannel") /\ \E source \in Sources : ready' \subseteq {source}
    BY <1>2, <1>5, <1>6 DEF RoundInv
  <2>4. \A f \in RawFunctors \cup {"cancel", "forceCloseInLoop"} : ~Has(f)'
    BY <1>3, <1>4, <1>6, <2>1, <2>3 DEF StopInv, RawFunctors, Functors
  <2>5. connectToo' \in BOOLEAN /\ calls' \in 1..MaxCalls
    BY <1>2, <1>3 DEF TypeInv, ClientAssumption
  <2>6. UNCHANGED <<connector, client, retry, connection, tcp, phase>>
        /\ Destroys(queue') \subseteq Destroys(queue) /\ phase # "functors"
    BY <1>2
  <2>7. QED
    BY <1>3, <1>4, <1>5, <2>1, <2>2, <2>3, <2>4, <2>5, <2>6, ConnectKeeps
<1>7. CASE ~connect
  <2>1. timers' = {} /\ UNCHANGED <<state, channel, timerId, gaveUp, watched, open>>
    BY <1>1, <1>2, <1>3, <1>7 DEF StartInLoop, StartTest
  <2>2. TypeInv' /\ TimersInv' /\ RoundInv'
    BY <1>2, <1>5, <1>7, <2>1 DEF TypeInv, TimersInv, RoundInv
  <2>3. SocketsInv'
    BY <1>2, <2>1 DEF SocketsInv, ChannelKnown, SocketsOwned, OneConnection, Connections, Has
  <2>4. StartInv' /\ StopInv' /\ EndInv' /\ TriesInv'
    BY <1>2, <1>3, <1>7, <2>1 DEF StartInv, StopInv, EndInv, TriesInv, Connections, Has
  <2>5. QED
    BY <1>4, <2>2, <2>3, <2>4
<1>8. QED
  BY <1>6, <1>7

(* restart() makes the first attempt anew when a connection has ended.     *)
LEMMA RestartKeeps ==
  ASSUME ClientAssumption, ClientInv, Restart
  PROVE  ClientInv'
<1> USE DEF ClientInv
<1>1. /\ restarting /\ restarting' = FALSE /\ connect' = TRUE
      /\ Connect("kDisconnected", timers)
      /\ UNCHANGED <<connector, client, retry, connectToo, connection, tcp, phase, batch, ready,
                     queue, calls, wanted>>
  BY DEF Restart, loopVars
<1>2. /\ wanted /\ connection = None /\ state = "kConnected" /\ ~Has("resetChannel")
      /\ timers = {} /\ connect /\ client /\ ~Has("startInLoop") /\ calls # 0
  BY <1>1 DEF StartInv, TimersInv, StopInv
<1>3. Connect("kDisconnected", {})
  BY <1>1, <1>2
<1>4. QueueInv' /\ \A f \in Functors : Has(f)' <=> Has(f)
  BY <1>1 DEF QueueInv, Has
<1>5. \A f \in RawFunctors \cup {"cancel", "forceCloseInLoop"} : ~Has(f)'
  BY <1>2, <1>4 DEF StopInv, RawFunctors, Functors
<1>6. connectToo' \in BOOLEAN /\ calls' \in 1..MaxCalls /\ wanted' = TRUE /\ ready' \in SUBSET Sources
  BY <1>1, <1>2 DEF TypeInv, ClientAssumption
<1>7. /\ phase = "functors" => ready' = {}
      /\ \E source \in Sources : ready' \subseteq {source}
  BY <1>1, <1>2 DEF RoundInv
<1>8. UNCHANGED <<connector, client, retry, connection, tcp, phase>>
      /\ Destroys(queue') \subseteq Destroys(queue) /\ state # "kConnecting"
  BY <1>1, <1>2
<1>9. QED
  BY <1>1, <1>2, <1>3, <1>4, <1>5, <1>6, <1>7, <1>8, ConnectKeeps

(* The attempt ends: there is a connection, or there is to be another one, *)
(* or none is wanted any more.                                             *)
LEMMA HandleWriteOrErrorKeeps ==
  ASSUME ClientAssumption, ClientInv, HandleWriteOrError
  PROVE  ClientInv'
<1> USE DEF ClientInv
<1> DEFINE item == <<"resetChannel", None>>
<1>1. /\ phase = "events" /\ ~restarting /\ "channel" \in ready /\ ready' = ready \ {"channel"}
      /\ state = "kConnecting" /\ watched' = watched \ {channel} /\ queue' = Append(queue, item)
      /\ UNCHANGED <<phase, batch, calls, wanted, retry, connectToo, client, connect, channel, gaveUp,
                     connector, restarting>>
  BY DEF HandleWriteOrError, Handles, RemoveAndResetChannel
<1>2. item \in Items /\ item[1] = "resetChannel" /\ ~Has("resetChannel")
  BY <1>1 DEF Items, RawFunctors, SocketsInv
<1>3. /\ QueueInv' /\ Destroys(queue') = Destroys(queue)
      /\ Has("resetChannel")' /\ ~Has("startInLoop")'
      /\ Has("stopInLoop")' <=> Has("stopInLoop")
      /\ Has("cancel")' <=> Has("cancel")
      /\ Has("forceCloseInLoop")' <=> Has("forceCloseInLoop")
  <2>1. ~Has("startInLoop")
    BY <1>1 DEF StartInv
  <2> HIDE DEF item
  <2>2. /\ QueueInv'
        /\ \A f \in Functors : HasIn(queue', f) <=> HasIn(queue, f) \/ f = item[1]
        /\ Destroys(queue') = Destroys(queue)
    BY <1>1, <1>2, QueueLonger
  <2>3. QED
    BY <1>2, <2>1, <2>2 DEF Has, Functors, RawFunctors
<1>4. /\ channel \in Ids /\ channel # None /\ watched = {channel} /\ watched' = {} /\ tcp[channel] = "none"
      /\ connection = None /\ timers = {} /\ connector /\ calls # 0
      /\ connect => client /\ wanted /\ Connections = {}
  <2>1. /\ channel # None /\ connection = None /\ tcp[channel] = "none" /\ timers = {} /\ calls # 0
        /\ client => Connections = {}
    BY <1>1, <1>2 DEF SocketsInv, OneConnection, TimersInv, StartInv
  <2>2. watched = {channel} /\ channel \in Ids
    BY <1>1, <2>1 DEF SocketsInv, ChannelKnown, TypeInv
  <2>3. connector /\ (connect => client /\ wanted)
    BY <1>1, <2>1 DEF EndInv, StopInv
  <2>4. QED
    BY <1>1, <2>1, <2>2, <2>3
<1>5. connect => ready' = {}
  BY <1>1 DEF RoundInv
<1>6. RoundInv'
  BY <1>1, <1>5 DEF RoundInv, Sources
<1>7. ready' \in SUBSET Sources
  BY <1>1 DEF TypeInv
<1>8. CASE Established /\ connect
  <2>1. /\ state' = "kConnected" /\ connection' = channel /\ tcp' = [tcp EXCEPT ![channel] = "kConnected"]
        /\ UNCHANGED <<open, timers, timerId>>
    BY <1>8 DEF Established
  <2>2. /\ Connections' = {channel}
        /\ \A s \in Ids : tcp'[s] # "none" <=> (tcp[s] # "none" \/ s = channel)
    BY <1>4, <1>8, <2>1 DEF Connections, TypeInv
  <2>3. TypeInv' /\ TimersInv'
    BY <1>1, <1>4, <1>7, <2>1 DEF TypeInv, TimersInv
  <2>4. SocketsInv'
    <3>1. ChannelKnown' /\ SocketsOwned' /\ OneConnection'
      BY <1>1, <1>4, <2>1, <2>2 DEF SocketsInv, ChannelKnown, SocketsOwned, OneConnection
    <3>2. \A d \in Destroys(queue') : tcp'[d] = "kDisconnected"
      BY <1>3, <1>4, <2>1, DestroysKnown DEF SocketsInv, TypeInv, QueueInv
    <3>3. QED
      BY <1>1, <1>3, <1>4, <1>8, <2>1, <3>1, <3>2 DEF SocketsInv
  <2>5. StartInv' /\ StopInv' /\ EndInv' /\ TriesInv'
    BY <1>1, <1>3, <1>4, <1>8, <2>1 DEF StartInv, StopInv, EndInv, TriesInv
  <2>6. QED
    BY <1>3, <1>6, <2>3, <2>4, <2>5
<1>9. CASE (Established /\ ~connect) \/ Failed
  <2>1. /\ open' = open \ {channel} /\ UNCHANGED <<connection, tcp>>
        /\ \/ state' = "kConnected" /\ ~connect /\ UNCHANGED <<timers, timerId>>
           \/ state' = "kDisconnected" /\ ~connect /\ UNCHANGED <<timers, timerId>>
           \/ state' = "kDisconnected" /\ connect /\ timerId' \in Ids /\ timers' = {timerId'}
    BY <1>1, <1>4, <1>9, NewIsFree DEF Established, Failed, CloseSocket, Retry, ScheduleRetry, FreeTimers
  <2>2. TypeInv' /\ TimersInv'
    BY <1>1, <1>4, <1>7, <2>1 DEF TypeInv, TimersInv
  <2>3. SocketsInv'
    <3>1. ChannelKnown' /\ SocketsOwned' /\ OneConnection'
      BY <1>1, <1>4, <2>1 DEF SocketsInv, ChannelKnown, SocketsOwned, OneConnection, Connections
    <3>2. QED
      BY <1>1, <1>3, <1>4, <2>1, <3>1 DEF SocketsInv
  <2>4. StartInv' /\ StopInv' /\ EndInv' /\ TriesInv'
    BY <1>1, <1>3, <1>4, <2>1 DEF StartInv, StopInv, EndInv, TriesInv, Connections
  <2>5. QED
    BY <1>3, <1>6, <2>2, <2>3, <2>4
<1>10. QED
  BY <1>8, <1>9 DEF HandleWriteOrError

(* The timer of a destroyed client lets its Connector go, which has        *)
(* nothing left to do.                                                     *)
LEMMA ReleaseConnectorKeeps ==
  ASSUME ClientAssumption, ClientInv, ReleaseConnector
  PROVE  ClientInv'
<1> USE DEF ClientInv
<1>1. /\ phase = "events" /\ ready' = ready \ {"timer"} /\ ~client /\ connector /\ ~RawPending
      /\ connector' = FALSE /\ timers' = timers \ {timerId}
      /\ UNCHANGED <<phase, batch, calls, wanted, retry, connectToo, client, state, connect, channel,
                     timerId, gaveUp, watched, open, connection, restarting, tcp, queue>>
  BY DEF ReleaseConnector, Handles
<1>2. ~Has("startInLoop") /\ ~Has("stopInLoop") /\ ~Has("resetChannel")
  BY <1>1, RawByName DEF QueueInv
<1>3. ~connect /\ ~wanted /\ channel = None /\ timers' = {} /\ calls # 0
  <2>1. ~connect /\ ~wanted /\ calls # 0 /\ timers' = {}
    BY <1>1 DEF EndInv, StopInv, StartInv, TimersInv
  <2>2. QED
    BY <1>2, <2>1 DEF StopInv, SocketsInv
<1>4. ready' \in SUBSET Sources /\ ready' \subseteq ready
  BY <1>1 DEF TypeInv
<1>5. TypeInv' /\ QueueInv' /\ TimersInv' /\ RoundInv' /\ TriesInv'
  BY <1>1, <1>3, <1>4 DEF TypeInv, QueueInv, TimersInv, RoundInv, TriesInv
<1>6. SocketsInv'
  BY <1>1 DEF SocketsInv, ChannelKnown, SocketsOwned, OneConnection, Connections, Has
<1>7. StartInv' /\ StopInv' /\ EndInv'
  BY <1>1, <1>2, <1>3 DEF StartInv, StopInv, EndInv, Connections, Has
<1>8. QED
  BY <1>5, <1>6, <1>7
-----------------------------------------------------------------------------
(* The calls.                                                              *)

(* connect() is called once, first of all.                                 *)
LEMMA CallConnectKeeps ==
  ASSUME ClientAssumption, Careful, ClientInv, NEW onLoop \in BOOLEAN, CallConnect(onLoop)
  PROVE  ClientInv'
<1> USE DEF ClientInv
<1>1. /\ calls = 0 /\ calls' = calls + 1 /\ calls < MaxCalls
      /\ wanted' = TRUE /\ connectToo' = TRUE /\ connect' = TRUE
      /\ UNCHANGED <<connector, client, retry, connection, restarting, tcp, phase, batch, ready>>
  BY DEF CallConnect, Calls, Careful, loopVars
<1>2. /\ queue = <<>> /\ state = "kDisconnected" /\ timers = {} /\ ready = {} /\ client
      /\ connection = None /\ restarting' = FALSE /\ \A f \in Functors : ~Has(f)
  <2>1. queue = <<>> => \A f \in Functors : ~Has(f)
    BY DEF Has, HasIn
  <2>2. QED
    BY <1>1, <2>1 DEF StartInv, TypeInv
<1>3. calls' \in 1..MaxCalls
  BY <1>1 DEF ClientAssumption
<1>4. connector /\ channel = None /\ Connections = {}
  BY <1>2 DEF EndInv, SocketsInv, OneConnection, Functors, RawFunctors
<1>5. ready' \in SUBSET Sources /\ ready' = {} /\ \E source \in Sources : ready' \subseteq {source}
  BY <1>1, <1>2 DEF Sources
<1>6. CASE onLoop
  <2>1. Connect("kDisconnected", {}) /\ UNCHANGED queue
    BY <1>1, <1>2, <1>6 DEF CallConnect, StartInLoop, StartTest
  <2>2. QueueInv' /\ \A f \in RawFunctors \cup {"cancel", "forceCloseInLoop"} : ~Has(f)'
    BY <1>1, <1>2, <2>1 DEF QueueInv, Has, Functors
  <2>3. connectToo' \in BOOLEAN /\ ~Has("resetChannel") /\ Destroys(queue') \subseteq Destroys(queue)
        /\ UNCHANGED <<connector, client, retry, connection, tcp, phase>>
    BY <1>1, <1>2, <2>1 DEF Functors, RawFunctors
  <2>4. QED
    BY <1>1, <1>2, <1>3, <1>5, <2>1, <2>2, <2>3, ConnectKeeps
<1>7. CASE ~onLoop
  <2> DEFINE item == <<"startInLoop", None>>
  <2>1. /\ queue' = Append(queue, item)
        /\ UNCHANGED <<state, channel, timers, timerId, gaveUp, watched, open>>
    BY <1>7 DEF CallConnect
  <2>2. item \in Items /\ item[1] = "startInLoop"
    BY DEF Items, RawFunctors
  <2>3. /\ QueueInv' /\ Destroys(queue') = Destroys(queue)
        /\ \A f \in Functors : Has(f)' <=> f = "startInLoop"
    <3> HIDE DEF item
    <3>1. /\ QueueInv' /\ Destroys(queue') = Destroys(queue)
          /\ \A f \in Functors : HasIn(queue', f) <=> HasIn(queue, f) \/ f = item[1]
      BY <1>1, <1>2, <2>1, <2>2, QueueLonger
    <3>2. QED
      BY <1>2, <2>2, <3>1 DEF Has
  <2>4. /\ Has("startInLoop")' /\ ~Has("stopInLoop")' /\ ~Has("resetChannel")'
        /\ ~Has("cancel")' /\ ~Has("forceCloseInLoop")' /\ ~Has("resetChannel")
    BY <1>2, <2>3 DEF Functors, RawFunctors
  <2>5. TypeInv' /\ TimersInv' /\ RoundInv'
    BY <1>1, <1>2, <1>3, <1>5, <2>1, <2>4 DEF TypeInv, TimersInv, RoundInv, ClientAssumption
  <2>6. SocketsInv'
    BY <1>1, <1>2, <2>1, <2>3, <2>4 DEF SocketsInv, ChannelKnown, SocketsOwned, OneConnection, Connections
  <2>7. StartInv' /\ StopInv' /\ EndInv' /\ TriesInv'
    BY <1>1, <1>2, <1>3, <1>4, <2>1, <2>4 DEF StartInv, StopInv, EndInv, TriesInv
  <2>8. QED
    BY <2>3, <2>5, <2>6, <2>7
<1>8. QED
  BY <1>6, <1>7

(* What Connector::stop leaves, on the loop and on another thread.         *)
LEMMA StopConnectorDoes ==
  ASSUME QueueInv, timerId \in Ids \cup {None}, NEW onLoop \in BOOLEAN, StopConnector(onLoop),
         batch' = batch
  PROVE  /\ QueueInv' /\ Destroys(queue') = Destroys(queue) /\ timers' \subseteq timers
         /\ onLoop => timers' = timers \ {timerId}
         /\ connect' = FALSE
         /\ Has("stopInLoop")'
         /\ \A f \in Functors \ {"stopInLoop", "cancel"} : Has(f)' <=> Has(f)
<1> DEFINE stop   == <<"stopInLoop", None>>
           cancel == <<"cancel", timerId>>
           q      == Append(queue, stop)
           r      == Append(q, cancel)
<1>1. stop \in Items /\ stop[1] = "stopInLoop" /\ cancel \in Items /\ cancel[1] = "cancel"
  BY DEF Items, RawFunctors
<1>2. queue \in Seq(Items) /\ OnceIn(queue) /\ batch \in 0..Len(queue) /\ Len(queue) \in Nat
  BY LenProperties DEF QueueInv
<1>3. /\ q \in Seq(Items) /\ OnceIn(q) /\ Len(q) = Len(queue) + 1 /\ Destroys(q) = Destroys(queue)
      /\ \A f \in Functors : HasIn(q, f) <=> HasIn(queue, f) \/ f = "stopInLoop"
  <2> HIDE DEF stop
  <2>1. QED
    BY <1>1, <1>2, AppendOnce, AfterAppend
<1>4. /\ r \in Seq(Items) /\ OnceIn(r) /\ Len(r) = Len(q) + 1 /\ Destroys(r) = Destroys(q)
      /\ \A f \in Functors : HasIn(r, f) <=> HasIn(q, f) \/ f = "cancel"
  <2> HIDE DEF cancel, q
  <2>1. QED
    BY <1>1, <1>3, AppendOnce, AfterAppend, ZenonT(60)
<1>5. queue' = IF onLoop THEN q ELSE r
  <2>1. connect' = FALSE /\ queue' = q \o (IF onLoop THEN <<>> ELSE <<cancel>>)
    BY DEF StopConnector
  <2>2. q \o <<>> = q
    <3> HIDE DEF q
    <3>1. QED
      BY <1>3, ConcatEmptySeq
  <2>3. q \o <<cancel>> = r
    <3> HIDE DEF q, cancel
    <3>1. QED
      BY <1>1, <1>3, AppendIsConcat
  <2>4. QED
    BY <2>1, <2>2, <2>3
<1>6. queue' \in Seq(Items) /\ OnceIn(queue') /\ batch' \in 0..Len(queue')
      /\ Destroys(queue') = Destroys(queue) /\ HasIn(queue', "stopInLoop")
      /\ \A f \in Functors \ {"stopInLoop", "cancel"} : HasIn(queue', f) <=> HasIn(queue, f)
  <2> HIDE DEF q, r
  <2>1. "stopInLoop" \in Functors
    BY DEF Functors, RawFunctors
  <2>2. QED
    BY <1>2, <1>3, <1>4, <1>5, <2>1
<1>7. QED
  BY <1>6 DEF StopConnector, QueueInv, Has

(* stop(), which no thread calls while the client is about to restart.     *)
LEMMA StopKeeps ==
  ASSUME ClientAssumption, Careful, ClientInv, NEW onLoop \in BOOLEAN, Stop(onLoop)
  PROVE  ClientInv'
<1> USE DEF ClientInv
<1>1. /\ client /\ calls' = calls + 1 /\ calls < MaxCalls /\ ~restarting
      /\ wanted' = FALSE /\ connectToo' = FALSE /\ connect' = FALSE /\ StopConnector(onLoop)
      /\ UNCHANGED <<state, channel, timerId, gaveUp, watched, connector, open,
                     client, retry, connection, restarting, tcp, phase, batch, ready>>
  BY DEF Stop, Calls, StopsRestart, StopConnector, Careful, loopVars
<1>2. /\ QueueInv' /\ Destroys(queue') = Destroys(queue) /\ timers' \subseteq timers
      /\ Has("stopInLoop")'
      /\ Has("startInLoop")' <=> Has("startInLoop")
      /\ Has("resetChannel")' <=> Has("resetChannel")
      /\ Has("forceCloseInLoop")' <=> Has("forceCloseInLoop")
  BY <1>1, StopConnectorDoes DEF TypeInv, Functors, RawFunctors
<1>3. calls' \in 1..MaxCalls /\ calls' \in 0..MaxCalls
  BY <1>1 DEF TypeInv, ClientAssumption
<1>4. TypeInv' /\ TimersInv' /\ RoundInv' /\ TriesInv'
  BY <1>1, <1>2, <1>3 DEF TypeInv, TimersInv, RoundInv, TriesInv
<1>5. SocketsInv'
  BY <1>1, <1>2 DEF SocketsInv, ChannelKnown, SocketsOwned, OneConnection, Connections
<1>6. StartInv' /\ StopInv' /\ EndInv'
  BY <1>1, <1>2, <1>3 DEF StartInv, StopInv, EndInv, Connections
<1>7. QED
  BY <1>2, <1>4, <1>5, <1>6

(* disconnect(): the connection is shut down, and there is to be no other. *)
LEMMA DisconnectKeeps ==
  ASSUME ClientAssumption, ClientInv, Disconnect
  PROVE  ClientInv'
<1> USE DEF ClientInv
<1>1. /\ client /\ calls' = calls + 1 /\ calls < MaxCalls /\ ~restarting /\ connectToo' = FALSE
      /\ UNCHANGED <<state, connect, channel, timers, timerId, gaveUp, watched, connector, open,
                     client, retry, connection, restarting, phase, batch, ready, queue>>
  BY DEF Disconnect, Calls, connectorVars, loopVars
<1>2. /\ \/ wanted' = FALSE /\ connection # None /\ state = "kConnected"
         \/ UNCHANGED wanted
      /\ tcp' \in [Ids -> {"none", "kConnected", "kDisconnecting", "kDisconnected"}]
      /\ \A s \in Ids : /\ tcp'[s] # "none" <=> tcp[s] # "none"
                        /\ tcp'[s] = "kDisconnected" <=> tcp[s] = "kDisconnected"
                        /\ tcp'[s] \in {"kConnected", "kDisconnecting"}
                             <=> tcp[s] \in {"kConnected", "kDisconnecting"}
  BY DEF Disconnect, TypeInv, SocketsInv
<1>3. calls' \in 1..MaxCalls /\ calls' \in 0..MaxCalls
  BY <1>1 DEF TypeInv, ClientAssumption
<1>4. Connections' = Connections
  BY <1>2 DEF Connections
<1>5. TypeInv'
  BY <1>1, <1>2, <1>3, ZenonT(60) DEF TypeInv
<1>6. QueueInv' /\ TimersInv' /\ RoundInv' /\ TriesInv'
  BY <1>1, <1>2 DEF QueueInv, TimersInv, RoundInv, TriesInv, Has
<1>7. SocketsInv'
  <2>1. ChannelKnown' /\ SocketsOwned' /\ OneConnection'
    BY <1>1, <1>2, <1>4 DEF SocketsInv, ChannelKnown, SocketsOwned, OneConnection
  <2>2. \A d \in Destroys(queue') : tcp'[d] = "kDisconnected"
    BY <1>1, <1>2, DestroysKnown DEF SocketsInv, QueueInv
  <2>3. state' = "kConnecting" => tcp'[channel'] = "none"
    BY <1>1, <1>2 DEF SocketsInv, TypeInv, None, ClientAssumption
  <2>4. QED
    BY <1>1, <2>1, <2>2, <2>3 DEF SocketsInv, Has
<1>8. StartInv' /\ StopInv' /\ EndInv'
  BY <1>1, <1>2, <1>3, <1>4 DEF StartInv, StopInv, EndInv, Has
<1>9. QED
  BY <1>5, <1>6, <1>7, <1>8

(* ~TcpClient: with a connection, the Connector goes at once and has       *)
(* nothing left to do; without, it is stopped and kept for a while.        *)
LEMMA DestroyKeeps ==
  ASSUME ClientAssumption, Careful, ClientInv, Destroy
  PROVE  ClientInv'
<1> USE DEF ClientInv
<1>1. /\ client /\ calls > 0 /\ ~restarting /\ (connection # None => ~RawPending)
      /\ client' = FALSE /\ wanted' = FALSE /\ connection' = None
      /\ UNCHANGED <<state, channel, timerId, gaveUp, watched, open, retry, connectToo,
                     restarting, phase, batch, ready, calls>>
  BY DEF Destroy, Careful, loopVars
<1>2. CASE connection = None
  <2>1. UNCHANGED connector /\ connect' = FALSE /\ StopConnector(TRUE) /\ UNCHANGED tcp
    BY <1>2 DEF Destroy, WithoutConnection, StopConnector
  <2>2. /\ QueueInv' /\ Destroys(queue') = Destroys(queue) /\ timers' \subseteq timers
        /\ Has("stopInLoop")'
        /\ Has("startInLoop")' <=> Has("startInLoop")
        /\ Has("resetChannel")' <=> Has("resetChannel")
        /\ Has("forceCloseInLoop")' <=> Has("forceCloseInLoop")
    BY <1>1, <2>1, StopConnectorDoes DEF TypeInv, Functors, RawFunctors
  <2>3. connector' = TRUE /\ Connections' = {}
    BY <1>1, <1>2, <2>1 DEF TypeInv, EndInv, SocketsInv, OneConnection, Connections
  <2>4. TypeInv' /\ TimersInv' /\ RoundInv' /\ TriesInv'
    BY <1>1, <2>1, <2>2 DEF TypeInv, TimersInv, RoundInv, TriesInv
  <2>5. SocketsInv'
    BY <1>1, <2>1, <2>2 DEF SocketsInv, ChannelKnown, SocketsOwned, OneConnection
  <2>6. StartInv' /\ StopInv' /\ EndInv'
    BY <1>1, <2>1, <2>2, <2>3 DEF StartInv, StopInv, EndInv, TypeInv
  <2>7. QED
    BY <2>2, <2>4, <2>5, <2>6
<1>3. CASE connection # None
  <2>1. ~Has("startInLoop") /\ ~Has("stopInLoop") /\ ~Has("resetChannel")
    BY <1>1, <1>3, RawByName DEF QueueInv
  <2>2. /\ connection \in Ids /\ state = "kConnected" /\ channel = None /\ timers = {}
        /\ tcp[connection] \in {"kConnected", "kDisconnecting"}
    BY <1>1, <1>3, <2>1 DEF TypeInv, SocketsInv, OneConnection, Connections, TimersInv
  <2>3. connector' = FALSE /\ timers' = {} /\ UNCHANGED connect
    BY <1>3, <2>2 DEF Destroy
  <2>4. /\ tcp' \in [Ids -> {"none", "kConnected", "kDisconnecting", "kDisconnected"}]
        /\ \A s \in Ids : /\ tcp'[s] # "none" <=> tcp[s] # "none"
                          /\ tcp[s] = "kDisconnected" => tcp'[s] = "kDisconnected"
    BY <1>3, <2>2 DEF Destroy, TypeInv
  <2>5. /\ QueueInv' /\ Destroys(queue') = Destroys(queue)
        /\ \A f \in Functors \ {"forceCloseInLoop"} : Has(f)' <=> Has(f)
        /\ ResetWithin(queue, batch) => ResetWithin(queue', batch')
    <3>1. CASE UNCHANGED queue
      BY <1>1, <3>1 DEF QueueInv, Has
    <3>2. CASE queue' = Append(queue, <<"forceCloseInLoop", connection>>)
      <4> DEFINE item == <<"forceCloseInLoop", connection>>
      <4>1. item \in Items /\ item[1] = "forceCloseInLoop" /\ queue' = Append(queue, item)
        BY <2>2, <3>2 DEF Items
      <4> HIDE DEF item
      <4>2. /\ QueueInv' /\ Destroys(queue') = Destroys(queue)
            /\ \A f \in Functors : HasIn(queue', f) <=> HasIn(queue, f) \/ f = item[1]
            /\ ResetWithin(queue, batch) => ResetWithin(queue', batch')
        BY <1>1, <4>1, QueueLonger
      <4>3. QED
        BY <4>1, <4>2 DEF Has
    <3>3. QED
      BY <1>3, <3>1, <3>2 DEF Destroy
  <2>6. /\ ~Has("startInLoop")' /\ ~Has("stopInLoop")' /\ ~Has("resetChannel")'
        /\ Has("cancel")' <=> Has("cancel")
    BY <2>1, <2>5 DEF Functors, RawFunctors
  <2>7. TypeInv' /\ TimersInv' /\ RoundInv' /\ TriesInv'
    BY <1>1, <2>2, <2>3, <2>4, <2>6 DEF TypeInv, TimersInv, RoundInv, TriesInv
  <2>8. SocketsInv'
    <3>1. ChannelKnown' /\ SocketsOwned' /\ OneConnection'
      BY <1>1, <2>2, <2>4 DEF SocketsInv, ChannelKnown, SocketsOwned, OneConnection
    <3>2. \A d \in Destroys(queue') : tcp'[d] = "kDisconnected"
      BY <2>4, <2>5, DestroysKnown DEF SocketsInv, QueueInv
    <3>3. QED
      BY <1>1, <2>1, <2>2, <2>6, <3>1, <3>2 DEF SocketsInv
  <2>9. StartInv' /\ StopInv' /\ EndInv'
    BY <1>1, <2>1, <2>2, <2>3, <2>6 DEF StartInv, StopInv, EndInv
  <2>10. QED
    BY <2>5, <2>7, <2>8, <2>9
<1>4. QED
  BY <1>2, <1>3
-----------------------------------------------------------------------------
(* The invariant and the theorems.                                         *)

(* A client that nobody has called yet.                                    *)
LEMMA ClientBegins ==
  ASSUME ClientAssumption, Init
  PROVE  ClientInv
<1> USE DEF Init
<1>1. Destroys(queue) = {} /\ \A f : ~Has(f)
  BY DEF Destroys, Has, HasIn
<1>2. queue \in Seq(Items) /\ OnceIn(queue) /\ batch \in 0..Len(queue)
  BY DEF OnceIn
<1>3. Connections = {} /\ \A s \in Ids : tcp[s] = "none"
  BY DEF Connections
<1>4. TypeInv /\ QueueInv /\ TimersInv
  <2>1. 0 \in 0..MaxCalls
    BY DEF ClientAssumption
  <2>2. QED
    BY <1>2, <2>1 DEF TypeInv, QueueInv, TimersInv
<1>5. SocketsInv
  BY <1>1, <1>3 DEF SocketsInv, ChannelKnown, SocketsOwned, OneConnection
<1>6. RoundInv /\ StartInv /\ StopInv /\ EndInv /\ TriesInv
  BY <1>1 DEF RoundInv, StartInv, StopInv, EndInv, TriesInv
<1>7. QED
  BY <1>4, <1>5, <1>6 DEF ClientInv

(* The invariant is kept by every step.                                    *)
LEMMA StepKeeps ==
  ASSUME ClientAssumption, Careful, ClientInv, [Next]_vars
  PROVE  ClientInv'
<1>1. CASE Next
  <2>1. ASSUME HandleEvent PROVE ClientInv'
    BY <2>1, HandleWriteOrErrorKeeps, PeerClosesKeeps, RetryTimerKeeps, ReleaseConnectorKeeps,
       NothingLeftKeeps, RestartKeeps DEF HandleEvent
  <2>2. ASSUME RunFunctor PROVE ClientInv'
    BY <2>2, RunStartInLoopKeeps, RunStopInLoopKeeps, RunResetChannelKeeps, RunCancelKeeps,
       RunConnectDestroyedKeeps, RunForceCloseKeeps DEF RunFunctor
  <2>3. ASSUME NEW onLoop \in BOOLEAN, CallConnect(onLoop) \/ Stop(onLoop) PROVE ClientInv'
    BY <2>3, CallConnectKeeps, StopKeeps
  <2>4. QED
    BY <1>1, <2>1, <2>2, <2>3, DisconnectKeeps, DestroyKeeps, PollKeeps, SwapFunctorsKeeps DEF Next
<1>2. CASE UNCHANGED vars
  <2>1. UNCHANGED <<state, connect, channel, timers, timerId, gaveUp, watched, connector, open, client,
                    retry, connectToo, connection, restarting, tcp, phase, batch, ready, queue, calls, wanted>>
    BY <1>2 DEF vars, connectorVars, clientVars, loopVars
  <2>2. TypeInv' /\ QueueInv' /\ TimersInv' /\ RoundInv'
    BY <2>1 DEF ClientInv, TypeInv, QueueInv, TimersInv, RoundInv, Has
  <2>3. SocketsInv'
    BY <2>1 DEF ClientInv, SocketsInv, ChannelKnown, SocketsOwned, OneConnection, Connections, Has
  <2>4. StartInv' /\ StopInv' /\ EndInv' /\ TriesInv'
    BY <2>1 DEF ClientInv, StartInv, StopInv, EndInv, TriesInv, Connections, Has
  <2>5. QED
    BY <2>2, <2>3, <2>4 DEF ClientInv
<1>3. QED
  BY <1>1, <1>2

(* With users that do what the library can bear, the invariant holds in    *)
(* every state.                                                            *)
THEOREM ClientInvariant ==
  ASSUME Careful
  PROVE  Spec => []ClientInv
<1>1. Init => ClientInv
  BY ClientAssumption, ClientBegins
<1>2. ClientInv /\ [Next]_vars => ClientInv'
  BY ClientAssumption, StepKeeps
<1>3. QED
  BY <1>1, <1>2, PTL DEF Spec

(* Sockets, channels, connections and the Connector agree: the poller has  *)
(* the Channel of the attempt under way and no other, each open socket     *)
(* belongs to that attempt or to a connection, connection_ is the one that *)
(* is up, and nothing is left of a Connector that is gone.                 *)
THEOREM ClientAgrees ==
  ASSUME Careful
  PROVE  Spec => []SocketsAgree
<1>1. ClientInv => SocketsAgree
  <2> SUFFICES ASSUME ClientInv PROVE SocketsAgree
    OBVIOUS
  <2> USE DEF ClientInv
  <2>1. queue \in Seq(Functors \X (Ids \cup {None}))
    <3>1. Items \subseteq Functors \X (Ids \cup {None})
      BY DEF Items, Functors, RawFunctors
    <3>2. QED
      BY <3>1, SeqMonotonic DEF QueueInv
  <2>2. TypeOK
    BY <2>1 DEF TypeInv, QueueInv, TypeOK
  <2>3. NothingOutlives
    BY RawByName DEF NothingOutlives, EndInv, QueueInv
  <2>4. QED
    BY <2>2, <2>3 DEF SocketsAgree, SocketsInv
<1>2. QED
  BY <1>1, ClientInvariant, PTL

(* A connection that is wanted is being made: after an attempt that failed *)
(* there is a timer for the next, unless the error is one that is not      *)
(* retried.                                                                *)
THEOREM ClientTries ==
  ASSUME Careful
  PROVE  Spec => []KeepsTrying
<1>1. ClientInv => KeepsTrying
  <2> SUFFICES ASSUME ClientInv PROVE KeepsTrying
    OBVIOUS
  <2>1. DOMAIN queue = 1..Len(queue)
    BY LenProperties DEF ClientInv, QueueInv
  <2>2. QED
    BY <2>1 DEF ClientInv, TriesInv, KeepsTrying, Has, HasIn
<1>2. QED
  BY <1>1, ClientInvariant, PTL

(* An attempt begins by connect(), the timer or restart(): when the one    *)
(* before is over, its Channel destroyed, and a connection is wanted.      *)
LEMMA AttemptBegins ==
  ASSUME ClientAssumption, Careful, ClientInv, Next,
         state' = "kConnecting", state # "kConnecting" \/ channel' # channel
  PROVE  channel = None /\ state # "kConnecting" /\ wanted'
<1> USE DEF ClientInv
<1>1. ASSUME NEW onLoop \in BOOLEAN, CallConnect(onLoop) PROVE channel = None /\ state # "kConnecting" /\ wanted'
  <2>1. calls = 0 /\ wanted'
    BY <1>1 DEF CallConnect, Calls, Careful
  <2>2. queue = <<>> => ~Has("resetChannel")
    BY DEF Has, HasIn
  <2>3. QED
    BY <2>1, <2>2 DEF StartInv, SocketsInv
<1>2. ASSUME RunStartInLoop PROVE channel = None /\ state # "kConnecting" /\ wanted'
  <2>1. batch > 0 /\ Head(queue)[1] = "startInLoop" /\ StartInLoop(timers) /\ UNCHANGED <<connect, wanted>>
    BY <1>2 DEF RunStartInLoop, Runs
  <2>2. Has("startInLoop")
    BY <2>1, QueueShorter DEF Has, Functors, RawFunctors
  <2>3. state = "kDisconnected" /\ ~Has("resetChannel")
    BY <2>2 DEF StartInv
  <2>4. connect
    BY <2>1, <2>3 DEF StartInLoop, StartTest
  <2>5. QED
    BY <2>1, <2>2, <2>3, <2>4 DEF StopInv, SocketsInv
<1>3. ASSUME RetryTimer PROVE channel = None /\ state # "kConnecting" /\ wanted'
  <2>1. PICK t \in timers : StartInLoop(timers \ {t})
    BY <1>3 DEF RetryTimer
  <2>2. phase = "events" /\ ready # {} /\ UNCHANGED <<connect, wanted>>
    BY <1>3 DEF RetryTimer, Handles
  <2>3. state = "kDisconnected"
    BY <2>1 DEF TimersInv
  <2>4. connect
    BY <2>1, <2>2, <2>3 DEF StartInLoop, StartTest
  <2>5. QED
    BY <2>2, <2>3, <2>4 DEF StopInv, SocketsInv, RoundInv
<1>4. ASSUME Restart PROVE channel = None /\ state # "kConnecting" /\ wanted'
  BY <1>4 DEF Restart, StartInv, SocketsInv
<1>5. ASSUME RunResetChannel PROVE FALSE
  <2>1. batch > 0 /\ Head(queue)[1] = "resetChannel" /\ UNCHANGED state
    BY <1>5 DEF RunResetChannel, Runs
  <2>2. Has("resetChannel")
    BY <2>1, QueueShorter DEF Has, Functors, RawFunctors
  <2>3. QED
    BY <2>1, <2>2 DEF SocketsInv
<1>6. ASSUME RunStopInLoop \/ HandleWriteOrError PROVE FALSE
  BY <1>6 DEF RunStopInLoop, HandleWriteOrError, Retry, Established, Failed
<1>7. ASSUME NEW onLoop \in BOOLEAN, Stop(onLoop) PROVE FALSE
  BY <1>7 DEF Stop
<1>8. ASSUME Disconnect \/ Destroy \/ Poll \/ SwapFunctors PROVE FALSE
  BY <1>8 DEF Disconnect, Destroy, Poll, SwapFunctors, connectorVars
<1>9. ASSUME PeerCloses \/ ReleaseConnector \/ NothingLeft PROVE FALSE
  BY <1>9 DEF PeerCloses, ReleaseConnector, NothingLeft, connectorVars
<1>10. ASSUME RunCancel \/ RunConnectDestroyed \/ RunForceClose PROVE FALSE
  BY <1>10 DEF RunCancel, RunConnectDestroyed, RunForceClose
<1>11. QED
  BY <1>1, <1>2, <1>3, <1>4, <1>5, <1>6, <1>7, <1>8, <1>9, <1>10 DEF Next, HandleEvent, RunFunctor

(* Attempts are made one at a time: one begins when the one before is      *)
(* over and its Channel is destroyed.                                      *)
THEOREM AttemptsOneAtATime ==
  ASSUME Careful
  PROVE  Spec => OneAttempt
<1>1. ClientInv /\ [Next]_vars
        => [state' = "kConnecting" /\ channel' # channel => channel = None /\ state # "kConnecting"]_vars
  BY ClientAssumption, AttemptBegins
<1>2. QED
  BY <1>1, ClientInvariant, PTL DEF Spec, OneAttempt

(* After stop(), or disconnect() of a connection, or ~TcpClient, no        *)
(* attempt begins.                                                         *)
THEOREM AttemptsOnlyWanted ==
  ASSUME Careful
  PROVE  Spec => NoneUnwanted
<1>1. ClientInv /\ [Next]_vars
        => [~wanted /\ state # "kConnecting" => state' # "kConnecting" \/ wanted']_vars
  BY ClientAssumption, AttemptBegins
<1>2. QED
  BY <1>1, ClientInvariant, PTL DEF Spec, NoneUnwanted
============================================================================
