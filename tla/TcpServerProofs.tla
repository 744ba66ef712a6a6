--------------------------- MODULE TcpServerProofs ---------------------------
(***************************************************************************)
(* Theorems about TcpServer, for any threads, any number of calls and any  *)
(* ways of use: no functor that was queued in time runs on a connection    *)
(* that is gone, and, when the use is a safe one, a connection ends        *)
(* exactly once and is removed from the poller with nothing watched.  And  *)
(* about ServerStart, for any number of threads, peers and descriptors:    *)
(* the loops are there while they are handed out, and are handed out       *)
(* evenly.                                                                 *)
(***************************************************************************)
EXTENDS TcpServer, ServerStart, SequenceTheorems, FiniteSetTheorems, WellFoundedInduction, TLAPS

\* A server goes before its loops only when another loop serves the connection ...
ServesElsewhere(w) == w.destroys => ~w.sameLoop
\* ... and nothing but send is called on it.
SafeUse(w) ==
    w.destroys => ~w.sameLoop /\ w.userOps \subseteq {"send"} /\ w.callbackOps \subseteq {"send"}

\* What is in a queue of functors.
Has(queue, f) == \E i \in 1..Len(queue) : queue[i] = f
HasAny(queue, these) == \E i \in 1..Len(queue) : queue[i] \in these
DestroysOnce(queue) ==
    \A i, j \in 1..Len(queue) :
       queue[i] = "connectDestroyed" /\ queue[j] = "connectDestroyed" => i = j
First(queue, these) ==
    \A i, j \in 1..Len(queue) :
       queue[i] = "connectDestroyed" /\ queue[j] \in these => j < i
-----------------------------------------------------------------------------
(* The four ages of a connection.                                          *)

\* Not accepted yet: nothing knows of it.
Unborn ==
    /\ state = "none" /\ ~inMap /\ ioQueue = <<>> /\ baseQueue = <<>>
    /\ events = {} /\ index = "kNew" /\ revents = {} /\ notified = <<>>

\* In the map of the server, until the server goes; connectEstablished is queued.
Opening ==
    /\ state = "kConnecting" /\ ~use.sameLoop /\ (inMap <=> server) /\ baseQueue = <<>>
    /\ ioQueue = IF server THEN <<"connectEstablished">>
                 ELSE <<"connectEstablished", "connectDestroyed">>
    /\ events = {} /\ index = "kNew" /\ revents = {} /\ notified = <<>>

\* Established: in the epoll set for reading, and in the map or on its way to be destroyed.
Open ==
    /\ state \in {"kConnected", "kDisconnecting"} /\ (inMap <=> server) /\ baseQueue = <<>>
    /\ (Has(ioQueue, "connectDestroyed") <=> ~server)
    /\ state = "kDisconnecting" => ~use.destroys
    /\ "read" \in events /\ index = "kAdded" /\ notified = <<"up">>

\* Closed: first it leaves the map, then the poller.
InMapStill == /\ inMap /\ server /\ ~use.sameLoop /\ baseQueue = <<"removeConnectionInLoop">>
              /\ ~Has(ioQueue, "connectDestroyed") /\ index = "kDeleted"
OutOfMap == /\ ~inMap /\ (server => baseQueue = <<>>)
            /\ Has(ioQueue, "connectDestroyed") /\ index = "kDeleted"
OutOfPoller == /\ ~inMap /\ (server => baseQueue = <<>>)
               /\ ~Has(ioQueue, "connectDestroyed") /\ index = "kNew"
Closed ==
    /\ state = "kDisconnected" /\ events = {} /\ notified = <<"up", "down">>
    /\ "read" \notin revents
    /\ InMapStill \/ OutOfMap \/ OutOfPoller

\* Users have it only when they have been told of it, and what they call is what use says.
UsersInv ==
    /\ state \in {"none", "kConnecting"} => holders = {} /\ \A u \in Users : calling[u] = NoCall
    /\ \A u \in Users : /\ calling[u].next # "test" => calling[u].op \in use.userOps
                        /\ calling[u].next = "set" => calling[u].op # "send"

Life ==
    /\ server \/ use.destroys
    /\ revents # {} => phase = "events"
    /\ DestroysOnce(ioQueue)
    /\ Has(ioQueue, "connectEstablished") => state = "kConnecting"
    /\ UsersInv
    /\ Unborn \/ Opening \/ Open \/ Closed

\* These functors are ahead of connectDestroyed, and it is queued when the map has let go.
Ordered(queue, mapped, these) ==
    /\ mapped => ~Has(queue, "connectDestroyed")
    /\ First(queue, these)
    /\ HasAny(queue, these) => mapped \/ Has(queue, "connectDestroyed")

\* So are those bound to a bare this that were queued in time, and before there is a connection
\* there are none.
InTime == RawFunctors \ overtaken
RawInv ==
    /\ state = "none" => /\ ~inMap /\ ioQueue = <<>> /\ baseQueue = <<>> /\ holders = {}
                         /\ \A u \in Users : calling[u] = NoCall
    /\ Ordered(ioQueue, inMap, InTime)

TcpInv == /\ TypeOK
          /\ ServesElsewhere(use) => RawInv
          /\ SafeUse(use) /\ ~reopened => Life
-----------------------------------------------------------------------------
(* Queues.                                                                 *)

(* A second after a first.                                                 *)
LEMMA FirstAndSecond ==
  ASSUME NEW a, NEW b
  PROVE  Append(<<a>>, b) = <<a, b>>
<1> DEFINE S == {a, b}
<1>1. PICK first \in Seq(S) : first = <<a>> /\ Len(first) = 1 /\ first[1] = a
  <2>1. <<a>> \in Seq(S) /\ Len(<<a>>) = 1 /\ <<a>>[1] = a
    OBVIOUS
  <2>2. QED
    BY <2>1, Zenon
<1>2. PICK both \in Seq(S) : both = <<a, b>> /\ Len(both) = 2 /\ both[1] = a /\ both[2] = b
  <2>1. <<a, b>> \in Seq(S) /\ Len(<<a, b>>) = 2 /\ <<a, b>>[1] = a /\ <<a, b>>[2] = b
    OBVIOUS
  <2>2. QED
    BY <2>1, Zenon
<1>3. b \in S
  OBVIOUS
<1> HIDE DEF S
<1>4. /\ Append(first, b) \in Seq(S) /\ Len(Append(first, b)) = Len(first) + 1
      /\ \A i \in 1..Len(first) : Append(first, b)[i] = first[i]
      /\ Append(first, b)[Len(first) + 1] = b
  BY <1>3, AppendProperties
<1>5. PICK longer \in Seq(S) :
           /\ longer = Append(first, b) /\ Len(longer) = Len(first) + 1
           /\ \A i \in 1..Len(first) : longer[i] = first[i]
           /\ longer[Len(first) + 1] = b
  BY <1>4
<1>6. 1 \in 1..Len(first) /\ Len(first) + 1 = 2
  BY <1>1
<1>7. Len(longer) = 2 /\ longer[1] = a /\ longer[2] = b
  BY <1>1, <1>5, <1>6
<1>8. \A i \in 1..Len(longer) : longer[i] = both[i]
  <2>1. \A i \in 1..2 : i = 1 \/ i = 2
    OBVIOUS
  <2>2. QED
    BY <1>2, <1>7, <2>1
<1>9. longer = both
  BY <1>2, <1>7, <1>8, SeqEqual
<1>10. QED
  BY <1>1, <1>2, <1>5, <1>9

(* A functor is put at the end.                                            *)
LEMMA AtTheEnd ==
  ASSUME NEW q \in Seq(Functors), NEW g \in Functors, NEW longer, longer = Append(q, g)
  PROVE  /\ longer \in Seq(Functors) /\ Len(longer) = Len(q) + 1 /\ Len(q) \in Nat
         /\ \A f : Has(longer, f) <=> Has(q, f) \/ f = g
         /\ \A these : HasAny(longer, these) <=> HasAny(q, these) \/ g \in these
         /\ DestroysOnce(q) /\ (g = "connectDestroyed" => ~Has(q, g)) => DestroysOnce(longer)
         /\ \A these : First(q, these) /\ "connectDestroyed" \notin these
                        /\ (g \in these => ~Has(q, "connectDestroyed")) => First(longer, these)
<1>1. /\ longer \in Seq(Functors) /\ Len(longer) = Len(q) + 1 /\ Len(q) \in Nat
      /\ (\A i \in 1..Len(q) : longer[i] = q[i]) /\ longer[Len(q) + 1] = g
  BY AppendProperties, LenProperties
<1>2. \A i \in 1..Len(longer) : i \in 1..Len(q) \/ i = Len(q) + 1
  BY <1>1
<1>3. /\ 1..Len(q) \subseteq 1..Len(longer) /\ Len(q) + 1 \in 1..Len(longer)
      /\ \A i \in 1..Len(q) : i < Len(q) + 1
  BY <1>1
<1>4. \A f : Has(longer, f) <=> Has(q, f) \/ f = g
  <2>1. ASSUME NEW f, Has(longer, f)
        PROVE  Has(q, f) \/ f = g
    <3>1. PICK i \in 1..Len(longer) : longer[i] = f
      BY <2>1 DEF Has
    <3>2. QED
      BY <1>1, <1>2, <3>1 DEF Has
  <2>2. ASSUME NEW f, Has(q, f)
        PROVE  Has(longer, f)
    <3>1. PICK i \in 1..Len(q) : q[i] = f
      BY <2>2 DEF Has
    <3>2. QED
      BY <1>1, <1>3, <3>1 DEF Has
  <2>3. Has(longer, g)
    BY <1>1, <1>3 DEF Has
  <2>4. QED
    BY <2>1, <2>2, <2>3
<1>5. ASSUME NEW these
      PROVE  HasAny(longer, these) <=> HasAny(q, these) \/ g \in these
  <2>1. ASSUME HasAny(longer, these)
        PROVE  HasAny(q, these) \/ g \in these
    <3>1. PICK i \in 1..Len(longer) : longer[i] \in these
      BY <2>1 DEF HasAny
    <3>2. QED
      BY <1>1, <1>2, <3>1 DEF HasAny
  <2>2. ASSUME HasAny(q, these)
        PROVE  HasAny(longer, these)
    <3>1. PICK i \in 1..Len(q) : q[i] \in these
      BY <2>2 DEF HasAny
    <3>2. QED
      BY <1>1, <1>3, <3>1 DEF HasAny
  <2>3. g \in these => HasAny(longer, these)
    BY <1>1, <1>3 DEF HasAny
  <2>4. QED
    BY <2>1, <2>2, <2>3
<1>6. DestroysOnce(q) /\ (g = "connectDestroyed" => ~Has(q, g)) => DestroysOnce(longer)
  <2>1. SUFFICES ASSUME DestroysOnce(q), g = "connectDestroyed" => ~Has(q, g),
                        NEW i \in 1..Len(longer), NEW j \in 1..Len(longer),
                        longer[i] = "connectDestroyed", longer[j] = "connectDestroyed"
                 PROVE  i = j
    BY DEF DestroysOnce
  <2>2. QED
    BY <1>1, <1>2, <2>1 DEF DestroysOnce, Has
<1>7. ASSUME NEW these, First(q, these), "connectDestroyed" \notin these,
             g \in these => ~Has(q, "connectDestroyed")
      PROVE  First(longer, these)
  <2>1. SUFFICES ASSUME NEW i \in 1..Len(longer), NEW j \in 1..Len(longer),
                        longer[i] = "connectDestroyed", longer[j] \in these
                 PROVE  j < i
    BY DEF First
  <2>3. CASE i \in 1..Len(q) /\ j \in 1..Len(q)
    BY <1>1, <1>7, <2>1, <2>3 DEF First
  <2>4. CASE i = Len(q) + 1 /\ j \in 1..Len(q)
    BY <1>3, <2>4
  <2>5. CASE i \in 1..Len(q) /\ j = Len(q) + 1
    BY <1>1, <1>7, <2>1, <2>5 DEF Has
  <2>6. CASE i = Len(q) + 1 /\ j = Len(q) + 1
    BY <1>1, <1>7, <2>1, <2>6
  <2>7. QED
    BY <1>2, <2>3, <2>4, <2>5, <2>6
<1>8. QED
  BY <1>1, <1>4, <1>5, <1>6, <1>7

(* The loop takes the first.                                               *)
LEMMA FromTheFront ==
  ASSUME NEW q \in Seq(Functors), q # <<>>, NEW rest, rest = Tail(q)
  PROVE  /\ Head(q) \in Functors /\ rest \in Seq(Functors)
         /\ Len(q) \in Nat /\ Len(q) >= 1 /\ Len(rest) = Len(q) - 1
         /\ \A f : Has(q, f) <=> Head(q) = f \/ Has(rest, f)
         /\ \A these : HasAny(q, these) <=> Head(q) \in these \/ HasAny(rest, these)
         /\ DestroysOnce(q) => /\ DestroysOnce(rest)
                               /\ Head(q) = "connectDestroyed" => ~Has(rest, "connectDestroyed")
         /\ \A these : First(q, these) => /\ First(rest, these)
                                          /\ Head(q) = "connectDestroyed" => ~HasAny(rest, these)
<1> DEFINE first == Head(q)
<1>1. /\ first \in Functors /\ first = q[1] /\ rest \in Seq(Functors)
      /\ Len(q) \in Nat /\ Len(q) >= 1 /\ Len(rest) = Len(q) - 1
      /\ \A i \in 1..Len(rest) : rest[i] = q[i + 1]
  BY HeadTailProperties, EmptySeq, LenProperties, ElementOfSeq
<1> HIDE DEF first
<1>2. \A i \in 1..Len(rest) : i + 1 \in 1..Len(q) /\ 1 < i + 1 /\ i \in Int
  BY <1>1
<1>3. 1 \in 1..Len(q) /\ \A i \in 1..Len(q) : i = 1 \/ i - 1 \in 1..Len(rest)
  BY <1>1
<1>4. \A i \in 1..Len(q) : i = 1 \/ (i - 1 \in 1..Len(rest) /\ rest[i - 1] = q[i])
  <2>1. \A i \in 1..Len(q) : (i - 1) + 1 = i
    BY <1>1
  <2>2. QED
    BY <1>1, <1>3, <2>1
<1>5. \A f : Has(q, f) <=> first = f \/ Has(rest, f)
  <2>1. ASSUME NEW f, Has(q, f)
        PROVE  first = f \/ Has(rest, f)
    <3>1. PICK i \in 1..Len(q) : q[i] = f
      BY <2>1 DEF Has
    <3>2. QED
      BY <1>1, <1>4, <3>1 DEF Has
  <2>2. ASSUME NEW f, Has(rest, f)
        PROVE  Has(q, f)
    <3>1. PICK i \in 1..Len(rest) : rest[i] = f
      BY <2>2 DEF Has
    <3>2. QED
      BY <1>1, <1>2, <3>1 DEF Has
  <2>3. Has(q, first)
    BY <1>1, <1>3 DEF Has
  <2>4. QED
    BY <2>1, <2>2, <2>3
<1>6. ASSUME NEW these
      PROVE  HasAny(q, these) <=> first \in these \/ HasAny(rest, these)
  <2>1. ASSUME HasAny(q, these)
        PROVE  first \in these \/ HasAny(rest, these)
    <3>1. PICK i \in 1..Len(q) : q[i] \in these
      BY <2>1 DEF HasAny
    <3>2. QED
      BY <1>1, <1>4, <3>1 DEF HasAny
  <2>2. ASSUME HasAny(rest, these)
        PROVE  HasAny(q, these)
    <3>1. PICK i \in 1..Len(rest) : rest[i] \in these
      BY <2>2 DEF HasAny
    <3>2. QED
      BY <1>1, <1>2, <3>1 DEF HasAny
  <2>3. first \in these => HasAny(q, these)
    BY <1>1, <1>3 DEF HasAny
  <2>4. QED
    BY <2>1, <2>2, <2>3
<1>7. ASSUME DestroysOnce(q)
      PROVE  /\ DestroysOnce(rest)
             /\ first = "connectDestroyed" => ~Has(rest, "connectDestroyed")
  <2>1. ASSUME NEW i \in 1..Len(rest), NEW j \in 1..Len(rest),
               rest[i] = "connectDestroyed", rest[j] = "connectDestroyed"
        PROVE  i = j
    <3>1. i + 1 = j + 1
      BY <1>1, <1>2, <1>7, <2>1 DEF DestroysOnce
    <3>2. QED
      BY <1>2, <3>1
  <2>2. ASSUME first = "connectDestroyed", Has(rest, "connectDestroyed")
        PROVE  FALSE
    <3>1. PICK i \in 1..Len(rest) : rest[i] = "connectDestroyed"
      BY <2>2 DEF Has
    <3>2. i + 1 = 1
      BY <1>1, <1>2, <1>3, <1>7, <2>2, <3>1 DEF DestroysOnce
    <3>3. QED
      BY <1>2, <3>2
  <2>3. QED
    BY <2>1, <2>2 DEF DestroysOnce
<1>8. ASSUME NEW these, First(q, these)
      PROVE  /\ First(rest, these)
             /\ first = "connectDestroyed" => ~HasAny(rest, these)
  <2>1. ASSUME NEW i \in 1..Len(rest), NEW j \in 1..Len(rest),
               rest[i] = "connectDestroyed", rest[j] \in these
        PROVE  j < i
    <3>1. j + 1 < i + 1
      BY <1>1, <1>2, <1>8, <2>1 DEF First
    <3>2. QED
      BY <1>2, <3>1
  <2>2. ASSUME first = "connectDestroyed", HasAny(rest, these)
        PROVE  FALSE
    <3>1. PICK i \in 1..Len(rest) : rest[i] \in these
      BY <2>2 DEF HasAny
    <3>2. i + 1 < 1
      BY <1>1, <1>2, <1>3, <1>8, <2>2, <3>1 DEF First
    <3>3. QED
      BY <1>2, <3>2
  <2>3. QED
    BY <2>1, <2>2 DEF First
<1>9. QED
  BY <1>1, <1>5, <1>6, <1>7, <1>8 DEF first
-----------------------------------------------------------------------------
(* Types.                                                                  *)

(* Closing, by whatever handler.                                           *)
LEMMA CloseTypes ==
  ASSUME TypeOK, NEW queue \in Seq(Functors), HandleClose(queue)
  PROVE  /\ state' \in States /\ events' \in SUBSET Interest
         /\ index' \in {"kNew", "kAdded", "kDeleted"} /\ inMap' \in BOOLEAN
         /\ baseQueue' \in Seq({"removeConnectionInLoop"}) /\ notified' \in Seq({"up", "down"})
         /\ ioQueue' \in Seq(Functors) /\ Len(queue) <= Len(ioQueue')
<1>1. state' = "kDisconnected" /\ events' = {} /\ index' \in {"kDeleted", "kAdded"}
      /\ notified' = Append(notified, "down") /\ CloseCallback(queue)
  BY DEF HandleClose, DisableAll, UpdateChannel
<1>2. notified' \in Seq({"up", "down"})
  <2>1. notified \in Seq({"up", "down"})
    BY DEF TypeOK
  <2>2. QED
    BY <1>1, <2>1, AppendProperties
<1>3. /\ inMap' \in BOOLEAN /\ baseQueue' \in Seq({"removeConnectionInLoop"})
      /\ ioQueue' = queue \/ ioQueue' = Append(queue, "connectDestroyed")
  <2>1. inMap \in BOOLEAN /\ baseQueue \in Seq({"removeConnectionInLoop"})
    BY DEF TypeOK
  <2>2. Append(baseQueue, "removeConnectionInLoop") \in Seq({"removeConnectionInLoop"})
    BY <2>1, AppendProperties
  <2>3. QED
    BY <1>1, <2>1, <2>2 DEF CloseCallback, QueueDestroy
<1>4. ioQueue' \in Seq(Functors) /\ Len(queue) <= Len(ioQueue')
  <2>1. "connectDestroyed" \in Functors
    BY DEF Functors
  <2>2. Len(queue) \in Nat
    BY LenProperties
  <2>3. CASE ioQueue' = queue
    BY <2>2, <2>3
  <2>4. CASE ioQueue' = Append(queue, "connectDestroyed")
    <3>1. ioQueue' \in Seq(Functors) /\ Len(ioQueue') = Len(queue) + 1
      BY <2>1, <2>4, AtTheEnd
    <3>2. QED
      BY <2>2, <3>1
  <2>5. QED
    BY <1>3, <2>3, <2>4
<1>5. QED
  BY <1>1, <1>2, <1>3, <1>4 DEF States

(* The last functor of a connection.                                       *)
LEMMA DestroyedTypes ==
  ASSUME TypeOK, NEW queue, ConnectDestroyed(queue)
  PROVE  /\ state' \in States /\ events' \in SUBSET Interest
         /\ index' \in {"kNew", "kAdded", "kDeleted"} /\ notified' \in Seq({"up", "down"})
         /\ ioQueue' = queue
<1>1. notified \in Seq({"up", "down"}) /\ Append(notified, "down") \in Seq({"up", "down"})
  <2>1. notified \in Seq({"up", "down"})
    BY DEF TypeOK
  <2>2. QED
    BY <2>1, AppendProperties
<1>2. QED
  BY <1>1 DEF ConnectDestroyed, RemoveChannel, TypeOK, States

(* Watching.                                                               *)
LEMMA SendTypes ==
  ASSUME TypeOK, SendInLoop
  PROVE  events' \in SUBSET Interest /\ index' \in {"kNew", "kAdded", "kDeleted"}
<1>1. events \cup {"write"} \in SUBSET Interest /\ events \in SUBSET Interest
      /\ index \in {"kNew", "kAdded", "kDeleted"}
  BY DEF TypeOK, Interest
<1>2. QED
  BY <1>1 DEF SendInLoop, UpdateChannel

(* What the queue and the batch are after a step that adds a functor, and  *)
(* after one that takes a functor.                                         *)
LEMMA QueueGrows ==
  ASSUME TypeOK, NEW f \in Functors, ioQueue' = Append(ioQueue, f), batch' = batch
  PROVE  ioQueue' \in Seq(Functors) /\ batch' \in 0..Len(ioQueue')
<1>1. ioQueue \in Seq(Functors) /\ batch \in 0..Len(ioQueue)
  BY DEF TypeOK
<1>2. ioQueue' \in Seq(Functors) /\ Len(ioQueue') = Len(ioQueue) + 1 /\ Len(ioQueue) \in Nat
  BY <1>1, AtTheEnd
<1>3. QED
  BY <1>1, <1>2

(* A functor that runs is the first of the queue.                          *)
LEMMA QueueShrinks ==
  ASSUME TypeOK, NEW f, Runs(f)
  PROVE  /\ ioQueue # <<>> /\ Head(ioQueue) = f /\ phase = "functors" /\ phase' = phase
         /\ Tail(ioQueue) \in Seq(Functors) /\ Len(Tail(ioQueue)) \in Nat
         /\ batch' \in 0..Len(Tail(ioQueue))
<1>1. ioQueue \in Seq(Functors) /\ batch \in 0..Len(ioQueue)
  BY DEF TypeOK
<1>2. batch > 0 /\ Head(ioQueue) = f /\ phase = "functors" /\ batch' = batch - 1 /\ phase' = phase
  BY DEF Runs, Due
<1>3. ioQueue # <<>>
  <2>1. SUFFICES ASSUME ioQueue = <<>>
                 PROVE  FALSE
    OBVIOUS
  <2>2. Len(ioQueue) = 0
    BY <1>1, <2>1, EmptySeq
  <2>3. QED
    BY <1>1, <1>2, <2>2
<1>4. Tail(ioQueue) \in Seq(Functors) /\ Len(Tail(ioQueue)) = Len(ioQueue) - 1
      /\ Len(ioQueue) \in Nat /\ Len(ioQueue) >= 1
  BY <1>1, <1>3, FromTheFront
<1>5. QED
  BY <1>1, <1>2, <1>3, <1>4

(* Callbacks of the event handlers.                                        *)
LEMMA MessageTypes ==
  ASSUME TypeOK, NEW op \in Ops, MessageCallback(op), batch' = batch
  PROVE  /\ state' \in States /\ events' \in SUBSET Interest
         /\ index' \in {"kNew", "kAdded", "kDeleted"}
         /\ ioQueue' \in Seq(Functors) /\ batch' \in 0..Len(ioQueue')
<1>1. /\ state \in States /\ events \in SUBSET Interest /\ index \in {"kNew", "kAdded", "kDeleted"}
      /\ ioQueue \in Seq(Functors) /\ batch \in 0..Len(ioQueue) /\ "kDisconnecting" \in States
  BY DEF TypeOK, States
<1>2. CASE op = "shutdown"
  BY <1>1, <1>2 DEF MessageCallback
<1>3. CASE op = "forceClose"
  <2>1. /\ state' \in {state, "kDisconnecting"} /\ events' = events /\ index' = index
        /\ ioQueue' = ioQueue \/ ioQueue' = Append(ioQueue, "forceCloseInLoop")
    BY <1>3 DEF MessageCallback
  <2>2. "forceCloseInLoop" \in Functors
    BY DEF Functors
  <2>3. ioQueue' \in Seq(Functors) /\ batch' \in 0..Len(ioQueue')
    <3>1. CASE ioQueue' = ioQueue
      BY <1>1, <3>1
    <3>2. CASE ioQueue' = Append(ioQueue, "forceCloseInLoop")
      BY <2>2, <3>2, QueueGrows
    <3>3. QED
      BY <2>1, <3>1, <3>2
  <2>4. QED
    BY <1>1, <2>1, <2>3
<1>4. CASE op = "send"
  <2>1. /\ state' = state /\ ioQueue' = ioQueue
        /\ SendInLoop \/ UNCHANGED <<events, index>>
    BY <1>4 DEF MessageCallback
  <2>2. QED
    BY <1>1, <2>1, SendTypes
<1>5. QED
  BY <1>2, <1>3, <1>4 DEF Ops

(* The server's loop keeps the types.                                      *)
LEMMA ServerTypes ==
  ASSUME TypeOK, NewConnection \/ RemoveConnectionInLoop \/ DestroyServer
  PROVE  TypeOK'
<1>1. ioQueue \in Seq(Functors) /\ batch \in 0..Len(ioQueue)
      /\ baseQueue \in Seq({"removeConnectionInLoop"})
  BY DEF TypeOK, userVars
<1>2. "connectEstablished" \in Functors /\ "connectDestroyed" \in Functors
  BY DEF Functors
<1>3. CASE NewConnection
  <2>1. /\ inMap' = TRUE
        /\ UNCHANGED <<use, revents, server, baseQueue, userVars, calls, phase, batch>>
    BY <1>3 DEF NewConnection, loopVars
  <2>2. CASE use.sameLoop
    <3>1. /\ state' = "kConnected" /\ events' = {"read"} /\ index' = "kAdded"
          /\ notified' = <<"up">> /\ holders' = Users /\ ioQueue' = ioQueue
      BY <1>3, <2>2 DEF NewConnection, UpdateChannel
    <3>2. <<"up">> \in Seq({"up", "down"})
      OBVIOUS
    <3>3. QED
      BY <2>1, <3>1, <3>2 DEF TypeOK, userVars, States, Interest
  <2>3. CASE ~use.sameLoop
    <3>1. /\ state' = "kConnecting" /\ ioQueue' = Append(ioQueue, "connectEstablished")
          /\ UNCHANGED <<events, index, notified, holders>>
      BY <1>3, <2>3 DEF NewConnection
    <3>2. ioQueue' \in Seq(Functors) /\ batch' \in 0..Len(ioQueue')
      BY <1>2, <2>1, <3>1, QueueGrows
    <3>3. QED
      BY <2>1, <3>1, <3>2 DEF TypeOK, userVars, States
  <2>4. QED
    BY <2>2, <2>3
<1>4. CASE RemoveConnectionInLoop
  <2>1. /\ baseQueue # <<>> /\ baseQueue' = Tail(baseQueue) /\ inMap' = FALSE
        /\ ioQueue' = Append(ioQueue, "connectDestroyed")
        /\ UNCHANGED <<use, state, events, index, revents, server, userVars,
                       holders, calls, notified, phase, batch>>
    BY <1>4 DEF RemoveConnectionInLoop, QueueDestroy, loopVars
  <2>2. baseQueue' \in Seq({"removeConnectionInLoop"})
    BY <1>1, <2>1, HeadTailProperties
  <2>3. ioQueue' \in Seq(Functors) /\ batch' \in 0..Len(ioQueue')
    BY <1>2, <2>1, QueueGrows
  <2>4. QED
    BY <2>1, <2>2, <2>3 DEF TypeOK, userVars
<1>5. CASE DestroyServer
  <2>1. /\ server' = FALSE /\ inMap' = FALSE
        /\ UNCHANGED <<use, revents, baseQueue, userVars, holders, calls, phase, batch>>
        /\ \/ UNCHANGED <<state, events, index, notified, ioQueue>>
           \/ ConnectDestroyed(ioQueue)
           \/ /\ ioQueue' = Append(ioQueue, "connectDestroyed")
              /\ UNCHANGED <<state, events, index, notified>>
    BY <1>5 DEF DestroyServer, QueueDestroy, loopVars
  <2>2. CASE UNCHANGED <<state, events, index, notified, ioQueue>>
    BY <2>1, <2>2 DEF TypeOK, userVars
  <2>3. CASE ConnectDestroyed(ioQueue)
    <3>1. /\ state' \in States /\ events' \in SUBSET Interest
          /\ index' \in {"kNew", "kAdded", "kDeleted"} /\ notified' \in Seq({"up", "down"})
          /\ ioQueue' = ioQueue
      BY <2>3, DestroyedTypes
    <3>2. QED
      BY <2>1, <3>1 DEF TypeOK, userVars
  <2>4. CASE ioQueue' = Append(ioQueue, "connectDestroyed") /\ UNCHANGED <<state, events, index, notified>>
    <3>1. ioQueue' \in Seq(Functors) /\ batch' \in 0..Len(ioQueue')
      BY <1>2, <2>1, <2>4, QueueGrows
    <3>2. QED
      BY <2>1, <2>4, <3>1 DEF TypeOK, userVars
  <2>5. QED
    BY <2>1, <2>2, <2>3, <2>4
<1>6. QED
  BY <1>3, <1>4, <1>5

(* The event handlers of the I/O loop keep the types.                      *)
LEMMA HandlerTypes ==
  ASSUME TypeOK, Poll \/ SwapFunctors \/ HandleRead \/ HandleReadEof \/ HandleWrite
  PROVE  TypeOK'
<1>1. ioQueue \in Seq(Functors) /\ batch \in 0..Len(ioQueue) /\ Len(ioQueue) \in Nat
  BY LenProperties DEF TypeOK, userVars
<1>2. CASE Poll
  <2>1. revents' \in SUBSET Interest
    BY <1>2 DEF Poll, TypeOK
  <2>2. QED
    BY <1>2, <2>1 DEF Poll, TypeOK, userVars
<1>3. CASE SwapFunctors
  BY <1>1, <1>3 DEF SwapFunctors, TakeBatch, TypeOK, userVars
<1>4. CASE HandleRead
  <2>1. revents' \in SUBSET Interest /\ phase' = phase /\ batch' = batch
        /\ UNCHANGED <<use, inMap, server, baseQueue, userVars, holders, notified>>
    BY <1>4 DEF HandleRead, Handles, loopVars, TypeOK
  <2>2. CASE UNCHANGED <<state, events, index, ioQueue, calls>>
    BY <2>1, <2>2 DEF TypeOK, userVars
  <2>3. CASE /\ calls < MaxCalls /\ calls' = calls + 1
             /\ \E op \in use.callbackOps : MessageCallback(op)
    <3>1. PICK op \in use.callbackOps : MessageCallback(op)
      BY <2>3
    <3>2. op \in Ops
      BY ServerAssumption DEF TypeOK, userVars
    <3>3. /\ state' \in States /\ events' \in SUBSET Interest
          /\ index' \in {"kNew", "kAdded", "kDeleted"}
          /\ ioQueue' \in Seq(Functors) /\ batch' \in 0..Len(ioQueue')
      BY <2>1, <3>1, <3>2, MessageTypes
    <3>4. calls' \in 0..MaxCalls
      BY <2>3, ServerAssumption DEF TypeOK, userVars
    <3>5. QED
      BY <2>1, <3>3, <3>4 DEF TypeOK, userVars
  <2>4. QED
    BY <1>4, <2>2, <2>3 DEF HandleRead
<1>5. CASE HandleReadEof
  <2>1. revents' \in SUBSET Interest /\ phase' = phase /\ batch' = batch
        /\ HandleClose(ioQueue) /\ UNCHANGED <<use, server, userVars, holders, calls>>
    BY <1>5 DEF HandleReadEof, Handles, loopVars, TypeOK
  <2>2. /\ state' \in States /\ events' \in SUBSET Interest
        /\ index' \in {"kNew", "kAdded", "kDeleted"} /\ inMap' \in BOOLEAN
        /\ baseQueue' \in Seq({"removeConnectionInLoop"}) /\ notified' \in Seq({"up", "down"})
        /\ ioQueue' \in Seq(Functors) /\ Len(ioQueue) <= Len(ioQueue')
    BY <1>1, <2>1, CloseTypes
  <2>3. batch' \in 0..Len(ioQueue')
    <3>1. Len(ioQueue') \in Nat
      BY <2>2, LenProperties
    <3>2. QED
      BY <1>1, <2>1, <2>2, <3>1
  <2>4. QED
    BY <2>1, <2>2, <2>3 DEF TypeOK, userVars
<1>6. CASE HandleWrite
  <2>1. /\ revents' \in SUBSET Interest /\ phase' = phase /\ batch' = batch
        /\ events' \in SUBSET Interest /\ index' \in {"kNew", "kAdded", "kDeleted"}
        /\ UNCHANGED <<use, state, inMap, server, ioQueue, baseQueue, userVars, holders, calls, notified>>
    BY <1>6 DEF HandleWrite, Handles, UpdateChannel, loopVars, TypeOK
  <2>2. QED
    BY <2>1 DEF TypeOK, userVars
<1>7. QED
  BY <1>2, <1>3, <1>4, <1>5, <1>6

(* The functors keep the types.                                            *)
LEMMA FunctorTypes ==
  ASSUME TypeOK, RunConnectEstablished \/ RunForceClose \/ RunConnectDestroyed \/ RunRaw
  PROVE  TypeOK'
<1> DEFINE rest == Tail(ioQueue)
<1>1. /\ rest \in Seq(Functors) /\ Len(rest) \in Nat /\ batch' \in 0..Len(rest) /\ phase' = phase
  BY QueueShrinks DEF RunConnectEstablished, RunForceClose, RunConnectDestroyed, RunRaw
<1> HIDE DEF rest
<1>2. CASE RunConnectEstablished
  <2>1. /\ state' = "kConnected" /\ events' = {"read"} /\ index' \in {"kAdded", "kDeleted"}
        /\ notified' = Append(notified, "up") /\ holders' = Users /\ ioQueue' = rest
        /\ UNCHANGED <<use, revents, inMap, server, baseQueue, userVars, calls>>
    BY <1>2 DEF RunConnectEstablished, UpdateChannel, rest
  <2>2. notified' \in Seq({"up", "down"})
    <3>1. notified \in Seq({"up", "down"})
      BY DEF TypeOK, userVars
    <3>2. QED
      BY <2>1, <3>1, AppendProperties
  <2>3. QED
    BY <1>1, <2>1, <2>2 DEF TypeOK, userVars, States, Interest
<1>3. CASE RunForceClose
  <2>1. UNCHANGED <<use, revents, server, userVars, holders, calls>>
    BY <1>3 DEF RunForceClose
  <2>2. CASE RunForceCloseTest
    <3>1. HandleClose(rest)
      BY <1>3, <2>2 DEF RunForceClose, rest
    <3>2. /\ state' \in States /\ events' \in SUBSET Interest
          /\ index' \in {"kNew", "kAdded", "kDeleted"} /\ inMap' \in BOOLEAN
          /\ baseQueue' \in Seq({"removeConnectionInLoop"}) /\ notified' \in Seq({"up", "down"})
          /\ ioQueue' \in Seq(Functors) /\ Len(rest) <= Len(ioQueue')
      BY <1>1, <3>1, CloseTypes
    <3>3. batch' \in 0..Len(ioQueue')
      <4>1. Len(ioQueue') \in Nat
        BY <3>2, LenProperties
      <4>2. QED
        BY <1>1, <3>2, <4>1
    <3>4. QED
      BY <1>1, <2>1, <3>2, <3>3 DEF TypeOK, userVars
  <2>3. CASE ~RunForceCloseTest
    <3>1. ioQueue' = rest /\ UNCHANGED <<state, events, index, notified, inMap, baseQueue>>
      BY <1>3, <2>3 DEF RunForceClose, rest
    <3>2. QED
      BY <1>1, <2>1, <3>1 DEF TypeOK, userVars
  <2>4. QED
    BY <2>2, <2>3
<1>4. CASE RunConnectDestroyed
  <2>1. ConnectDestroyed(rest) /\ UNCHANGED <<use, revents, inMap, server, baseQueue, userVars, holders, calls>>
    BY <1>4 DEF RunConnectDestroyed, rest
  <2>2. /\ state' \in States /\ events' \in SUBSET Interest
        /\ index' \in {"kNew", "kAdded", "kDeleted"} /\ notified' \in Seq({"up", "down"})
        /\ ioQueue' = rest
    BY <2>1, DestroyedTypes
  <2>3. QED
    BY <1>1, <2>1, <2>2 DEF TypeOK, userVars
<1>5. CASE RunRaw
  <2>1. /\ ioQueue' = rest /\ (SendInLoop \/ UNCHANGED <<events, index>>)
        /\ UNCHANGED <<use, state, revents, inMap, server, baseQueue, userVars, holders, calls, notified>>
    BY <1>5 DEF RunRaw, rest
  <2>2. events' \in SUBSET Interest /\ index' \in {"kNew", "kAdded", "kDeleted"}
    BY <2>1, SendTypes DEF TypeOK, userVars
  <2>3. QED
    BY <1>1, <2>1, <2>2 DEF TypeOK, userVars
<1>6. QED
  BY <1>2, <1>3, <1>4, <1>5

(* What a thread queues.                                                   *)
LEMMA QueuedFunctor ==
  ASSUME TypeOK, NEW u \in Users, QueueFunctor(u)
  PROVE  /\ calling[u] \in [op : Ops, next : {"set", "queue"}]
         /\ \E f \in RawFunctors \cup {"forceCloseInLoop"} :
               /\ ioQueue' = Append(ioQueue, f)
               /\ overtaken' = IF inMap THEN overtaken ELSE overtaken \cup {f}
<1>1. calling[u] \in {NoCall} \cup [op : Ops, next : {"set", "queue"}] /\ calling[u].next = "queue"
  BY DEF TypeOK, QueueFunctor
<1>2. calling[u] \in [op : Ops, next : {"set", "queue"}]
  BY <1>1 DEF NoCall
<1>3. PICK f : f = FunctorOf(calling[u].op)
  OBVIOUS
<1>4. f \in RawFunctors \cup {"forceCloseInLoop"}
  BY <1>2, <1>3 DEF FunctorOf, Ops, RawFunctors
<1>5. ioQueue' = Append(ioQueue, f) /\ overtaken' = IF inMap THEN overtaken ELSE overtaken \cup {f}
  BY <1>3 DEF QueueFunctor
<1>6. QED
  BY <1>2, <1>4, <1>5

(* The other threads keep the types.                                       *)
LEMMA UserTypes ==
  ASSUME TypeOK, NEW u \in Users,
         \/ \E op \in use.userOps : Test(u, op)
         \/ SetDisconnecting(u) \/ QueueFunctor(u) \/ Release(u)
  PROVE  TypeOK'
<1> DEFINE Calls == {NoCall} \cup [op : Ops, next : {"set", "queue"}]
<1>1. use.userOps \subseteq Ops
  BY ServerAssumption DEF TypeOK
<1>2. calling \in [Users -> Calls] /\ calls \in 0..MaxCalls
  BY DEF TypeOK
<1>3. ASSUME NEW op \in use.userOps, Test(u, op)
      PROVE  TypeOK'
  <2>1. calls' \in 0..MaxCalls
    BY <1>2, <1>3, ServerAssumption DEF Test
  <2>2. [op |-> op, next |-> IF op = "send" THEN "queue" ELSE "set"] \in Calls
    BY <1>1
  <2>3. calling' = [calling EXCEPT ![u] = [op |-> op, next |-> IF op = "send" THEN "queue" ELSE "set"]]
    BY <1>3 DEF Test
  <2>4. calling' \in [Users -> Calls]
    BY <1>2, <2>2, <2>3
  <2>5. UNCHANGED <<use, state, events, index, revents, inMap, server, ioQueue, baseQueue,
                    holders, notified, reopened, overtaken, phase, batch>>
    BY <1>3 DEF Test, loopVars
  <2>6. QED
    BY <2>1, <2>4, <2>5 DEF TypeOK
<1>4. CASE SetDisconnecting(u)
  <2>1. [calling[u] EXCEPT !.next = "queue"] \in Calls
    <3>1. calling[u] \in [op : Ops, next : {"set", "queue"}]
      BY <1>2, <1>4 DEF SetDisconnecting, NoCall
    <3>2. QED
      BY <3>1
  <2>2. calling' = [calling EXCEPT ![u] = [calling[u] EXCEPT !.next = "queue"]]
    BY <1>4 DEF SetDisconnecting
  <2>3. calling' \in [Users -> Calls]
    BY <1>2, <2>1, <2>2
  <2>4. state' \in States /\ reopened' \in BOOLEAN
    BY <1>4 DEF SetDisconnecting, States, TypeOK
  <2>5. UNCHANGED <<use, events, index, revents, inMap, server, ioQueue, baseQueue,
                    holders, calls, notified, overtaken, phase, batch>>
    BY <1>4 DEF SetDisconnecting, loopVars
  <2>6. QED
    BY <2>3, <2>4, <2>5 DEF TypeOK
<1>5. CASE QueueFunctor(u)
  <2>1. PICK f \in RawFunctors \cup {"forceCloseInLoop"} :
             /\ ioQueue' = Append(ioQueue, f)
             /\ overtaken' = IF inMap THEN overtaken ELSE overtaken \cup {f}
    BY <1>5, QueuedFunctor
  <2>2. f \in Functors
    BY DEF Functors, RawFunctors
  <2>3. calling' = [calling EXCEPT ![u] = NoCall]
    BY <1>5 DEF QueueFunctor
  <2>4. calling' \in [Users -> Calls]
    BY <1>2, <2>3
  <2>5. UNCHANGED <<use, state, events, index, revents, inMap, server, baseQueue,
                    holders, calls, notified, reopened, phase, batch>>
    BY <1>5 DEF QueueFunctor, loopVars
  <2>6. ioQueue' \in Seq(Functors) /\ batch' \in 0..Len(ioQueue')
    BY <2>1, <2>2, <2>5, QueueGrows
  <2>7. overtaken' \in SUBSET Functors
    BY <2>1, <2>2 DEF TypeOK
  <2>8. QED
    BY <2>4, <2>5, <2>6, <2>7 DEF TypeOK
<1>6. CASE Release(u)
  BY <1>6 DEF Release, loopVars, userVars, TypeOK
<1>7. QED
  BY <1>3, <1>4, <1>5, <1>6
-----------------------------------------------------------------------------
(* The ages follow each other.                                             *)

(* What there is before a connection is told of: nothing to handle, nothing *)
(* to test.  What there is afterwards has no connectEstablished queued.    *)
LEMMA Ages ==
  ASSUME Life
  PROVE  /\ Unborn \/ Opening \/ Open \/ Closed
         /\ state \notin {"none", "kConnecting"} => Open \/ Closed
         /\ Open \/ Closed => /\ state \notin {"none", "kConnecting"}
                              /\ ~Has(ioQueue, "connectEstablished")
         /\ state \in {"kConnected", "kDisconnecting"} => Open
         /\ "read" \in revents \/ "write" \in revents => Open \/ Closed
         /\ "read" \in revents => Open
         /\ ~use.destroys => server
BY DEF Life, Unborn, Opening, Open, Closed

(* A functor that runs: something is established, or is being.             *)
LEMMA AgesOfRuns ==
  ASSUME TypeOK, Life, NEW f, Runs(f)
  PROVE  /\ (Opening \/ Open \/ Closed) /\ revents = {}
         /\ Opening => f = "connectEstablished"
         /\ f = "connectEstablished" => Opening
<1>1. ioQueue # <<>> /\ Head(ioQueue) = f /\ phase = "functors" /\ ioQueue \in Seq(Functors)
  BY QueueShrinks DEF TypeOK
<1>2. revents = {}
  BY <1>1 DEF Life
<1>3. Opening \/ Open \/ Closed
  BY <1>1 DEF Life, Unborn
<1>4. Opening => f = "connectEstablished"
  BY <1>1 DEF Opening
<1>5. ASSUME f = "connectEstablished"
      PROVE  Opening
  <2>1. Has(ioQueue, "connectEstablished")
    BY <1>1, <1>5, FromTheFront
  <2>2. QED
    BY <1>3, <2>1, Ages
<1>6. QED
  BY <1>2, <1>3, <1>4, <1>5

(* Closing: out of the map at once, or when the server's loop gets to it.  *)
LEMMA CloseEnds ==
  ASSUME TypeOK, SafeUse(use), Life, Open,
         NEW queue \in Seq(Functors), HandleClose(queue),
         UNCHANGED <<use, server, holders, userVars>>, phase' = phase,
         revents' \subseteq revents, "read" \notin revents',
         DestroysOnce(queue), ~Has(queue, "connectEstablished"),
         Has(queue, "connectDestroyed") <=> Has(ioQueue, "connectDestroyed")
  PROVE  Life'
<1>1. state' = "kDisconnected" /\ events' = {} /\ index' = "kDeleted" /\ notified' = <<"up", "down">>
  <2>1. Append(<<"up">>, "down") = <<"up", "down">>
    BY FirstAndSecond
  <2>2. QED
    BY <2>1 DEF HandleClose, DisableAll, UpdateChannel, Open
<1>2. CloseCallback(queue) /\ baseQueue = <<>> /\ (inMap <=> server)
      /\ (Has(queue, "connectDestroyed") <=> ~server)
  BY DEF HandleClose, Open
<1>3. "connectDestroyed" \in Functors
  BY DEF Functors
<1>4. server \/ use.destroys
  BY DEF Life
<1>5. /\ DestroysOnce(ioQueue') /\ ~Has(ioQueue', "connectEstablished")
      /\ InMapStill' \/ OutOfMap'
  <2>1. CASE ~server
    <3>1. ioQueue' = queue /\ inMap' = inMap /\ baseQueue' = baseQueue
      BY <1>2, <2>1 DEF CloseCallback
    <3>2. OutOfMap'
      BY <1>1, <1>2, <2>1, <3>1 DEF OutOfMap
    <3>3. QED
      BY <3>1, <3>2
  <2>2. CASE server /\ use.sameLoop
    <3>1. ioQueue' = Append(queue, "connectDestroyed") /\ inMap' = FALSE /\ baseQueue' = baseQueue
      BY <1>2, <2>2 DEF CloseCallback, QueueDestroy
    <3>2. /\ DestroysOnce(ioQueue') /\ ~Has(ioQueue', "connectEstablished")
          /\ Has(ioQueue', "connectDestroyed")
      <4>1. ~Has(queue, "connectDestroyed")
        BY <1>2, <2>2
      <4>2. /\ \A f : Has(ioQueue', f) <=> Has(queue, f) \/ f = "connectDestroyed"
            /\ DestroysOnce(ioQueue')
        BY <1>3, <3>1, <4>1, AtTheEnd
      <4>3. QED
        BY <4>2
    <3>3. OutOfMap'
      BY <1>1, <1>2, <3>1, <3>2 DEF OutOfMap
    <3>4. QED
      BY <3>2, <3>3
  <2>3. CASE server /\ ~use.sameLoop
    <3>1. /\ ioQueue' = queue /\ inMap' = inMap
          /\ baseQueue' = Append(baseQueue, "removeConnectionInLoop")
      BY <1>2, <2>3 DEF CloseCallback
    <3>2. InMapStill'
      BY <1>1, <1>2, <2>3, <3>1 DEF InMapStill
    <3>3. QED
      BY <3>1, <3>2
  <2>4. QED
    BY <2>1, <2>2, <2>3
<1>6. Closed'
  BY <1>1, <1>5 DEF Closed
<1>7. UsersInv'
  BY <1>1 DEF Life, UsersInv, userVars
<1>8. (revents # {} => phase = "events")'
  BY DEF Life
<1>9. QED
  BY <1>4, <1>5, <1>6, <1>7, <1>8 DEF Life

(* The server's loop: a connection comes, ...                              *)
LEMMA NewConnectionLives ==
  ASSUME TypeOK, Life, NewConnection
  PROVE  Life'
<1>1. Unborn /\ inMap' /\ server /\ UNCHANGED <<use, revents, server, baseQueue, userVars, calls, phase, batch>>
  BY DEF NewConnection, Life, Unborn, Opening, Open, Closed, loopVars
<1>2. CASE use.sameLoop
  <2>1. /\ state' = "kConnected" /\ events' = {"read"} /\ index' = "kAdded"
        /\ notified' = <<"up">> /\ holders' = Users /\ ioQueue' = ioQueue
    BY <1>2 DEF NewConnection, UpdateChannel
  <2>2. \A f : ~Has(ioQueue, f)
    BY <1>1 DEF Has, Unborn
  <2>3. Open'
    BY <1>1, <2>1, <2>2 DEF Unborn, Open
  <2>4. UsersInv'
    BY <1>1, <2>1 DEF Life, UsersInv, userVars
  <2>5. QED
    BY <1>1, <2>1, <2>2, <2>3, <2>4 DEF Life
<1>3. CASE ~use.sameLoop
  <2>1. /\ state' = "kConnecting" /\ ioQueue' = <<"connectEstablished">>
        /\ UNCHANGED <<events, index, notified, holders>>
    BY <1>1, <1>3 DEF NewConnection, Unborn
  <2>2. Opening'
    BY <1>1, <1>3, <2>1 DEF Unborn, Opening
  <2>3. DestroysOnce(ioQueue')
    BY <2>1 DEF DestroysOnce
  <2>4. UsersInv'
    BY <1>1, <2>1 DEF Life, UsersInv, Unborn, userVars
  <2>5. QED
    BY <1>1, <2>1, <2>2, <2>3, <2>4 DEF Life
<1>4. QED
  BY <1>2, <1>3

(* ... goes, ...                                                           *)
LEMMA RemoveLives ==
  ASSUME TypeOK, Life, RemoveConnectionInLoop
  PROVE  Life'
<1>1. /\ server /\ baseQueue # <<>> /\ baseQueue' = Tail(baseQueue) /\ inMap' = FALSE
      /\ ioQueue' = Append(ioQueue, "connectDestroyed")
      /\ UNCHANGED <<use, state, events, index, revents, server, userVars, holders, calls,
                     notified, phase, batch>>
  BY DEF RemoveConnectionInLoop, QueueDestroy, loopVars
<1>2. Closed /\ InMapStill
  BY <1>1 DEF Life, Unborn, Opening, Open, Closed, OutOfMap, OutOfPoller
<1>3. baseQueue' = <<>>
  BY <1>1, <1>2 DEF InMapStill
<1>4. /\ DestroysOnce(ioQueue') /\ Has(ioQueue', "connectDestroyed")
      /\ ~Has(ioQueue', "connectEstablished")
  <2>1. ioQueue \in Seq(Functors) /\ "connectDestroyed" \in Functors
    BY DEF TypeOK, Functors
  <2>2. DestroysOnce(ioQueue) /\ ~Has(ioQueue, "connectDestroyed") /\ ~Has(ioQueue, "connectEstablished")
    BY <1>2, Ages DEF Life, InMapStill
  <2>3. QED
    BY <1>1, <2>1, <2>2, AtTheEnd
<1>5. OutOfMap' /\ Closed'
  BY <1>1, <1>2, <1>3, <1>4 DEF Closed, InMapStill, OutOfMap
<1>6. UsersInv'
  BY <1>1 DEF Life, UsersInv, userVars
<1>7. QED
  BY <1>1, <1>4, <1>5, <1>6 DEF Life

(* ... and the server goes.                                                *)
LEMMA DestroyServerLives ==
  ASSUME TypeOK, SafeUse(use), Life, DestroyServer
  PROVE  Life'
<1>1. /\ use.destroys /\ ~use.sameLoop /\ server /\ server' = FALSE /\ inMap' = FALSE
      /\ IF inMap THEN ioQueue' = Append(ioQueue, "connectDestroyed") ELSE ioQueue' = ioQueue
      /\ UNCHANGED <<use, state, events, index, notified, revents, baseQueue, userVars, holders, calls,
                     phase, batch>>
  BY DEF DestroyServer, QueueDestroy, loopVars, SafeUse
<1>2. UsersInv'
  BY <1>1 DEF Life, UsersInv, userVars
<1>3. CASE ~inMap
  <2>1. ioQueue' = ioQueue
    BY <1>1, <1>3
  <2>2. Unborn \/ (Closed /\ (OutOfMap \/ OutOfPoller))
    BY <1>1, <1>3 DEF Life, Opening, Open, Closed, InMapStill
  <2>3. Unborn => Unborn'
    BY <1>1, <2>1 DEF Unborn
  <2>4. Closed /\ (OutOfMap \/ OutOfPoller) => Closed'
    BY <1>1, <2>1 DEF Closed, OutOfMap, OutOfPoller
  <2>5. QED
    BY <1>1, <1>2, <2>1, <2>2, <2>3, <2>4 DEF Life
<1>4. CASE inMap
  <2>1. ioQueue' = Append(ioQueue, "connectDestroyed")
    BY <1>1, <1>4
  <2>2. Opening \/ Open \/ (Closed /\ InMapStill)
    BY <1>1, <1>4 DEF Life, Unborn, Closed, OutOfMap, OutOfPoller
  <2>3. ~Has(ioQueue, "connectDestroyed") /\ DestroysOnce(ioQueue)
    <3>1. Opening => ~Has(ioQueue, "connectDestroyed")
      BY <1>1 DEF Opening, Has
    <3>2. QED
      BY <1>1, <2>2, <3>1 DEF Open, InMapStill, Life
  <2>4. /\ DestroysOnce(ioQueue') /\ Has(ioQueue', "connectDestroyed")
        /\ Has(ioQueue', "connectEstablished") <=> Has(ioQueue, "connectEstablished")
    <3>1. ioQueue \in Seq(Functors) /\ "connectDestroyed" \in Functors
      BY DEF TypeOK, Functors
    <3>2. QED
      BY <2>1, <2>3, <3>1, AtTheEnd
  <2>5. Opening => Opening'
    <3>1. Append(<<"connectEstablished">>, "connectDestroyed") = <<"connectEstablished", "connectDestroyed">>
      BY FirstAndSecond
    <3>2. QED
      BY <1>1, <2>1, <3>1 DEF Opening
  <2>6. Open => Open'
    BY <1>1, <2>4 DEF Open
  <2>7. Closed /\ InMapStill => Closed'
    BY <1>1, <2>4 DEF Closed, InMapStill, OutOfMap
  <2>8. QED
    BY <1>1, <1>2, <2>2, <2>4, <2>5, <2>6, <2>7 DEF Life
<1>5. QED
  BY <1>3, <1>4

(* Polling, and the end of the event handlers.                             *)
LEMMA PollLives ==
  ASSUME TypeOK, Life, Poll \/ SwapFunctors
  PROVE  Life'
<1>1. /\ UNCHANGED <<use, state, events, index, inMap, server, ioQueue, baseQueue, userVars, holders, notified>>
      /\ revents' # {} => phase' = "events"
      /\ revents' # {} => index = "kAdded"
  BY DEF Poll, SwapFunctors
<1>2. (Unborn => Unborn') /\ (Opening => Opening')
  BY <1>1 DEF Unborn, Opening
<1>3. Open => Open'
  BY <1>1 DEF Open
<1>4. Closed => Closed'
  BY <1>1 DEF Closed, InMapStill, OutOfMap, OutOfPoller
<1>5. UsersInv'
  BY <1>1 DEF Life, UsersInv, userVars
<1>6. QED
  BY <1>1, <1>2, <1>3, <1>4, <1>5 DEF Life

(* A handler that leaves the connection as it is, but for what it watches. *)
LEMMA WatchLives ==
  ASSUME TypeOK, Life, Open \/ Closed,
         UNCHANGED <<use, state, inMap, server, ioQueue, baseQueue, userVars, holders, notified>>,
         revents' \subseteq revents, phase' = phase,
         Open => "read" \in events' /\ index' = "kAdded",
         Closed => UNCHANGED <<events, index>>
  PROVE  Life'
<1>1. Open => Open'
  BY DEF Open
<1>2. Closed => Closed'
  BY DEF Closed, InMapStill, OutOfMap, OutOfPoller
<1>3. UsersInv'
  BY DEF Life, UsersInv, userVars
<1>4. (revents # {} => phase = "events")'
  BY DEF Life
<1>5. QED
  BY <1>1, <1>2, <1>3, <1>4 DEF Life

(* sendInLoop only watches more.                                           *)
LEMMA SendWatches ==
  ASSUME SendInLoop
  PROVE  /\ Open => "read" \in events' /\ index' = "kAdded"
         /\ Closed => UNCHANGED <<events, index>>
<1>1. Open => "read" \in events' /\ index' = "kAdded"
  BY DEF SendInLoop, UpdateChannel, Open
<1>2. Closed => UNCHANGED <<events, index>>
  BY DEF SendInLoop, Closed
<1>3. QED
  BY <1>1, <1>2

(* A functor that forceClose, shutdown or send queues on an open           *)
(* connection, or a late send on any.                                      *)
LEMMA QueueLives ==
  ASSUME TypeOK, Life, Open \/ Closed,
         NEW f \in RawFunctors \cup {"forceCloseInLoop"}, ioQueue' = Append(ioQueue, f),
         UNCHANGED <<use, events, index, phase, inMap, server, baseQueue, holders, notified>>,
         revents' \subseteq revents,
         state' = state \/ (Open /\ state' = "kDisconnecting" /\ ~use.destroys),
         \A u \in Users : calling'[u] = NoCall \/ calling'[u] = calling[u]
  PROVE  Life'
<1>1. ioQueue \in Seq(Functors) /\ f \in Functors /\ f # "connectDestroyed" /\ f # "connectEstablished"
  BY DEF TypeOK, Functors, RawFunctors
<1>2. /\ \A g : Has(ioQueue', g) <=> Has(ioQueue, g) \/ g = f
      /\ DestroysOnce(ioQueue) => DestroysOnce(ioQueue')
  BY <1>1, AtTheEnd
<1>3. Has(ioQueue', "connectDestroyed") <=> Has(ioQueue, "connectDestroyed")
  BY <1>1, <1>2
<1>4. ~Has(ioQueue', "connectEstablished")
  BY <1>1, <1>2, Ages
<1>5. Open => Open'
  BY <1>3 DEF Open
<1>6. Closed => Closed'
  BY <1>3 DEF Closed, Open, InMapStill, OutOfMap, OutOfPoller
<1>7. UsersInv'
  <2>1. state' \notin {"none", "kConnecting"}
    BY Ages
  <2>2. NoCall.next = "test"
    BY DEF NoCall
  <2>3. QED
    BY <2>1, <2>2 DEF Life, UsersInv
<1>8. (revents # {} => phase = "events")'
  BY DEF Life
<1>9. QED
  BY <1>2, <1>4, <1>5, <1>6, <1>7, <1>8 DEF Life

(* The event handlers.                                                     *)
LEMMA HandlerLives ==
  ASSUME TypeOK, SafeUse(use), Life, HandleRead \/ HandleReadEof \/ HandleWrite
  PROVE  Life'
<1>1. revents' \subseteq revents /\ UNCHANGED <<use, server, userVars, holders, phase>>
  BY DEF HandleRead, HandleReadEof, HandleWrite, Handles, loopVars
<1>2. Open \/ Closed
  BY Ages DEF HandleRead, HandleReadEof, HandleWrite, Handles
<1>3. CASE HandleRead
  <2>1. Open /\ UNCHANGED <<inMap, baseQueue, notified>>
    BY <1>3, Ages DEF HandleRead, Handles
  <2>2. ~Closed
    BY <2>1 DEF Open, Closed
  <2>3. CASE UNCHANGED <<state, events, index, ioQueue>>
    <3>1. "read" \in events' /\ index' = "kAdded"
      BY <2>1, <2>3 DEF Open
    <3>2. QED
      BY <1>1, <2>1, <2>2, <2>3, <3>1, WatchLives
  <2>4. ASSUME NEW op \in use.callbackOps, MessageCallback(op)
        PROVE  Life'
    <3>1. op \in Ops
      BY ServerAssumption DEF TypeOK
    <3>2. op # "send" => ~use.destroys
      BY DEF SafeUse
    <3>3. CASE op = "shutdown"
      <4>1. /\ UNCHANGED <<events, index, ioQueue>>
            /\ state' = state \/ state' = "kDisconnecting"
        BY <2>4, <3>3 DEF MessageCallback
      <4>2. Open'
        BY <1>1, <2>1, <3>2, <3>3, <4>1 DEF Open
      <4>3. UsersInv'
        BY <1>1, <2>1, <4>1, <4>2 DEF Life, UsersInv, Open, userVars
      <4>4. (revents # {} => phase = "events")'
        BY <1>1 DEF Life
      <4>5. ~Has(ioQueue', "connectEstablished")
        BY <2>1, <4>1, Ages
      <4>6. QED
        BY <1>1, <4>1, <4>2, <4>3, <4>4, <4>5 DEF Life
    <3>4. CASE op = "forceClose"
      <4>1. /\ UNCHANGED <<events, index>> /\ state' = "kDisconnecting"
            /\ ioQueue' = Append(ioQueue, "forceCloseInLoop")
        BY <2>1, <2>4, <3>4 DEF MessageCallback, ForceCloseTest, Open
      <4>2. ~use.destroys
        BY <3>2, <3>4
      <4>3. calling' = calling
        BY <1>1 DEF userVars
      <4>4. QED
        BY <1>1, <2>1, <4>1, <4>2, <4>3, QueueLives
    <3>5. CASE op = "send"
      <4>1. state' = state /\ ioQueue' = ioQueue /\ (SendInLoop \/ UNCHANGED <<events, index>>)
        BY <2>4, <3>5 DEF MessageCallback
      <4>2. "read" \in events' /\ index' = "kAdded"
        BY <2>1, <4>1, SendWatches DEF Open
      <4>3. QED
        BY <1>1, <2>1, <2>2, <4>1, <4>2, WatchLives
    <3>6. QED
      BY <3>1, <3>3, <3>4, <3>5 DEF Ops
  <2>5. QED
    BY <1>3, <2>3, <2>4 DEF HandleRead
<1>4. CASE HandleReadEof
  <2>1. Open /\ HandleClose(ioQueue) /\ "read" \notin revents'
    BY <1>4, Ages DEF HandleReadEof, Handles
  <2>2. ioQueue \in Seq(Functors) /\ DestroysOnce(ioQueue) /\ ~Has(ioQueue, "connectEstablished")
    BY <2>1, Ages DEF TypeOK, Life
  <2>3. QED
    BY <1>1, <2>1, <2>2, CloseEnds
<1>5. CASE HandleWrite
  <2>1. UNCHANGED <<state, inMap, ioQueue, baseQueue, notified>>
    BY <1>5 DEF HandleWrite
  <2>2. Open => "read" \in events' /\ index' = "kAdded"
    BY <1>5 DEF HandleWrite, UpdateChannel, Open
  <2>3. Closed => UNCHANGED <<events, index>>
    BY <1>5 DEF HandleWrite, Closed
  <2>4. QED
    BY <1>1, <1>2, <2>1, <2>2, <2>3, WatchLives
<1>6. QED
  BY <1>3, <1>4, <1>5

(* connectEstablished, which nothing can come before.                      *)
LEMMA EstablishedLives ==
  ASSUME TypeOK, Life, RunConnectEstablished
  PROVE  Life'
<1>1. Runs("connectEstablished")
  BY DEF RunConnectEstablished
<1>2. Opening /\ revents = {}
  BY <1>1, AgesOfRuns
<1>3. /\ state' = "kConnected" /\ events' = {"read"} /\ index' = "kAdded"
      /\ notified' = <<"up">> /\ holders' = Users /\ ioQueue' = Tail(ioQueue)
      /\ UNCHANGED <<use, revents, inMap, server, baseQueue, userVars, calls>>
  BY <1>2 DEF RunConnectEstablished, UpdateChannel, Opening
<1>4. ioQueue' = IF server THEN <<>> ELSE <<"connectDestroyed">>
  BY <1>2, <1>3 DEF Opening
<1>5. /\ Has(ioQueue', "connectDestroyed") <=> ~server
      /\ ~Has(ioQueue', "connectEstablished") /\ DestroysOnce(ioQueue')
  <2>1. CASE server
    BY <1>4, <2>1 DEF Has, DestroysOnce
  <2>2. CASE ~server
    <3>1. PICK q \in Seq(Functors) : q = ioQueue' /\ Len(q) = 1 /\ q[1] = "connectDestroyed"
      <4>1. <<"connectDestroyed">> \in Seq(Functors) /\ Len(<<"connectDestroyed">>) = 1
            /\ <<"connectDestroyed">>[1] = "connectDestroyed"
        BY DEF Functors
      <4>2. QED
        BY <1>4, <2>2, <4>1
    <3>2. 1 \in 1..Len(q) /\ \A i \in 1..Len(q) : i = 1
      BY <3>1
    <3>3. QED
      BY <2>2, <3>1, <3>2 DEF Has, DestroysOnce
  <2>3. QED
    BY <2>1, <2>2
<1>6. Open'
  BY <1>2, <1>3, <1>5 DEF Opening, Open
<1>7. UsersInv'
  BY <1>3 DEF Life, UsersInv, userVars
<1>8. QED
  BY <1>2, <1>3, <1>5, <1>6, <1>7 DEF Life

(* What a functor other than connectEstablished leaves in the queue.       *)
LEMMA QueueLeft ==
  ASSUME TypeOK, Life, NEW f, Runs(f), f # "connectEstablished", NEW rest, rest = Tail(ioQueue)
  PROVE  /\ Open \/ Closed
         /\ rest \in Seq(Functors) /\ DestroysOnce(rest) /\ ~Has(rest, "connectEstablished")
         /\ f = "connectDestroyed" => /\ Has(ioQueue, "connectDestroyed")
                                      /\ ~Has(rest, "connectDestroyed")
         /\ f # "connectDestroyed" => (Has(rest, "connectDestroyed") <=> Has(ioQueue, "connectDestroyed"))
<1>1. Open \/ Closed
  BY AgesOfRuns
<1>2. ioQueue \in Seq(Functors) /\ ioQueue # <<>> /\ Head(ioQueue) = f
  BY QueueShrinks DEF TypeOK
<1>3. /\ rest \in Seq(Functors)
      /\ \A g : Has(ioQueue, g) <=> f = g \/ Has(rest, g)
      /\ DestroysOnce(ioQueue) => /\ DestroysOnce(rest)
                                  /\ f = "connectDestroyed" => ~Has(rest, "connectDestroyed")
  BY <1>2, FromTheFront
<1>4. DestroysOnce(ioQueue) /\ ~Has(ioQueue, "connectEstablished")
  BY <1>1, Ages DEF Life
<1>5. QED
  BY <1>1, <1>3, <1>4

(* The next functor of the batch leaves the connection as it is.           *)
LEMMA RestLives ==
  ASSUME TypeOK, Life, NEW f, Runs(f), f \notin {"connectEstablished", "connectDestroyed"},
         ioQueue' = Tail(ioQueue),
         UNCHANGED <<use, state, revents, inMap, server, baseQueue, userVars, holders, notified>>,
         Open => "read" \in events' /\ index' = "kAdded",
         Closed => UNCHANGED <<events, index>>
  PROVE  Life'
<1>1. /\ Open \/ Closed
      /\ DestroysOnce(ioQueue') /\ ~Has(ioQueue', "connectEstablished")
      /\ Has(ioQueue', "connectDestroyed") <=> Has(ioQueue, "connectDestroyed")
  BY QueueLeft
<1>2. Open => Open'
  BY <1>1 DEF Open
<1>3. Closed => Closed'
  BY <1>1 DEF Closed, InMapStill, OutOfMap, OutOfPoller
<1>4. UsersInv'
  BY DEF Life, UsersInv, userVars
<1>5. revents = {} /\ (server \/ use.destroys)
  BY AgesOfRuns DEF Life
<1>6. QED
  BY <1>1, <1>2, <1>3, <1>4, <1>5 DEF Life

(* forceCloseInLoop.                                                       *)
LEMMA ForceCloseLives ==
  ASSUME TypeOK, SafeUse(use), Life, RunForceClose
  PROVE  Life'
<1> DEFINE f == "forceCloseInLoop"
<1>1. Runs(f) /\ f \notin {"connectEstablished", "connectDestroyed"}
      /\ UNCHANGED <<use, revents, server, userVars, holders>>
  BY DEF RunForceClose
<1>2. CASE RunForceCloseTest
  <2>1. HandleClose(Tail(ioQueue)) /\ Open
    BY <1>2, Ages DEF RunForceClose, RunForceCloseTest
  <2>2. revents = {} /\ phase' = phase
    BY <1>1, AgesOfRuns, QueueShrinks
  <2>3. PICK rest \in Seq(Functors) :
             /\ rest = Tail(ioQueue) /\ DestroysOnce(rest) /\ ~Has(rest, "connectEstablished")
             /\ Has(rest, "connectDestroyed") <=> Has(ioQueue, "connectDestroyed")
    BY <1>1, QueueLeft
  <2>4. QED
    BY <1>1, <2>1, <2>2, <2>3, CloseEnds
<1>3. CASE ~RunForceCloseTest
  <2>1. ioQueue' = Tail(ioQueue) /\ UNCHANGED <<state, events, index, notified, inMap, baseQueue>>
    BY <1>3 DEF RunForceClose
  <2>2. Open => "read" \in events' /\ index' = "kAdded"
    BY <2>1 DEF Open
  <2>3. QED
    BY <1>1, <2>1, <2>2, RestLives
<1>4. QED
  BY <1>2, <1>3

(* connectDestroyed: on a connection that is closed and out of the map, or *)
(* on one that the server left open when it went.                          *)
LEMMA DestroyedLives ==
  ASSUME TypeOK, Life, RunConnectDestroyed
  PROVE  Life' /\ events' = {}
<1>1. /\ Runs("connectDestroyed") /\ ConnectDestroyed(Tail(ioQueue))
      /\ UNCHANGED <<use, revents, inMap, server, baseQueue, userVars, holders>>
  BY DEF RunConnectDestroyed
<1>2. ioQueue' = Tail(ioQueue) /\ index' = "kNew"
  BY <1>1 DEF ConnectDestroyed, RemoveChannel
<1>3. /\ Open \/ Closed
      /\ DestroysOnce(ioQueue') /\ ~Has(ioQueue', "connectEstablished")
      /\ Has(ioQueue, "connectDestroyed") /\ ~Has(ioQueue', "connectDestroyed")
  BY <1>1, <1>2, QueueLeft
<1>4. revents = {}
  BY <1>1, AgesOfRuns
<1>5. state' = "kDisconnected" /\ events' = {} /\ notified' = <<"up", "down">>
      /\ ~inMap /\ (server => baseQueue = <<>>)
  <2>1. CASE Open
    <3>1. ~server /\ ~inMap /\ state = "kConnected"
      BY <1>3, <2>1 DEF Open, Life
    <3>2. Append(<<"up">>, "down") = <<"up", "down">>
      BY FirstAndSecond
    <3>3. QED
      BY <1>1, <2>1, <3>1, <3>2 DEF Open, ConnectDestroyed, DestroyGuard
  <2>2. CASE Closed
    BY <1>1, <1>3, <2>2 DEF Closed, InMapStill, OutOfMap, OutOfPoller, ConnectDestroyed, DestroyGuard
  <2>3. QED
    BY <1>3, <2>1, <2>2
<1>6. Closed'
  BY <1>1, <1>2, <1>3, <1>4, <1>5 DEF Closed, OutOfPoller
<1>7. UsersInv'
  BY <1>1, <1>5 DEF Life, UsersInv, userVars
<1>8. QED
  BY <1>1, <1>3, <1>4, <1>5, <1>6, <1>7 DEF Life

(* shutdownInLoop and sendInLoop.                                          *)
LEMMA RawLives ==
  ASSUME TypeOK, Life, RunRaw
  PROVE  Life'
<1>1. /\ \/ Runs("shutdownInLoop") /\ UNCHANGED <<events, index>>
         \/ Runs("sendInLoop") /\ SendInLoop
      /\ ioQueue' = Tail(ioQueue)
      /\ UNCHANGED <<use, state, revents, inMap, server, baseQueue, userVars, holders, notified>>
  BY DEF RunRaw
<1>2. Open => "read" \in events' /\ index' = "kAdded"
  BY <1>1, SendWatches DEF Open
<1>3. Closed => UNCHANGED <<events, index>>
  BY <1>1, SendWatches
<1>4. QED
  BY <1>1, <1>2, <1>3, RestLives

(* The other threads: a call that is overtaken by the close is one that    *)
(* sets state_ back, or one that only queues.                              *)
LEMMA UserLives ==
  ASSUME TypeOK, SafeUse(use), Life, ~reopened', NEW u \in Users,
         \/ \E op \in use.userOps : Test(u, op)
         \/ SetDisconnecting(u) \/ QueueFunctor(u) \/ Release(u)
  PROVE  Life'
<1> DEFINE Calls == {NoCall} \cup [op : Ops, next : {"set", "queue"}]
<1>1. use.userOps \subseteq Ops /\ (use.destroys => use.userOps \subseteq {"send"})
      /\ calling \in [Users -> Calls]
  BY ServerAssumption DEF TypeOK, SafeUse
<1>2. ASSUME NEW op \in use.userOps, Test(u, op)
      PROVE  Life'
  <2>1. PICK then \in {"set", "queue"} :
             /\ calling' = [calling EXCEPT ![u] = [op |-> op, next |-> then]]
             /\ then = "set" => op # "send"
    BY <1>2 DEF Test
  <2>2. /\ Open \/ Closed
        /\ state \notin {"none", "kConnecting"}
        /\ UNCHANGED <<use, state, inMap, server, ioQueue, baseQueue, holders, notified, events, index,
                       revents, phase>>
    BY <1>2, Ages DEF Test, loopVars, ForceCloseTest, ShutdownTest
  <2>3. \A v \in Users : calling'[v] = IF v = u THEN [op |-> op, next |-> then] ELSE calling[v]
    BY <1>1, <2>1
  <2>4. UsersInv'
    BY <2>1, <2>2, <2>3 DEF Life, UsersInv
  <2>5. (Open => Open') /\ (Closed => Closed')
    BY <2>2 DEF Open, Closed, InMapStill, OutOfMap, OutOfPoller
  <2>6. QED
    BY <2>2, <2>4, <2>5 DEF Life
<1>3. CASE SetDisconnecting(u)
  <2>1. /\ calling[u].next = "set" /\ calling' = [calling EXCEPT ![u] = [calling[u] EXCEPT !.next = "queue"]]
        /\ state' = "kDisconnecting" /\ state # "kDisconnected"
        /\ UNCHANGED <<use, inMap, server, ioQueue, baseQueue, holders, notified, events, index,
                       revents, phase>>
    BY <1>3 DEF SetDisconnecting, loopVars
  <2>2. /\ calling[u] \in [op : Ops, next : {"set", "queue"}]
        /\ calling[u].op \in use.userOps /\ calling[u].op # "send" /\ calling[u] # NoCall
    BY <1>1, <2>1 DEF Life, UsersInv, NoCall
  <2>3. ~use.destroys /\ Open
    <3>1. ~use.destroys
      BY <1>1, <2>2
    <3>2. state \notin {"none", "kConnecting"}
      BY <2>2 DEF Life, UsersInv
    <3>3. QED
      BY <2>1, <3>1, <3>2, Ages DEF Closed
  <2>4. Open'
    BY <2>1, <2>3 DEF Open
  <2>5. \A v \in Users : /\ v # u => calling'[v] = calling[v]
                         /\ calling'[u].op = calling[u].op /\ calling'[u].next = "queue"
    BY <1>1, <2>1, <2>2
  <2>6. UsersInv'
    BY <2>1, <2>2, <2>5 DEF Life, UsersInv
  <2>7. ~Has(ioQueue, "connectEstablished")
    BY <2>3, Ages
  <2>8. QED
    BY <2>1, <2>4, <2>6, <2>7 DEF Life
<1>4. CASE QueueFunctor(u)
  <2>1. PICK f \in RawFunctors \cup {"forceCloseInLoop"} : ioQueue' = Append(ioQueue, f)
    BY <1>4, QueuedFunctor
  <2>2. /\ calling' = [calling EXCEPT ![u] = NoCall] /\ calling[u].next = "queue"
        /\ UNCHANGED <<use, events, index, phase, inMap, server, baseQueue, holders, notified, revents, state>>
    BY <1>4 DEF QueueFunctor, loopVars
  <2>3. Open \/ Closed
    <3>1. calling[u] # NoCall
      BY <2>2 DEF NoCall
    <3>2. QED
      BY <3>1, Ages DEF Life, UsersInv
  <2>4. \A v \in Users : calling'[v] = NoCall \/ calling'[v] = calling[v]
    BY <1>1, <2>2
  <2>5. QED
    BY <2>1, <2>2, <2>3, <2>4, QueueLives
<1>5. CASE Release(u)
  <2>1. /\ u \in holders /\ holders' \subseteq holders
        /\ UNCHANGED <<use, state, events, index, revents, inMap, server,
                       ioQueue, baseQueue, userVars, notified, phase>>
    BY <1>5 DEF Release, loopVars
  <2>2. UsersInv'
    BY <2>1 DEF Life, UsersInv, userVars
  <2>3. (Unborn => Unborn') /\ (Opening => Opening')
    BY <2>1 DEF Unborn, Opening
  <2>4. Open => Open'
    BY <2>1 DEF Open
  <2>5. Closed => Closed'
    BY <2>1 DEF Closed, InMapStill, OutOfMap, OutOfPoller
  <2>6. QED
    BY <2>1, <2>2, <2>3, <2>4, <2>5 DEF Life
<1>6. QED
  BY <1>2, <1>3, <1>4, <1>5
-----------------------------------------------------------------------------
(* What is bound to a bare this is ahead of the end.                       *)

(* The loop takes the first functor.                                       *)
LEMMA OrderedRest ==
  ASSUME NEW q \in Seq(Functors), q # <<>>, NEW mapped, NEW these, Ordered(q, mapped, these)
  PROVE  Ordered(Tail(q), mapped, these)
<1>1. PICK rest \in Seq(Functors) : rest = Tail(q)
  BY FromTheFront
<1>2. /\ \A f : Has(q, f) <=> Head(q) = f \/ Has(rest, f)
      /\ HasAny(q, these) <=> Head(q) \in these \/ HasAny(rest, these)
      /\ First(q, these) => /\ First(rest, these)
                            /\ Head(q) = "connectDestroyed" => ~HasAny(rest, these)
  BY <1>1, FromTheFront
<1>3. Ordered(rest, mapped, these)
  BY <1>2 DEF Ordered
<1>4. QED
  BY <1>1, <1>3

(* A functor is queued: the last one, when the map lets go; one that must  *)
(* not come too late, while the map has the connection.                    *)
LEMMA OrderedLonger ==
  ASSUME NEW q \in Seq(Functors), NEW g \in Functors, NEW mapped \in BOOLEAN, NEW these,
         Ordered(q, mapped, these), "connectDestroyed" \notin these,
         NEW now \in BOOLEAN, now = (mapped /\ g # "connectDestroyed"), g \in these => mapped
  PROVE  Ordered(Append(q, g), now, these)
<1>1. PICK longer : longer = Append(q, g)
  OBVIOUS
<1>2. /\ \A f : Has(longer, f) <=> Has(q, f) \/ f = g
      /\ HasAny(longer, these) <=> HasAny(q, these) \/ g \in these
      /\ First(q, these) /\ (g \in these => ~Has(q, "connectDestroyed")) => First(longer, these)
  BY <1>1, AtTheEnd
<1>3. Ordered(longer, now, these)
  BY <1>2 DEF Ordered
<1>4. QED
  BY <1>1, <1>3

(* Closing keeps the order.                                                *)
LEMMA CloseOrders ==
  ASSUME TypeOK, NEW q \in Seq(Functors), NEW these, "connectDestroyed" \notin these,
         Ordered(q, inMap, these), HandleClose(q)
  PROVE  Ordered(ioQueue', inMap', these)
<1>1. "connectDestroyed" \in Functors /\ inMap \in BOOLEAN
  BY DEF Functors, TypeOK
<1>2. \/ ioQueue' = q /\ inMap' = inMap
      \/ ioQueue' = Append(q, "connectDestroyed") /\ inMap' = FALSE
  BY DEF HandleClose, CloseCallback, QueueDestroy
<1>3. CASE ioQueue' = q /\ inMap' = inMap
  BY <1>3
<1>4. CASE ioQueue' = Append(q, "connectDestroyed") /\ inMap' = FALSE
  <2>1. Ordered(Append(q, "connectDestroyed"), FALSE, these)
    BY <1>1, OrderedLonger
  <2>2. QED
    BY <1>4, <2>1
<1>5. QED
  BY <1>2, <1>3, <1>4

(* Every step keeps it, the two halves of an overtaken call included.      *)
LEMMA RawKept ==
  ASSUME TypeOK, ServesElsewhere(use), RawInv, Next
  PROVE  RawInv'
<1>1. /\ ioQueue \in Seq(Functors) /\ inMap \in BOOLEAN /\ use.callbackOps \subseteq Ops
      /\ "connectDestroyed" \in Functors /\ "forceCloseInLoop" \in Functors
      /\ "connectDestroyed" \notin InTime /\ "forceCloseInLoop" \notin InTime
      /\ Ordered(ioQueue, inMap, InTime)
  BY ServerAssumption DEF TypeOK, Functors, RawFunctors, InTime, RawInv
<1>2. ASSUME state # "none", Ordered(ioQueue', inMap', InTime'),
             state' = state \/ state' \in {"kConnected", "kDisconnecting", "kDisconnected"}
      PROVE  RawInv'
  BY <1>2 DEF RawInv
<1>3. userVars' = userVars => InTime' = InTime
  BY DEF userVars, InTime
<1>4. ASSUME NEW f, Runs(f)
      PROVE  /\ ioQueue # <<>> /\ state # "none" /\ Tail(ioQueue) \in Seq(Functors)
             /\ Ordered(Tail(ioQueue), inMap, InTime)
  <2>1. ioQueue # <<>> /\ Tail(ioQueue) \in Seq(Functors)
    BY <1>4, QueueShrinks
  <2>2. QED
    BY <1>1, <2>1, OrderedRest DEF RawInv
<1>5. CASE NewConnection
  <2>1. /\ inMap' = TRUE /\ state' # "none"
        /\ ioQueue' = <<>> \/ ioQueue' = <<"connectEstablished">>
    BY <1>5 DEF NewConnection, RawInv
  <2>2. ~Has(ioQueue', "connectDestroyed") /\ First(ioQueue', InTime')
    BY <2>1 DEF Has, First
  <2>3. Ordered(ioQueue', inMap', InTime')
    BY <2>1, <2>2 DEF Ordered
  <2>4. QED
    BY <2>1, <2>3 DEF RawInv
<1>6. CASE RemoveConnectionInLoop
  <2>1. /\ ioQueue' = Append(ioQueue, "connectDestroyed") /\ inMap' = FALSE
        /\ state' = state /\ userVars' = userVars /\ baseQueue # <<>>
    BY <1>6 DEF RemoveConnectionInLoop, QueueDestroy
  <2>2. Ordered(Append(ioQueue, "connectDestroyed"), FALSE, InTime)
    BY <1>1, OrderedLonger
  <2>3. Ordered(ioQueue', inMap', InTime')
    BY <1>3, <2>1, <2>2
  <2>4. state # "none"
    BY <2>1 DEF RawInv
  <2>5. QED
    BY <1>2, <2>1, <2>3, <2>4
<1>7. CASE DestroyServer
  <2>1. /\ ~use.sameLoop /\ inMap' = FALSE /\ userVars' = userVars
        /\ state' = state /\ baseQueue' = baseQueue /\ holders' = holders
        /\ IF inMap THEN ioQueue' = Append(ioQueue, "connectDestroyed") ELSE ioQueue' = ioQueue
    BY <1>7 DEF DestroyServer, QueueDestroy, ServesElsewhere
  <2>2. CASE inMap
    <3>1. ioQueue' = Append(ioQueue, "connectDestroyed") /\ state # "none"
      BY <2>1, <2>2 DEF RawInv
    <3>2. Ordered(Append(ioQueue, "connectDestroyed"), FALSE, InTime)
      BY <1>1, OrderedLonger
    <3>3. Ordered(ioQueue', inMap', InTime')
      BY <1>3, <2>1, <3>1, <3>2
    <3>4. QED
      BY <1>2, <2>1, <3>1, <3>3
  <2>3. CASE ~inMap
    <3>1. ioQueue' = ioQueue /\ inMap' = inMap /\ InTime' = InTime /\ calling' = calling
      BY <1>1, <1>3, <2>1, <2>3 DEF userVars
    <3>2. QED
      BY <2>1, <3>1 DEF RawInv
  <2>4. QED
    BY <2>2, <2>3
<1>8. CASE Poll \/ SwapFunctors
  BY <1>8 DEF Poll, SwapFunctors, RawInv, InTime, userVars
<1>9. CASE HandleRead
  <2>1. /\ inMap' = inMap /\ userVars' = userVars /\ state # "none"
        /\ \/ ioQueue' = ioQueue
           \/ ioQueue' = Append(ioQueue, "forceCloseInLoop")
        /\ state' = state \/ state' = "kDisconnecting"
    BY <1>1, <1>9 DEF HandleRead, Handles, Alive, MessageCallback, Ops
  <2>2. Ordered(Append(ioQueue, "forceCloseInLoop"), inMap, InTime)
    BY <1>1, OrderedLonger
  <2>3. Ordered(ioQueue', inMap', InTime')
    BY <1>1, <1>3, <2>1, <2>2
  <2>4. QED
    BY <1>2, <2>1, <2>3
<1>10. CASE HandleReadEof
  <2>1. HandleClose(ioQueue) /\ userVars' = userVars /\ state # "none" /\ state' = "kDisconnected"
    BY <1>10 DEF HandleReadEof, Handles, Alive, HandleClose
  <2>2. Ordered(ioQueue', inMap', InTime)
    BY <1>1, <2>1, CloseOrders
  <2>3. Ordered(ioQueue', inMap', InTime')
    BY <1>3, <2>1, <2>2
  <2>4. QED
    BY <1>2, <2>1, <2>3
<1>11. CASE HandleWrite
  <2>1. state # "none" /\ UNCHANGED <<state, inMap, ioQueue, userVars>>
    BY <1>11 DEF HandleWrite, Handles, Alive
  <2>2. Ordered(ioQueue', inMap', InTime')
    BY <1>1, <1>3, <2>1
  <2>3. QED
    BY <1>2, <2>1, <2>2
<1>12. CASE RunConnectEstablished \/ RunConnectDestroyed \/ RunRaw
  <2>1. /\ state # "none" /\ Ordered(Tail(ioQueue), inMap, InTime)
    BY <1>4, <1>12 DEF RunConnectEstablished, RunConnectDestroyed, RunRaw
  <2>2. /\ ioQueue' = Tail(ioQueue) /\ inMap' = inMap /\ userVars' = userVars
        /\ state' = state \/ state' \in {"kConnected", "kDisconnected"}
    BY <1>12 DEF RunConnectEstablished, RunConnectDestroyed, RunRaw, ConnectDestroyed
  <2>3. Ordered(ioQueue', inMap', InTime')
    BY <1>3, <2>1, <2>2
  <2>4. QED
    BY <1>2, <2>1, <2>2, <2>3
<1>13. CASE RunForceClose
  <2>1. /\ state # "none" /\ Ordered(Tail(ioQueue), inMap, InTime) /\ Tail(ioQueue) \in Seq(Functors)
        /\ userVars' = userVars
    BY <1>4, <1>13 DEF RunForceClose
  <2>2. \/ HandleClose(Tail(ioQueue)) /\ state' = "kDisconnected"
        \/ ioQueue' = Tail(ioQueue) /\ inMap' = inMap /\ state' = state
    BY <1>13 DEF RunForceClose, HandleClose
  <2>3. Ordered(ioQueue', inMap', InTime)
    BY <1>1, <2>1, <2>2, CloseOrders
  <2>4. Ordered(ioQueue', inMap', InTime')
    BY <1>3, <2>1, <2>3
  <2>5. QED
    BY <1>2, <2>1, <2>2, <2>4
<1>14. ASSUME NEW u \in Users,
              \/ \E op \in use.userOps : Test(u, op)
              \/ SetDisconnecting(u) \/ Release(u)
       PROVE  RawInv'
  <2>1. /\ UNCHANGED <<inMap, ioQueue, overtaken>>
        /\ state' = state \/ state' = "kDisconnecting"
    BY <1>14 DEF Test, SetDisconnecting, Release, userVars
  <2>2. state # "none"
    <3>1. u \in holders \/ calling[u] # NoCall
      BY <1>14 DEF Test, SetDisconnecting, Release, NoCall
    <3>2. QED
      BY <3>1 DEF RawInv
  <2>3. Ordered(ioQueue', inMap', InTime')
    BY <1>1, <2>1 DEF InTime
  <2>4. QED
    BY <1>2, <2>1, <2>2, <2>3
<1>15. ASSUME NEW u \in Users, QueueFunctor(u)
       PROVE  RawInv'
  <2>1. PICK f \in RawFunctors \cup {"forceCloseInLoop"} :
             /\ ioQueue' = Append(ioQueue, f)
             /\ overtaken' = IF inMap THEN overtaken ELSE overtaken \cup {f}
    BY <1>15, QueuedFunctor
  <2>2. inMap' = inMap /\ state' = state /\ calling[u].next = "queue"
    BY <1>15 DEF QueueFunctor
  <2>3. state # "none"
    BY <2>2 DEF RawInv, NoCall
  <2>4. /\ InTime' \subseteq InTime /\ f \in Functors /\ f # "connectDestroyed"
        /\ "connectDestroyed" \notin InTime' /\ (f \in InTime' => inMap)
    BY <1>1, <2>1 DEF InTime, RawFunctors, Functors
  <2>5. Ordered(ioQueue, inMap, InTime')
    <3>1. HasAny(ioQueue, InTime') => HasAny(ioQueue, InTime)
      BY <2>4 DEF HasAny
    <3>2. First(ioQueue, InTime) => First(ioQueue, InTime')
      BY <2>4 DEF First
    <3>3. QED
      BY <1>1, <3>1, <3>2 DEF Ordered
  <2>6. PICK these : these = InTime'
    OBVIOUS
  <2>7. Ordered(Append(ioQueue, f), inMap, these)
    BY <1>1, <2>4, <2>5, <2>6, OrderedLonger
  <2>8. Ordered(ioQueue', inMap', InTime')
    BY <2>1, <2>2, <2>6, <2>7
  <2>9. QED
    BY <1>2, <2>2, <2>3, <2>8
<1>16. QED
  BY <1>5, <1>6, <1>7, <1>8, <1>9, <1>10, <1>11, <1>12, <1>13, <1>14, <1>15
     DEF Next, BaseLoopStep, IoLoopStep
-----------------------------------------------------------------------------
(* The invariant and what it gives.                                        *)

(* At first there is no connection.                                        *)
LEMMA FirstLife ==
  ASSUME Init
  PROVE  TcpInv
<1>1. TypeOK
  <2>1. ioQueue \in Seq(Functors) /\ Len(ioQueue) = 0
        /\ baseQueue \in Seq({"removeConnectionInLoop"}) /\ notified \in Seq({"up", "down"})
    BY DEF Init
  <2>2. batch \in 0..Len(ioQueue) /\ calls \in 0..MaxCalls
    BY <2>1, ServerAssumption DEF Init
  <2>3. /\ calling \in [Users -> {NoCall} \cup [op : Ops, next : {"set", "queue"}]]
        /\ holders \in SUBSET Users /\ reopened \in BOOLEAN /\ overtaken \in SUBSET Functors
    BY DEF Init
  <2>4. /\ use \in Uses /\ state \in States /\ events \in SUBSET Interest
        /\ index \in {"kNew", "kAdded", "kDeleted"} /\ phase \in {"events", "functors"}
        /\ revents \in SUBSET Interest /\ inMap \in BOOLEAN /\ server \in BOOLEAN
    BY DEF Init, States
  <2>5. QED
    BY <2>1, <2>2, <2>3, <2>4 DEF TypeOK
<1>2. (\A f : ~Has(ioQueue, f)) /\ DestroysOnce(ioQueue)
      /\ \A these : ~HasAny(ioQueue, these) /\ First(ioQueue, these)
  BY DEF Init, Has, HasAny, First, DestroysOnce
<1>3. \A u \in Users : calling[u] = NoCall
  BY DEF Init
<1>4. Life
  <2>1. Unborn
    BY DEF Init, Unborn
  <2>2. UsersInv
    BY <1>3 DEF Init, UsersInv, NoCall
  <2>3. QED
    BY <1>2, <2>1, <2>2 DEF Init, Life
<1>5. RawInv
  BY <1>2, <1>3 DEF Init, RawInv, Ordered
<1>6. QED
  BY <1>1, <1>4, <1>5 DEF TcpInv

(* A program uses a server in one way, and what was set back stays so.     *)
LEMMA UseStays ==
  ASSUME TypeOK, Next
  PROVE  use' = use /\ (reopened => reopened')
<1>1. ASSUME NEW u \in Users,
             \/ \E op \in use.userOps : Test(u, op)
             \/ SetDisconnecting(u) \/ QueueFunctor(u) \/ Release(u)
      PROVE  use' = use /\ (reopened => reopened')
  <2>1. CASE SetDisconnecting(u)
    <3>1. use' = use /\ reopened' = (reopened \/ state = "kDisconnected")
      BY <2>1 DEF SetDisconnecting
    <3>2. QED
      BY <3>1, Zenon
  <2>2. CASE QueueFunctor(u) \/ Release(u) \/ \E op \in use.userOps : Test(u, op)
    <3>1. use' = use /\ reopened' = reopened
      BY <2>2 DEF Test, QueueFunctor, Release, userVars
    <3>2. QED
      BY <3>1
  <2>3. QED
    BY <1>1, <2>1, <2>2
<1>2. NewConnection \/ DestroyServer \/ RemoveConnectionInLoop => use' = use /\ reopened' = reopened
  BY DEF NewConnection, DestroyServer, RemoveConnectionInLoop, userVars
<1>3. Poll \/ SwapFunctors \/ HandleRead \/ HandleReadEof \/ HandleWrite
        => use' = use /\ reopened' = reopened
  BY DEF Poll, SwapFunctors, HandleRead, HandleReadEof, HandleWrite, userVars
<1>4. RunConnectEstablished \/ RunForceClose \/ RunConnectDestroyed \/ RunRaw
        => use' = use /\ reopened' = reopened
  BY DEF RunConnectEstablished, RunForceClose, RunConnectDestroyed, RunRaw, userVars
<1>5. QED
  BY <1>1, <1>2, <1>3, <1>4 DEF Next, BaseLoopStep, IoLoopStep

(* Every step keeps it.                                                    *)
LEMMA LifeGoesOn ==
  ASSUME TcpInv, [Next]_vars
  PROVE  TcpInv'
<1>1. CASE Next
  <2>1. TypeOK'
    BY <1>1, ServerTypes, HandlerTypes, FunctorTypes, UserTypes
       DEF TcpInv, Next, BaseLoopStep, IoLoopStep
  <2>2. use' = use /\ (reopened => reopened')
    BY <1>1, UseStays DEF TcpInv
  <2>3. ASSUME SafeUse(use), ~reopened'
        PROVE  Life'
    <3>1. TypeOK /\ Life
      BY <2>2, <2>3 DEF TcpInv
    <3>2. QED
      BY <1>1, <2>3, <3>1, NewConnectionLives, RemoveLives, DestroyServerLives, PollLives, HandlerLives,
         EstablishedLives, ForceCloseLives, DestroyedLives, RawLives, UserLives
         DEF Next, BaseLoopStep, IoLoopStep
  <2>4. ServesElsewhere(use) => RawInv'
    BY <1>1, RawKept DEF TcpInv
  <2>5. QED
    BY <2>1, <2>2, <2>3, <2>4 DEF TcpInv
<1>2. CASE UNCHANGED vars
  <2>1. TypeOK'
    BY <1>2 DEF vars, loopVars, userVars, TcpInv, TypeOK
  <2>2. Life => Life'
    BY <1>2 DEF vars, loopVars, userVars, Life, UsersInv, Unborn, Opening, Open, Closed,
                InMapStill, OutOfMap, OutOfPoller
  <2>3. RawInv => RawInv'
    BY <1>2 DEF vars, userVars, RawInv, InTime
  <2>4. use' = use /\ reopened' = reopened
    BY <1>2 DEF vars, userVars
  <2>5. QED
    BY <2>1, <2>2, <2>3, <2>4 DEF TcpInv
<1>3. QED
  BY <1>1, <1>2

(* A connection that is not closed and removed from the poller is held by  *)
(* the map or by connectDestroyed.                                         *)
LEMMA HeldUntilTheEnd ==
  ASSUME TypeOK, Life, state # "none", ~Alive
  PROVE  Closed /\ OutOfPoller
<1>1. ~inMap /\ ~Holds(ioQueue)
  BY DEF Alive
<1>2. ~Has(ioQueue, "connectDestroyed") /\ ~Has(ioQueue, "connectEstablished")
  BY <1>1 DEF Holds, Has, RawFunctors
<1>3. ~Opening
  <2>1. Opening => Has(ioQueue, "connectEstablished")
    <3>1. Opening => ioQueue[1] = "connectEstablished" /\ Len(ioQueue) \in {1, 2}
      BY DEF Opening
    <3>2. QED
      BY <3>1 DEF Has
  <2>2. QED
    BY <1>2, <2>1
<1>4. QED
  BY <1>1, <1>2, <1>3 DEF Life, Unborn, Open, Closed, InMapStill, OutOfMap

(* A functor bound to a bare this that was queued while the map had the    *)
(* connection runs on a connection that is there, however its caller and   *)
(* the ends of the connection overtake each other: unless the server goes  *)
(* before its loop and serves the connection on that same loop.            *)
THEOREM RunsWhileAlive ==
  ASSUME \A w \in Uses : ServesElsewhere(w)
  PROVE  Spec => []NoDanglingThis
<1>1. ASSUME TcpInv
      PROVE  NoDanglingThis
  <2>1. SUFFICES ASSUME NEW f \in InTime, Due(f)
                 PROVE  Alive
    BY DEF NoDanglingThis, InTime
  <2>2. TypeOK /\ RawInv
    BY <1>1 DEF TcpInv, TypeOK
  <2>3. ioQueue \in Seq(Functors) /\ Head(ioQueue) = f /\ ioQueue # <<>>
    <3>1. batch > 0 /\ batch \in 0..Len(ioQueue) /\ ioQueue \in Seq(Functors) /\ Head(ioQueue) = f
      BY <2>1, <2>2 DEF Due, TypeOK
    <3>2. Len(<<>>) = 0
      OBVIOUS
    <3>3. ioQueue # <<>>
      BY <3>1, <3>2
    <3>4. QED
      BY <3>1, <3>3
  <2>4. HasAny(ioQueue, InTime)
    <3>1. Head(ioQueue) \in InTime
      BY <2>3
    <3>2. QED
      BY <2>3, <3>1, FromTheFront
  <2>5. inMap \/ Has(ioQueue, "connectDestroyed")
    BY <2>2, <2>4 DEF RawInv, Ordered
  <2>6. state # "none"
    BY <2>2, <2>3 DEF RawInv
  <2>7. QED
    BY <2>5, <2>6 DEF Alive, Holds, Has, RawFunctors
<1>2. QED
  BY <1>1, FirstLife, LifeGoesOn, PTL DEF Spec

(* A connection ends once, for the map, the poller and the user, and       *)
(* leaves nothing behind, when the server is used in safe ways and no      *)
(* caller sets state_ back.                                                *)
THEOREM OneEnd ==
  ASSUME \A w \in Uses : SafeUse(w)
  PROVE  Spec => []EndsOnce
<1>1. ASSUME TcpInv
      PROVE  EndsOnce
  <2>1. TypeOK /\ (~reopened => Life)
    BY <1>1 DEF TcpInv, TypeOK
  <2>2. ~reopened => ErasedOnce
    BY <2>1 DEF ErasedOnce, Life, Unborn, Opening, Open, Closed, InMapStill, OutOfMap, OutOfPoller
  <2>3. ~reopened => DestroyedClean
    BY <2>1, HeldUntilTheEnd DEF DestroyedClean, Closed, OutOfPoller
  <2>4. ~reopened => NotifiedOnce
    BY <2>1 DEF NotifiedOnce, Life, Unborn, Opening, Open, Closed
  <2>5. QED
    BY <2>1, <2>2, <2>3, <2>4 DEF EndsOnce
<1>2. QED
  BY <1>1, FirstLife, LifeGoesOn, PTL DEF Spec

(* A channel is removed from the poller when it watches nothing:           *)
(* assert(isNoneEvent()) at Channel.cc:46.                                 *)
THEOREM RemovedIdle ==
  ASSUME \A w \in Uses : SafeUse(w)
  PROVE  Spec => RemovesIdleChannel
<1>1. ASSUME TcpInv, [Next]_vars
      PROVE  [index # "kNew" /\ index' = "kNew" => events' = {} \/ reopened]_vars
  <2>1. SUFFICES ASSUME Next, index # "kNew", index' = "kNew", ~reopened
                 PROVE  events' = {}
    BY <1>1
  <2>2. TypeOK /\ SafeUse(use) /\ Life
    BY <1>1, <2>1 DEF TcpInv, TypeOK
  <2>3. CASE RunConnectDestroyed
    BY <2>2, <2>3, DestroyedLives
  <2>4. CASE DestroyServer
    <3>1. index' = index
      BY <2>2, <2>4 DEF DestroyServer, SafeUse
    <3>2. QED
      BY <2>1, <3>1
  <2>5. CASE ~RunConnectDestroyed /\ ~DestroyServer
    <3>1. index' = index \/ index' \in {"kAdded", "kDeleted"}
      <4>1. ASSUME NEW queue, HandleClose(queue)
            PROVE  index' \in {"kAdded", "kDeleted"}
        BY <4>1 DEF HandleClose, DisableAll, UpdateChannel
      <4>2. SendInLoop => index' = index \/ index' \in {"kAdded", "kDeleted"}
        BY DEF SendInLoop, UpdateChannel
      <4>3. HandleReadEof \/ RunForceClose => index' = index \/ index' \in {"kAdded", "kDeleted"}
        BY <4>1 DEF HandleReadEof, RunForceClose
      <4>4. HandleRead \/ RunRaw => index' = index \/ index' \in {"kAdded", "kDeleted"}
        <5>1. use.callbackOps \subseteq Ops
          BY <2>2, ServerAssumption DEF TypeOK
        <5>2. QED
          BY <4>2, <5>1 DEF HandleRead, RunRaw, MessageCallback, Ops
      <4>5. HandleWrite \/ RunConnectEstablished \/ NewConnection
              => index' = index \/ index' \in {"kAdded", "kDeleted"}
        BY DEF HandleWrite, RunConnectEstablished, NewConnection, UpdateChannel
      <4>6. Poll \/ SwapFunctors \/ RemoveConnectionInLoop => index' = index
        BY DEF Poll, SwapFunctors, RemoveConnectionInLoop
      <4>7. ASSUME NEW u \in Users,
                   \/ \E op \in use.userOps : Test(u, op)
                   \/ SetDisconnecting(u) \/ QueueFunctor(u) \/ Release(u)
            PROVE  index' = index
        BY <4>7 DEF Test, SetDisconnecting, QueueFunctor, Release
      <4>8. QED
        BY <2>1, <2>5, <4>3, <4>4, <4>5, <4>6, <4>7 DEF Next, BaseLoopStep, IoLoopStep
    <3>2. QED
      BY <2>1, <3>1
  <2>6. QED
    BY <2>3, <2>4, <2>5
<1>2. QED
  BY <1>1, FirstLife, LifeGoesOn, PTL DEF Spec, RemovesIdleChannel
-----------------------------------------------------------------------------
(* ServerStart: the server's loops, for any number of threads.             *)

Given == {"connectEstablished", "connectDestroyed"} \X Nat
Places == {"none", "begun", "initialising", "publishing", "published", "testing", "polling", "ended"}
Waits == {"latchTest", "latchWait", "loopTest", "loopWait"}
Ending == {"quit", "wakeup", "join", "gone"}

StartTypes ==
    /\ numThreads \in Sizes
    /\ loopPtr \in [Threads -> BOOLEAN]
    /\ tpc \in [Threads -> Places]
    /\ quit \in [Threads -> BOOLEAN]
    /\ pending \in [Threads -> Seq(Given)]
    /\ loops \in Seq(Threads)
    /\ loopOf \in Seq({Base} \cup Threads)
    /\ connections \subseteq 1 .. Len(loopOf)

\* How many threads the owner has created, and how many of their loops it has.
Progress(pc, n, k) ==
    \/ pc = "new" /\ n = 0 /\ k = 0
    \/ pc = "starting" /\ n \in 0 .. numThreads /\ k = n
    \/ pc \in Waits /\ n \in 1 .. numThreads /\ k = n - 1
    \/ pc \in {"serving", "destroying"} /\ n = numThreads /\ k = numThreads
    \/ pc = "quit" /\ n \in 1 .. numThreads + 1 /\ k = numThreads
    \/ pc \in {"wakeup", "join"} /\ n \in 1 .. numThreads /\ k = numThreads
    \/ pc = "gone" /\ n = numThreads + 1 /\ k = numThreads

OwnerInv ==
    /\ started <=> ownerPc # "new"
    /\ Progress(ownerPc, at, Len(loops))
    /\ \A i \in 1 .. Len(loops) : loops[i] = i
    /\ listening => ownerPc \in {"serving", "destroying"} \cup Ending

\* A thread whose loop is published has passed the callback, and ends only when it is told to.
ThreadInv ==
    \A t \in Threads :
       /\ t <= Len(loops) => loopPtr[t]
       /\ loopPtr[t] => tpc[t] \in {"published", "testing", "polling", "ended"} /\ t \in initialised
       /\ tpc[t] = "publishing" => t \in initialised
       /\ tpc[t] # "none" => t <= at \/ ownerPc \in Ending
       /\ quit[t] \/ tpc[t] = "ended" => ownerPc \in Ending /\ t <= at
       /\ pending[t] # <<>> => t <= Len(loops)

\* The loops before next_ have been given one connection more than the others.
Shares ==
    Len(loops) > 0 =>
       \E k \in Nat : \A i \in 1 .. Len(loops) : Load(i) = IF i <= next THEN k + 1 ELSE k

ShareInv ==
    /\ listening /\ numThreads = 0 => Base \in initialised
    /\ next \in Nat /\ (next = 0 \/ next < Len(loops))
    /\ ownerPc \in {"new", "starting"} \cup Waits => loopOf = <<>> /\ next = 0
    /\ \A c \in 1 .. Len(loopOf) :
          loopOf[c] \in 1 .. Len(loops) \/ (Len(loops) = 0 /\ loopOf[c] = Base)
    /\ Shares

StartInv == StartTypes /\ OwnerInv /\ ThreadInv /\ ShareInv

(* There are as many threads as the largest pool has.                      *)
LEMMA PoolSize ==
  /\ MaxSize \in Nat /\ Sizes \subseteq Nat /\ \A n \in Sizes : n <= MaxSize
  /\ Threads = 1 .. MaxSize /\ Base \notin Threads
<1>1. PICK m \in Sizes : \A n \in Sizes : n <= m
  BY PoolAssumption
<1>2. MaxSize \in Sizes /\ \A n \in Sizes : n <= MaxSize
  BY <1>1 DEF MaxSize
<1>3. MaxSize \in Nat /\ Sizes \subseteq Nat
  BY <1>2, PoolAssumption
<1>4. QED
  BY <1>2, <1>3 DEF Threads, Base

(* Among connections there is a first: the intervals that end at each are  *)
(* finite sets, and one of them contains no other.                         *)
LEMMA FirstIs ==
  ASSUME NEW S, S # {}, S \subseteq Nat
  PROVE  \E m \in S : \A y \in S : m <= y
<1> DEFINE T == {0 .. x : x \in S}
           R == StrictSubsetOrdering(Int)
<1>1. T \subseteq FiniteSubsetsOf(Int)
  <2>1. ASSUME NEW x \in S
        PROVE  0 .. x \in FiniteSubsetsOf(Int)
    <3>1. x \in Int /\ 0 \in Int
      OBVIOUS
    <3>2. IsFiniteSet(0 .. x)
      BY <3>1, FS_Interval
    <3>3. 0 .. x \in SUBSET Int
      BY <3>1
    <3>4. QED
      BY <3>2, <3>3 DEF FiniteSubsetsOf
  <2>2. QED
    BY <2>1
<1>2. IsWellFoundedOn(R, FiniteSubsetsOf(Int))
  BY FS_StrictSubsetOrderingWellFounded
<1>3. T # {}
  <2>1. PICK x \in S : TRUE
    OBVIOUS
  <2>2. 0 .. x \in T
    OBVIOUS
  <2>3. QED
    BY <2>2
<1>4. PICK n \in T : \A y \in T : ~(<<y, n>> \in R)
  <2> HIDE DEF T, R
  <2>1. QED
    BY <1>1, <1>2, <1>3, WFMin, Zenon
<1>5. PICK m \in S : n = 0 .. m
  OBVIOUS
<1>6. ASSUME NEW y \in S
      PROVE  m <= y
  <2>1. m \in Nat /\ y \in Nat
    OBVIOUS
  <2>2. ~(<<0 .. y, 0 .. m>> \in R)
    BY <1>4, <1>5
  <2>3. SUFFICES ASSUME y < m
                 PROVE  FALSE
    BY <2>1
  <2>4. 0 .. y \subseteq 0 .. m
    BY <2>1, <2>3
  <2>5. 0 .. y # 0 .. m
    BY <2>1, <2>3
  <2>6. 0 .. y \in SUBSET Int /\ 0 .. m \in SUBSET Int
    BY <2>1
  <2>7. QED
    BY <2>2, <2>4, <2>5, <2>6 DEF StrictSubsetOrdering
<1>7. QED
  BY <1>6

\* How many of the connections in an order are on one loop.
GivenTo(order, l) == Cardinality({c \in DOMAIN order : order[c] = l})

(* A connection more is on the loop it was given to, and on no other.      *)
LEMMA OneMore ==
  ASSUME NEW S, NEW order \in Seq(S), NEW chosen \in S, NEW l
  PROVE  GivenTo(Append(order, chosen), l)
           = IF l = chosen THEN GivenTo(order, l) + 1 ELSE GivenTo(order, l)
<1>0. PICK longer : longer = Append(order, chosen)
  OBVIOUS
<1>1. /\ longer \in Seq(S) /\ Len(longer) = Len(order) + 1 /\ Len(order) \in Nat
      /\ (\A i \in 1 .. Len(order) : longer[i] = order[i]) /\ longer[Len(order) + 1] = chosen
  BY <1>0, AppendProperties, LenProperties
<1>2. DOMAIN order = 1 .. Len(order) /\ DOMAIN longer = 1 .. Len(order) + 1
  BY <1>1, LenProperties
<1> DEFINE B == {c \in DOMAIN order : order[c] = l}
           A == {c \in DOMAIN longer : longer[c] = l}
<1>3. GivenTo(order, l) = Cardinality(B) /\ GivenTo(Append(order, chosen), l) = Cardinality(A)
  BY <1>0 DEF GivenTo
<1>4. IsFiniteSet(B) /\ Cardinality(B) \in Nat
  <2>1. IsFiniteSet(1 .. Len(order))
    BY <1>1, FS_Interval
  <2>2. B \in SUBSET (1 .. Len(order))
    BY <1>2
  <2> HIDE DEF B
  <2>3. QED
    BY <2>1, <2>2, FS_Subset, FS_CardinalityType
<1>5. CASE l = chosen
  <2>1. A = B \cup {Len(order) + 1}
    BY <1>1, <1>2, <1>5
  <2>2. Len(order) + 1 \notin B
    BY <1>1, <1>2
  <2> HIDE DEF A, B
  <2>3. Cardinality(A) = Cardinality(B) + 1
    BY <1>4, <2>1, <2>2, FS_AddElement
  <2>4. QED
    BY <1>3, <1>5, <2>3
<1>6. CASE l # chosen
  <2>1. A = B
    BY <1>1, <1>2, <1>6
  <2>2. QED
    BY <1>3, <1>6, <2>1
<1>7. QED
  BY <1>5, <1>6

(* The server as it is constructed.                                        *)
LEMMA StartInvHolds == StartInit => StartInv
<1> SUFFICES ASSUME StartInit
             PROVE  StartInv
  OBVIOUS
<1> USE DEF StartInit, PoolInit
<1>1. <<>> \in Seq(Threads) /\ <<>> \in Seq({Base} \cup Threads) /\ <<>> \in Seq(Given) /\ Len(<<>>) = 0
  OBVIOUS
<1>2. StartTypes
  BY <1>1 DEF StartTypes, Places
<1>3. OwnerInv
  BY DEF OwnerInv, Progress
<1>4. ThreadInv
  BY PoolSize DEF ThreadInv
<1>5. ShareInv
  BY <1>1 DEF ShareInv, Shares
<1>6. QED
  BY <1>2, <1>3, <1>4, <1>5 DEF StartInv

(* What the steps that leave the connections alone keep.                   *)
LEMMA SharesStay ==
  ASSUME StartInv, UNCHANGED <<numThreads, loops, loopOf, next, listening>>,
         initialised \subseteq initialised',
         ownerPc' \in {"new", "starting"} \cup Waits => ownerPc \in {"new", "starting"} \cup Waits
  PROVE  ShareInv'
<1>1. Shares'
  BY DEF StartInv, ShareInv, Shares, Load
<1>2. QED
  BY <1>1 DEF StartInv, ShareInv

(* The owner creates a thread, waits for it, and is given its loop.        *)
LEMMA CreatingKeeps ==
  ASSUME StartInv, CreateThread \/ TestLatch \/ TestLoop \/ SpuriousWakeup, UNCHANGED serverVars
  PROVE  StartInv'
<1> USE DEF serverVars, threadVars
<1>0. /\ StartTypes /\ OwnerInv /\ ThreadInv /\ ShareInv
      /\ numThreads \in Nat /\ numThreads <= MaxSize /\ MaxSize \in Nat /\ Threads = 1 .. MaxSize
      /\ Len(loops) \in Nat /\ at \in Nat
  <2>1. at \in Nat
    BY PoolSize DEF StartInv, StartTypes, OwnerInv, Progress
  <2>2. QED
    BY <2>1, PoolSize, LenProperties DEF StartInv, StartTypes
<1>1. CASE CreateThread
  <2>1. at + 1 \in Threads /\ Progress(ownerPc', at', Len(loops))
    BY <1>0, <1>1 DEF CreateThread, OwnerInv, Progress, Waits
  <2>2. StartTypes'
    BY <1>0, <1>1, <2>1 DEF CreateThread, StartTypes, Places
  <2>3. OwnerInv'
    BY <1>0, <1>1, <2>1 DEF CreateThread, OwnerInv, Progress, Waits, Ending
  <2>4. ThreadInv'
    <3>1. Len(loops) = at /\ ownerPc = "starting" /\ at' = at + 1 /\ ownerPc' = "latchTest"
      BY <1>0, <1>1 DEF CreateThread, OwnerInv, Progress, Waits
    <3>2. tpc[at + 1] = "none" /\ ~loopPtr[at + 1]
      BY <1>0, <2>1, <3>1 DEF ThreadInv, Ending
    <3>3. /\ tpc' = [tpc EXCEPT ![at + 1] = "begun"]
          /\ UNCHANGED <<loops, loopPtr, initialised, quit, pending>>
      BY <1>1 DEF CreateThread
    <3>4. \A t \in Threads : t # at + 1 => tpc'[t] = tpc[t]
      BY <3>3, <1>0 DEF StartTypes
    <3>5. tpc'[at + 1] = "begun"
      BY <2>1, <3>3, <1>0 DEF StartTypes
    <3>6. \A t \in Threads : t <= at => t <= at + 1
      BY <1>0
    <3>7. \A t \in Threads : ~quit[t] /\ tpc[t] # "ended"
      BY <1>0, <3>1 DEF ThreadInv, Ending
    <3>8. at + 1 <= at + 1
      BY <1>0
    <3>9. QED
      BY <1>0, <3>1, <3>2, <3>3, <3>4, <3>5, <3>6, <3>7, <3>8 DEF ThreadInv, Ending
  <2>5. ShareInv'
    BY <1>1, SharesStay DEF CreateThread
  <2>6. QED
    BY <2>2, <2>3, <2>4, <2>5 DEF StartInv
<1>2. CASE TestLatch \/ SpuriousWakeup \/ (TestLoop /\ ~LoopReady)
  <2>1. /\ ownerPc \in Waits /\ ownerPc' \in Waits
        /\ UNCHANGED <<numThreads, at, loops, next, latch, loopPtr, tpc, initialised, quit, pending>>
    BY <1>2 DEF TestLatch, SpuriousWakeup, TestLoop, Waits, Woken
  <2>2. StartTypes'
    BY <1>0, <2>1 DEF StartTypes
  <2>3. OwnerInv'
    BY <1>0, <2>1 DEF OwnerInv, Progress, Waits, Ending
  <2>4. ThreadInv'
    BY <1>0, <2>1 DEF ThreadInv, Waits, Ending
  <2>5. ShareInv'
    BY <2>1, SharesStay
  <2>6. QED
    BY <2>2, <2>3, <2>4, <2>5 DEF StartInv
<1>3. CASE TestLoop /\ LoopReady
  <2>1. /\ ownerPc = "loopTest" /\ ownerPc' = "starting" /\ loops' = Append(loops, at) /\ loopPtr[at]
        /\ UNCHANGED <<numThreads, at, next, latch, loopPtr, tpc, initialised, quit, pending>>
    BY <1>3 DEF TestLoop, LoopReady
  <2>2. at \in 1 .. numThreads /\ at \in Threads /\ Len(loops) = at - 1
    BY <1>0, <2>1 DEF OwnerInv, Progress
  <2>3. /\ loops' \in Seq(Threads) /\ Len(loops') = at /\ loops'[at] = at
        /\ \A i \in 1 .. Len(loops) : loops'[i] = loops[i]
    <3>1. loops \in Seq(Threads)
      BY <1>0 DEF StartTypes
    <3>2. /\ Append(loops, at) \in Seq(Threads) /\ Len(Append(loops, at)) = Len(loops) + 1
          /\ \A i \in 1 .. Len(loops) : Append(loops, at)[i] = loops[i]
          /\ Append(loops, at)[Len(loops) + 1] = at
      BY <2>2, <3>1, AppendProperties
    <3>3. Len(loops) + 1 = at
      BY <2>2
    <3>4. QED
      BY <2>1, <3>2, <3>3
  <2>4. StartTypes'
    BY <1>0, <2>1, <2>3 DEF StartTypes
  <2>5. OwnerInv'
    <3>1. \A i \in 1 .. at : i \in 1 .. Len(loops) \/ i = at
      BY <2>2
    <3>2. \A i \in 1 .. Len(loops') : loops'[i] = i
      BY <1>0, <2>3, <3>1 DEF OwnerInv
    <3>3. QED
      BY <1>0, <2>1, <2>2, <2>3, <3>2 DEF OwnerInv, Progress, Ending
  <2>6. ThreadInv'
    <3>1. \A t \in Threads : t <= at => t <= Len(loops) \/ t = at
      BY <1>0, <2>2
    <3>2. QED
      BY <1>0, <2>1, <2>2, <2>3, <3>1 DEF ThreadInv, Ending
  <2>7. ShareInv'
    <3>1. loopOf' = <<>> /\ next' = 0
      BY <1>0, <2>1 DEF ShareInv, Waits
    <3>2. \A l : Load(l)' = 0
      <4>1. \A l : {c \in DOMAIN <<>> : <<>>[c] = l} = {}
        OBVIOUS
      <4>2. QED
        BY <3>1, <4>1, FS_EmptySet DEF Load
    <3>3. Shares'
      <4>1. \A i \in 1 .. Len(loops') : Load(i)' = IF i <= next' THEN 0 + 1 ELSE 0
        BY <2>2, <2>3, <3>1, <3>2
      <4>2. QED
        BY <4>1 DEF Shares
    <3>4. Len(<<>>) = 0
      OBVIOUS
    <3>5. QED
      BY <1>0, <2>1, <3>1, <3>3, <3>4 DEF ShareInv, Waits
  <2>8. QED
    BY <2>4, <2>5, <2>6, <2>7 DEF StartInv
<1>4. QED
  BY <1>1, <1>2, <1>3

(* A thread goes on: it is begun, constructs its loop and publishes it,    *)
(* runs it, and ends when it finds that it has been told to.               *)
LEMMA ThreadsKeep ==
  ASSUME StartInv, NEW t \in Threads, Thread(t)
  PROVE  StartInv'
<1> USE DEF serverVars
<1>0. /\ StartTypes /\ OwnerInv /\ ThreadInv /\ ShareInv
      /\ Threads = 1 .. MaxSize /\ MaxSize \in Nat /\ t \in Nat
  BY PoolSize DEF StartInv
<1>1. ASSUME ownerPc' = ownerPc \/ (ownerPc \in Waits /\ ownerPc' \in Waits),
             UNCHANGED <<numThreads, at, loops, next, started, listening, loopOf, connections>>,
             initialised \subseteq initialised', ThreadInv', StartTypes'
      PROVE  StartInv'
  <2>1. OwnerInv'
    BY <1>0, <1>1 DEF OwnerInv, Progress, Waits, Ending
  <2>2. ShareInv'
    BY <1>1, SharesStay
  <2>3. QED
    BY <1>1, <2>1, <2>2 DEF StartInv
<1>2. CASE CountDown(t)
  <2>1. /\ tpc[t] = "begun" /\ tpc' = [tpc EXCEPT ![t] = "initialising"]
        /\ ownerPc' = ownerPc \/ (ownerPc \in Waits /\ ownerPc' \in Waits)
        /\ UNCHANGED <<numThreads, at, loops, next, loopPtr, initialised, quit, pending>>
    BY <1>2 DEF CountDown, Waits, Woken
  <2>2. StartTypes'
    BY <1>0, <1>2, <2>1 DEF StartTypes, Places, Thread
  <2>3. ThreadInv'
    BY <1>0, <2>1 DEF ThreadInv, StartTypes, Waits, Ending
  <2>4. QED
    BY <1>1, <2>1, <2>2, <2>3 DEF Thread
<1>3. CASE Initialise(t)
  <2>1. StartTypes'
    BY <1>0, <1>3 DEF Initialise, StartTypes, Places, Thread
  <2>2. ThreadInv'
    BY <1>0, <1>3 DEF Initialise, ThreadInv, StartTypes, Ending
  <2>3. QED
    BY <1>1, <1>3, <2>1, <2>2 DEF Initialise, Thread
<1>4. CASE Publish(t)
  <2>1. /\ tpc[t] = "publishing" /\ tpc' = [tpc EXCEPT ![t] = "published"]
        /\ loopPtr' = [loopPtr EXCEPT ![t] = TRUE]
        /\ ownerPc' = ownerPc \/ (ownerPc \in Waits /\ ownerPc' \in Waits)
        /\ UNCHANGED <<numThreads, at, loops, next, initialised, quit, pending>>
    BY <1>4 DEF Publish, Waits, Woken
  <2>2. StartTypes'
    BY <1>0, <2>1 DEF StartTypes, Places, Thread
  <2>3. ThreadInv'
    BY <1>0, <2>1 DEF ThreadInv, StartTypes, Waits, Ending
  <2>4. QED
    BY <1>1, <2>1, <2>2, <2>3 DEF Thread
<1>5. CASE EnterLoop(t)
  <2>1. StartTypes'
    BY <1>0, <1>5 DEF EnterLoop, StartTypes, Places, Thread
  <2>2. ThreadInv'
    BY <1>0, <1>5 DEF EnterLoop, ThreadInv, StartTypes, Ending
  <2>3. QED
    BY <1>1, <1>5, <2>1, <2>2 DEF EnterLoop, Thread
<1>6. CASE TestQuit(t)
  <2>1. StartTypes'
    BY <1>0, <1>6 DEF TestQuit, StartTypes, Places, Thread
  <2>2. ThreadInv'
    BY <1>0, <1>6 DEF TestQuit, ThreadInv, StartTypes, Ending
  <2>3. QED
    BY <1>1, <1>6, <2>1, <2>2 DEF TestQuit, Thread
<1>7. CASE RunPending(t)
  <2>1. StartTypes'
    <3>1. <<>> \in Seq(Given)
      OBVIOUS
    <3>2. QED
      BY <1>0, <1>7, <3>1 DEF RunPending, StartTypes, Places, Thread
  <2>2. ThreadInv'
    BY <1>0, <1>7 DEF RunPending, ThreadInv, StartTypes, Ending
  <2>3. QED
    BY <1>1, <1>7, <2>1, <2>2 DEF RunPending, Thread
<1>8. QED
  BY <1>2, <1>3, <1>4, <1>5, <1>6, <1>7 DEF Thread, ThreadStep

(* The owner ends the threads, one after the other, and the Acceptor.      *)
LEMMA EndingKeeps ==
  ASSUME StartInv,
         \/ (SetQuit \/ Wakeup \/ Join \/ PoolGone) /\ UNCHANGED serverVars
         \/ Destroy \/ DestroyThreads \/ CloseAcceptor
  PROVE  StartInv'
<1> USE DEF serverVars, threadVars
<1>0. /\ StartTypes /\ OwnerInv /\ ThreadInv /\ ShareInv
      /\ numThreads \in Nat /\ numThreads <= MaxSize /\ MaxSize \in Nat /\ Threads = 1 .. MaxSize
      /\ Len(loops) \in Nat
  BY PoolSize, LenProperties DEF StartInv, StartTypes
<1>1. StartTypes'
  <2>1. CASE SetQuit /\ UNCHANGED serverVars
    BY <1>0, <2>1 DEF SetQuit, StartTypes
  <2>2. CASE ~SetQuit
    BY <1>0, <2>2 DEF Wakeup, Join, PoolGone, Destroy, DestroyThreads, CloseAcceptor, StartTypes, poolVars
  <2>3. QED
    BY <2>1, <2>2 DEF SetQuit, Destroy, DestroyThreads, CloseAcceptor, poolVars
<1>2. OwnerInv'
  <2>1. CASE SetQuit \/ Wakeup \/ Join \/ PoolGone
    BY <1>0, <2>1 DEF SetQuit, Wakeup, Join, PoolGone, OwnerInv, Progress, Waits, Ending,
                      Destroy, DestroyThreads, CloseAcceptor
  <2>2. CASE Destroy \/ DestroyThreads \/ CloseAcceptor
    BY <1>0, <2>2 DEF Destroy, DestroyThreads, CloseAcceptor, OwnerInv, Progress, Waits, Ending, poolVars
  <2>3. QED
    BY <2>1, <2>2
<1>3. ThreadInv'
  <2>1. CASE SetQuit
    <3>1. at \in Threads /\ ownerPc = "quit" /\ ownerPc' = "wakeup"
      BY <1>0, <2>1 DEF SetQuit, OwnerInv, Progress, Waits
    <3>2. QED
      BY <1>0, <2>1, <3>1 DEF SetQuit, ThreadInv, StartTypes, Ending
  <2>2. CASE Wakeup \/ PoolGone
    BY <1>0, <2>2 DEF Wakeup, PoolGone, ThreadInv, Ending
  <2>3. CASE Join
    <3>1. at \in Nat
      BY <1>0, <2>3 DEF Join, OwnerInv, Progress, Waits
    <3>2. \A t \in Threads : t <= at => t <= at + 1
      BY <1>0, <3>1
    <3>3. QED
      BY <1>0, <2>3, <3>1, <3>2 DEF Join, ThreadInv, Ending
  <2>4. CASE Destroy \/ CloseAcceptor
    BY <1>0, <2>4 DEF Destroy, CloseAcceptor, ThreadInv, Ending, poolVars
  <2>5. CASE DestroyThreads
    BY <1>0, <2>5 DEF DestroyThreads, ThreadInv, Ending
  <2>6. QED
    BY <2>1, <2>2, <2>3, <2>4, <2>5
<1>4. ShareInv'
  <2>1. CASE CloseAcceptor
    <3>1. Shares'
      BY <1>0, <2>1 DEF CloseAcceptor, ShareInv, Shares, Load, poolVars
    <3>2. QED
      BY <1>0, <2>1, <3>1 DEF CloseAcceptor, ShareInv, poolVars
  <2>2. CASE ~CloseAcceptor
    BY <2>2, SharesStay DEF SetQuit, Wakeup, Join, PoolGone, Destroy, DestroyThreads, Waits
  <2>3. QED
    BY <2>1, <2>2
<1>5. QED
  BY <1>1, <1>2, <1>3, <1>4 DEF StartInv

(* A connection is accepted: it is given to the next loop, or to the base  *)
(* loop when there is no other, and the turn passes on.                    *)
LEMMA HandOverKeeps ==
  ASSUME StartInv, ownerPc = "serving", HandOver,
         UNCHANGED <<numThreads, ownerPc, at, loops, loopPtr, tpc, initialised, quit,
                     started, listening>>
  PROVE  StartInv'
<1> DEFINE N == Len(loops)
           S == {Base} \cup Threads
<1>0. /\ StartTypes /\ OwnerInv /\ ThreadInv /\ ShareInv
      /\ numThreads \in Nat /\ MaxSize \in Nat /\ Threads = 1 .. MaxSize /\ numThreads <= MaxSize
      /\ N = numThreads /\ Base \notin Threads /\ at = numThreads
  BY PoolSize DEF StartInv, StartTypes, OwnerInv, Progress, Waits
<1>1. /\ next \in Nat /\ (next = 0 \/ next < N)
      /\ (N > 0 => next + 1 \in 1 .. N /\ loops # <<>> /\ NextLoop = next + 1)
      /\ (N = 0 => loops = <<>> /\ NextLoop = Base)
      /\ NextLoop \in S
  <2>1. next \in Nat /\ (next = 0 \/ next < N)
    BY <1>0 DEF ShareInv
  <2>2. N = 0 <=> loops = <<>>
    BY <1>0, EmptySeq DEF StartTypes
  <2>3. CASE N > 0
    <3>1. next + 1 \in 1 .. N /\ loops # <<>>
      BY <1>0, <2>1, <2>2, <2>3
    <3>2. loops[next + 1] = next + 1
      BY <1>0, <3>1 DEF OwnerInv
    <3>3. next + 1 \in Threads
      BY <1>0, <3>1
    <3>4. QED
      BY <2>1, <2>3, <3>1, <3>2, <3>3 DEF NextLoop
  <2>4. CASE ~(N > 0)
    BY <1>0, <2>1, <2>2, <2>4 DEF NextLoop
  <2>5. QED
    BY <2>3, <2>4
<1>2. /\ loopOf' \in Seq(S) /\ Len(loopOf') = Len(loopOf) + 1 /\ Len(loopOf) \in Nat
      /\ \A c \in 1 .. Len(loopOf) : loopOf'[c] = loopOf[c]
      /\ loopOf'[Len(loopOf) + 1] = NextLoop
  <2>1. loopOf \in Seq(S) /\ loopOf' = Append(loopOf, NextLoop)
    BY <1>0 DEF StartTypes, HandOver
  <2> HIDE DEF S
  <2>2. QED
    BY <1>1, <2>1, AppendProperties, LenProperties
<1>3. connections' \subseteq 1 .. Len(loopOf')
  <2>1. connections' = connections \cup {Len(loopOf) + 1} /\ connections \subseteq 1 .. Len(loopOf)
    BY <1>0 DEF HandOver, Accepted, StartTypes
  <2>2. 1 .. Len(loopOf) \subseteq 1 .. Len(loopOf) + 1 /\ Len(loopOf) + 1 \in 1 .. Len(loopOf) + 1
    BY <1>2
  <2>3. QED
    BY <1>2, <2>1, <2>2
<1>4. Established(Accepted + 1) \in Given
  BY <1>2 DEF Established, Accepted, Given
<1>5. /\ pending' \in [Threads -> Seq(Given)]
      /\ \A t \in Threads : pending'[t] # <<>> => pending[t] # <<>> \/ t <= N
  <2>1. CASE N = 0
    BY <1>0, <1>1, <2>1 DEF HandOver, RunInLoop, StartTypes
  <2>2. CASE N > 0
    <3>1. NextLoop \in Threads /\ NextLoop # Base /\ NextLoop <= N
      BY <1>0, <1>1, <2>2
    <3>2. pending' = [pending EXCEPT ![NextLoop] = Append(@, Established(Accepted + 1))]
      BY <3>1 DEF HandOver, RunInLoop
    <3>3. Append(pending[NextLoop], Established(Accepted + 1)) \in Seq(Given)
      BY <1>0, <1>4, <3>1, AppendProperties DEF StartTypes
    <3>4. QED
      BY <1>0, <3>1, <3>2, <3>3 DEF StartTypes
  <2>3. N = 0 \/ N > 0
    BY <1>0
  <2>4. QED
    BY <2>1, <2>2, <2>3
<1>6. StartTypes'
  BY <1>0, <1>2, <1>3, <1>5 DEF StartTypes
<1>7. OwnerInv'
  BY <1>0 DEF OwnerInv, Progress
<1>8. ThreadInv'
  BY <1>0, <1>5 DEF ThreadInv
<1>9. Shares' /\ next' \in Nat /\ (next' = 0 \/ next' < N)
  <2>1. CASE N = 0
    BY <1>1, <2>1 DEF HandOver, GetNextLoop, Shares
  <2>2. CASE N > 0
    <3>1. PICK k \in Nat : \A i \in 1 .. N : Load(i) = IF i <= next THEN k + 1 ELSE k
      BY <1>0, <2>2 DEF ShareInv, Shares
    <3>2. next' = IF next + 1 >= N THEN 0 ELSE next + 1
      BY <1>1, <2>2 DEF HandOver, GetNextLoop, Advance
    <3>3. \A i \in 1 .. N : Load(i)' = IF i = next + 1 THEN Load(i) + 1 ELSE Load(i)
      <4>1. loopOf \in Seq(S) /\ NextLoop \in S /\ loopOf' = Append(loopOf, NextLoop)
        BY <1>0, <1>1 DEF StartTypes, HandOver
      <4> HIDE DEF S
      <4>2. ASSUME NEW i \in 1 .. N
            PROVE  Load(i)' = IF i = NextLoop THEN Load(i) + 1 ELSE Load(i)
        <5>1. GivenTo(Append(loopOf, NextLoop), i)
                = IF i = NextLoop THEN GivenTo(loopOf, i) + 1 ELSE GivenTo(loopOf, i)
          BY <4>1, OneMore
        <5>2. Load(i) = GivenTo(loopOf, i) /\ Load(i)' = GivenTo(loopOf', i)
          BY DEF Load, GivenTo
        <5>3. QED
          BY <4>1, <5>1, <5>2
      <4>3. QED
        BY <1>1, <2>2, <4>2
    <3>4. CASE next + 1 >= N
      <4>1. next' = 0 /\ \A i \in 1 .. N : Load(i)' = k + 1
        <5>1. \A i \in 1 .. N : i = next + 1 \/ i <= next
          BY <1>0, <1>1, <3>4
        <5>2. next + 1 \in 1 .. N /\ ~(next + 1 <= next)
          BY <1>1, <2>2
        <5>3. QED
          BY <3>1, <3>2, <3>3, <3>4, <5>1, <5>2
      <4>2. \A i \in 1 .. N : ~(i <= 0)
        BY <1>0
      <4>3. \E m \in Nat : \A i \in 1 .. N : Load(i)' = IF i <= next' THEN m + 1 ELSE m
        <5>1. k + 1 \in Nat
          OBVIOUS
        <5>2. QED
          BY <4>1, <4>2, <5>1
      <4>4. QED
        BY <4>1, <4>3 DEF Shares
    <3>5. CASE next + 1 < N
      <4>1. next' = next + 1
        BY <1>0, <1>1, <3>2, <3>5
      <4>2. \A i \in 1 .. N : Load(i)' = IF i <= next' THEN k + 1 ELSE k
        <5>1. \A i \in 1 .. N : i <= next + 1 <=> i <= next \/ i = next + 1
          BY <1>0, <1>1
        <5>2. ~(next + 1 <= next)
          BY <1>1
        <5>3. QED
          BY <3>1, <3>3, <4>1, <5>1, <5>2
      <4>3. QED
        <5>1. Len(loops') = N /\ next + 1 < N
          BY <3>5
        <5>2. Shares'
          BY <4>2, <5>1 DEF Shares
        <5>3. QED
          BY <1>1, <4>1, <5>1, <5>2
    <3>6. QED
      BY <1>0, <1>1, <3>4, <3>5
  <2>3. QED
    BY <1>0, <2>1, <2>2
<1>10. ShareInv'
  <2>1. \A c \in 1 .. Len(loopOf') :
           loopOf'[c] \in 1 .. Len(loops') \/ (Len(loops') = 0 /\ loopOf'[c] = Base)
    <3>1. \A c \in 1 .. Len(loopOf') : c \in 1 .. Len(loopOf) \/ c = Len(loopOf) + 1
      BY <1>2
    <3>2. NextLoop \in 1 .. N \/ (N = 0 /\ NextLoop = Base)
      BY <1>0, <1>1
    <3>3. QED
      BY <1>0, <1>2, <3>1, <3>2 DEF ShareInv
  <2>2. QED
    BY <1>0, <1>9, <2>1 DEF ShareInv, Waits
<1>11. QED
  BY <1>6, <1>7, <1>8, <1>10 DEF StartInv

(* While the server is there peers arrive, give up, are accepted or turned *)
(* away, and connections end.                                              *)
LEMMA ServingKeeps ==
  ASSUME StartInv,
         \/ Start \/ Listen \/ PollAccept \/ AcceptorReads \/ Arrive \/ GiveUp
         \/ \E c \in connections : Ends(c)
  PROVE  StartInv'
<1>0. /\ StartTypes /\ OwnerInv /\ ThreadInv /\ ShareInv
      /\ numThreads \in Nat /\ Len(loops) \in Nat
  BY PoolSize, LenProperties DEF StartInv, StartTypes
<1>1. CASE Start
  <2>1. /\ UNCHANGED <<numThreads, at, loops, next, latch, loopPtr, tpc, initialised, quit, pending,
                       listening, loopOf, connections>>
        /\ started' /\ ownerPc \in {"new", "serving"}
        /\ ownerPc' = IF started THEN ownerPc ELSE "starting"
    BY <1>1 DEF Start, threadVars
  <2>2. \/ ownerPc' = "serving" /\ ownerPc = "serving"
        \/ ownerPc' = "starting" /\ ownerPc = "new"
    BY <1>0, <2>1 DEF OwnerInv
  <2>3. StartTypes'
    BY <1>0, <2>1 DEF StartTypes
  <2>4. OwnerInv'
    BY <1>0, <2>1, <2>2 DEF OwnerInv, Progress, Waits, Ending
  <2>5. ThreadInv'
    BY <1>0, <2>1, <2>2 DEF ThreadInv, Ending
  <2>6. ShareInv'
    BY <2>1, <2>2, SharesStay
  <2>7. QED
    BY <2>3, <2>4, <2>5, <2>6 DEF StartInv
<1>2. CASE Listen
  <2>1. /\ UNCHANGED <<numThreads, at, loops, next, latch, loopPtr, tpc, quit, pending,
                       started, loopOf, connections>>
        /\ ownerPc = "starting" /\ at = numThreads /\ ownerPc' = "serving" /\ listening'
        /\ initialised \subseteq initialised' /\ (numThreads = 0 => Base \in initialised')
    BY <1>2 DEF Listen, InitialiseBase
  <2>2. StartTypes'
    BY <1>0, <2>1 DEF StartTypes
  <2>3. OwnerInv'
    BY <1>0, <2>1 DEF OwnerInv, Progress, Waits, Ending
  <2>4. ThreadInv'
    BY <1>0, <2>1 DEF ThreadInv, Ending
  <2>5. ShareInv'
    <3>1. Shares'
      BY <1>0, <2>1 DEF ShareInv, Shares, Load
    <3>2. QED
      BY <1>0, <2>1, <3>1 DEF ShareInv, Waits
  <2>6. QED
    BY <2>2, <2>3, <2>4, <2>5 DEF StartInv
<1>3. ASSUME UNCHANGED <<numThreads, ownerPc, at, loops, next, loopPtr, tpc, initialised, quit, pending,
                         started, listening, loopOf>>,
             connections' \subseteq connections
      PROVE  StartInv'
  <2>1. StartTypes'
    BY <1>0, <1>3 DEF StartTypes
  <2>2. OwnerInv'
    BY <1>0, <1>3 DEF OwnerInv, Progress
  <2>3. ThreadInv'
    BY <1>0, <1>3 DEF ThreadInv
  <2>4. ShareInv'
    BY <1>3, SharesStay
  <2>5. QED
    BY <2>1, <2>2, <2>3, <2>4 DEF StartInv
<1>4. CASE PollAccept \/ Arrive \/ GiveUp
  BY <1>3, <1>4 DEF PollAccept, Arrive, GiveUp, poolVars, threadVars
<1>5. ASSUME NEW c \in connections, Ends(c)
      PROVE  StartInv'
  BY <1>3, <1>5 DEF Ends
<1>6. CASE AcceptorReads
  <2>1. /\ UNCHANGED <<numThreads, ownerPc, at, loops, loopPtr, tpc, initialised, quit,
                       started, listening>>
        /\ ownerPc = "serving"
        /\ Accept \/ AcceptFails \/ TurnAway
    BY <1>6 DEF AcceptorReads
  <2>2. CASE Accept
    BY <2>1, <2>2, HandOverKeeps DEF Accept
  <2>3. CASE AcceptFails \/ TurnAway
    BY <1>3, <2>1, <2>3 DEF AcceptFails, TurnAway
  <2>4. QED
    BY <2>1, <2>2, <2>3
<1>7. QED
  BY <1>1, <1>2, <1>4, <1>5, <1>6

(* The server goes: each of its connections is destroyed on its loop,      *)
(* which is one that the owner has.                                        *)
LEMMA DestroyingKeeps ==
  ASSUME StartInv, DestroyConnection
  PROVE  StartInv'
<1> DEFINE c == CHOOSE d \in connections : \A e \in connections : d <= e
<1>0. /\ StartTypes /\ OwnerInv /\ ThreadInv /\ ShareInv
      /\ numThreads \in Nat /\ MaxSize \in Nat /\ Threads = 1 .. MaxSize /\ numThreads <= MaxSize
      /\ ownerPc = "destroying" /\ Len(loops) = numThreads /\ Base \notin Threads
  BY PoolSize DEF StartInv, StartTypes, OwnerInv, Progress, Waits, DestroyConnection
<1>1. connections # {} /\ connections \subseteq 1 .. Len(loopOf) /\ Len(loopOf) \in Nat
  BY <1>0, LenProperties DEF StartTypes, DestroyConnection
<1>2. c \in connections
  <2>1. connections \subseteq Nat
    BY <1>1
  <2>2. \E m \in connections : \A y \in connections : m <= y
    BY <1>1, <2>1, FirstIs
  <2>3. QED
    BY <2>2
<1>3. /\ connections' = connections \ {c} /\ RunInLoop(loopOf[c], Destroyed(c))
      /\ UNCHANGED <<numThreads, ownerPc, at, loops, next, loopPtr, tpc, initialised, quit,
                     started, listening, loopOf>>
  BY DEF DestroyConnection
<1> HIDE DEF c
<1>4. c \in 1 .. Len(loopOf) /\ Destroyed(c) \in Given
  BY <1>1, <1>2 DEF Destroyed, Given
<1>5. /\ pending' \in [Threads -> Seq(Given)]
      /\ \A t \in Threads : pending'[t] # <<>> => pending[t] # <<>> \/ t <= Len(loops)
  <2>1. CASE loopOf[c] = Base
    BY <1>0, <1>3, <2>1 DEF RunInLoop, StartTypes
  <2>2. CASE loopOf[c] # Base
    <3>1. loopOf[c] \in 1 .. Len(loops) /\ loopOf[c] \in Threads
      <4>1. loopOf[c] \in 1 .. Len(loops)
        BY <1>0, <1>4, <2>2 DEF ShareInv
      <4>2. QED
        BY <1>0, <4>1
    <3>2. pending' = [pending EXCEPT ![loopOf[c]] = Append(@, Destroyed(c))]
      BY <1>3, <2>2 DEF RunInLoop
    <3>3. Append(pending[loopOf[c]], Destroyed(c)) \in Seq(Given)
      BY <1>0, <1>4, <3>1, AppendProperties DEF StartTypes
    <3>4. loopOf[c] <= Len(loops)
      BY <1>0, <3>1
    <3>5. QED
      BY <1>0, <3>1, <3>2, <3>3, <3>4 DEF StartTypes
  <2>3. QED
    BY <2>1, <2>2
<1>6. StartTypes'
  BY <1>0, <1>3, <1>5 DEF StartTypes
<1>7. OwnerInv'
  BY <1>0, <1>3 DEF OwnerInv, Progress
<1>8. ThreadInv'
  BY <1>0, <1>3, <1>5 DEF ThreadInv
<1>9. ShareInv'
  BY <1>3, SharesStay
<1>10. QED
  BY <1>6, <1>7, <1>8, <1>9 DEF StartInv

(* Every step of the server keeps the invariant.                           *)
LEMMA StartGoesOn ==
  StartInv /\ [StartNext]_startVars => StartInv'
<1> SUFFICES ASSUME StartInv, [StartNext]_startVars
             PROVE  StartInv'
  OBVIOUS
<1>1. CASE UNCHANGED startVars
  <2> USE <1>1 DEF startVars, poolVars, threadVars, serverVars
  <2>1. StartTypes' /\ OwnerInv' /\ ThreadInv'
    BY DEF StartInv, StartTypes, OwnerInv, Progress, ThreadInv
  <2>2. ShareInv'
    BY SharesStay
  <2>3. QED
    BY <2>1, <2>2 DEF StartInv
<1>2. CASE Owner
  <2>1. CASE OwnerStep /\ UNCHANGED serverVars
    BY <2>1, CreatingKeeps, EndingKeeps DEF OwnerStep
  <2>2. CASE ~(OwnerStep /\ UNCHANGED serverVars)
    BY <1>2, <2>2, ServingKeeps, DestroyingKeeps, EndingKeeps DEF Owner
  <2>3. QED
    BY <2>1, <2>2
<1>3. CASE Environment
  BY <1>3, CreatingKeeps, ServingKeeps, EndingKeeps DEF Environment
<1>4. CASE \E t \in Threads : Thread(t)
  BY <1>4, ThreadsKeep
<1>5. QED
  BY <1>1, <1>2, <1>3, <1>4 DEF StartNext

(* A loop that startLoop() has returned is there, constructed and passed   *)
(* to the callback, until its thread is told to end; no functor is given   *)
(* to another loop, and no loop is given two connections more than another *)
(* (EventLoopThreadPool::getNextLoop, EventLoopThread::startLoop).         *)
THEOREM LoopsStayUsable == StartSpec => []LoopsUsable
<1>1. StartInv => LoopsUsable
  <2> SUFFICES ASSUME StartInv
               PROVE  LoopsUsable
    OBVIOUS
  <2>0. /\ StartTypes /\ OwnerInv /\ ThreadInv /\ ShareInv
        /\ Len(loops) \in Nat /\ DOMAIN loops = 1 .. Len(loops)
        /\ Threads = 1 .. MaxSize /\ MaxSize \in Nat
    BY PoolSize, LenProperties DEF StartInv, StartTypes
  <2>1. \A i \in DOMAIN loops : loops[i] = i /\ i \in Threads /\ i <= Len(loops)
    BY <2>0, ElementOfSeq DEF OwnerInv, StartTypes
  <2>2. ASSUME NEW i \in DOMAIN loops
        PROVE  LET t == loops[i] IN
               /\ t = i /\ loopPtr[t] /\ t \in initialised
               /\ ownerPc \in {"starting", "latchTest", "latchWait", "loopTest", "loopWait", "serving",
                               "destroying"} => LoopAlive(t)
               /\ ownerPc \in {"quit", "wakeup", "join"} /\ t > at => LoopAlive(t)
    <3>1. loopPtr[i] /\ i \in initialised
      BY <2>0, <2>1 DEF ThreadInv
    <3>2. tpc[i] # "ended" => LoopAlive(i)
      BY <2>0, <2>1, <3>1 DEF ThreadInv, LoopAlive, InLoop
    <3>3. tpc[i] = "ended" => ownerPc \in Ending /\ i <= at
      BY <2>0, <2>1 DEF ThreadInv
    <3>4. ownerPc \in {"quit", "wakeup", "join"} => at \in Nat
      <4>1. numThreads \in Nat
        BY <2>0, PoolSize DEF StartTypes
      <4>2. ownerPc \in {"quit", "wakeup", "join"} =>
               at \in 1 .. numThreads + 1 \/ at \in 1 .. numThreads
        BY <2>0 DEF OwnerInv, Progress, Waits
      <4>3. QED
        BY <4>1, <4>2
    <3>5. i \in Nat
      BY <2>0, <2>1
    <3>6. QED
      BY <2>1, <3>1, <3>2, <3>3, <3>4, <3>5 DEF Ending
  <2>3. \A t \in Threads : pending[t] # <<>> => t \in {loops[i] : i \in DOMAIN loops}
    <3>1. ASSUME NEW t \in Threads, pending[t] # <<>>
          PROVE  t \in DOMAIN loops
      BY <2>0, <3>1 DEF ThreadInv
    <3>2. QED
      BY <2>1, <3>1
  <2>4. Balanced
    <3>1. CASE Len(loops) > 0
      <4>1. PICK k \in Nat : \A i \in 1 .. Len(loops) : Load(i) = IF i <= next THEN k + 1 ELSE k
        BY <2>0, <3>1 DEF ShareInv, Shares
      <4>2. \A i \in DOMAIN loops : Load(loops[i]) = k \/ Load(loops[i]) = k + 1
        BY <2>0, <2>1, <4>1
      <4>3. QED
        BY <4>2 DEF Balanced
    <3>2. CASE ~(Len(loops) > 0)
      BY <2>0, <3>2 DEF Balanced
    <3>3. QED
      BY <3>1, <3>2
  <2>5. QED
    BY <2>0, <2>2, <2>3, <2>4 DEF LoopsUsable, ShareInv
<1>2. QED
  BY <1>1, StartInvHolds, StartGoesOn, PTL DEF StartSpec
============================================================================
