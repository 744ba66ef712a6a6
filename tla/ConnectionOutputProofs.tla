----------------------- MODULE ConnectionOutputProofs -----------------------
(***************************************************************************)
(* Theorems about ConnectionOutput, for every size of messages and files,  *)
(* every number of them and every high-water mark, whatever the callers    *)
(* start while something else goes out.                                    *)
(***************************************************************************)
EXTENDS ConnectionOutput, SequenceTheorems, TLAPS

\* The names of the functors in a queue.
Names(q) == {q[i][1] : i \in DOMAIN q}

Functors == ({"send"} \X Messages)
            \cup ({"sendFile", "shutdown", "writeComplete", "highWater"} \X {0})

\* No functor of sendFile is behind that of shutdown.
FilesFirst(q) == \A i, j \in DOMAIN q : i < j /\ q[i][1] = "shutdown" => q[j][1] # "sendFile"

(* The watch on the socket, also of a connection that is broken: only      *)
(* handleClose and a write that leaves nothing end it.                     *)
Watched ==
    /\ writing => outBuf # <<>> \/ sendLen > 0
    /\ outBuf # <<>> /\ state # "kDisconnected" => writing

(* One file at a time: it is in sendFd_ and sendLen_ from its call on, and *)
(* whole until the loop comes to it.                                       *)
FilesApart ==
    "file" \notin overlaps =>
        /\ filing # {} => filing = {sendFd} /\ sendLen = 0 /\ ~begun /\ ~Queued("sendFile")
        /\ filing # {} \/ sendLen > 0 => sendFd \in openFds
        /\ ~begun /\ sendLen > 0 => sendLen = Size
        /\ ~begun /\ sendLen = 0 /\ filing = {} => sendFd = NoFile

(* Files before shutdown(), in the callers' threads and in the queue.      *)
ShutdownLast ==
    /\ shut \/ Queued("shutdown") => state # "kConnected"
    /\ "shutdown" \notin overlaps =>
         /\ state = "kDisconnecting" => filing = {}
         /\ state # "kDisconnected" => FilesFirst(queue)

OutputInv == /\ TypeOK
             /\ NothingLostOrReordered
             /\ Watched /\ WatchesWhenNeeded
             /\ FilesApart /\ OpenFileIsKnown
             /\ ShutdownLast /\ ShutAfterDrained
-----------------------------------------------------------------------------
(* Sequences of units.                                                     *)

(* A sequence is what a write takes of it, and what it leaves.             *)
LEMMA SplitSeq ==
  ASSUME NEW S, NEW s \in Seq(S), NEW n \in 0 .. Len(s)
  PROVE  /\ SubSeq(s, 1, n) \in Seq(S) /\ SubSeq(s, n + 1, Len(s)) \in Seq(S)
         /\ s = SubSeq(s, 1, n) \o SubSeq(s, n + 1, Len(s))
         /\ Len(SubSeq(s, n + 1, Len(s))) = Len(s) - n
<1>1. Len(s) \in Nat
  BY LenProperties
<1>2. \A i \in 1 .. Len(s) : s[i] \in S
  BY ElementOfSeq
<1>3. SubSeq(s, 1, n) \in Seq(S)
  BY <1>1, <1>2, SubSeqProperties
<1>4. SubSeq(s, n + 1, Len(s)) \in Seq(S) /\ Len(SubSeq(s, n + 1, Len(s))) = Len(s) - n
  <2>1. n + 1 \in Int /\ Len(s) \in Int /\ \A i \in n + 1 .. Len(s) : s[i] \in S
    BY <1>1, <1>2
  <2>2. /\ SubSeq(s, n + 1, Len(s)) \in Seq(S)
        /\ Len(SubSeq(s, n + 1, Len(s))) = IF n + 1 <= Len(s) THEN Len(s) - (n + 1) + 1 ELSE 0
    BY <2>1, SubSeqProperties
  <2>3. QED
    BY <1>1, <2>2
<1>5. SubSeq(s, 1, n) \o SubSeq(s, n + 1, Len(s)) = SubSeq(s, 1, Len(s))
  <2>1. 1 \in 1 .. Len(s) + 1 /\ n \in 1 - 1 .. Len(s) /\ Len(s) \in n .. Len(s)
    BY <1>1
  <2>2. QED
    BY <2>1, ConcatAdjacentSubSeq
<1>6. QED
  BY <1>3, <1>4, <1>5, SubSeqFull

(* From(id, k) are the last Size - k + 1 units; what is written of them    *)
(* leaves those from a later one on.                                       *)
LEMMA FromSplits ==
  ASSUME NEW id \in Messages \cup FileIds,
         NEW k \in 1 .. Size + 1, NEW n \in 0 .. Size - k + 1
  PROVE  /\ From(id, k) \in Seq(Units) /\ Len(From(id, k)) = Size - k + 1
         /\ SubSeq(From(id, k), 1, n) \in Seq(Units)
         /\ From(id, k + n) \in Seq(Units) /\ Len(From(id, k + n)) = Size - k - n + 1
         /\ From(id, k) = SubSeq(From(id, k), 1, n) \o From(id, k + n)
<1>1. ASSUME NEW j \in 1 .. Size + 1
      PROVE  From(id, j) \in Seq(Units) /\ Len(From(id, j)) = Size - j + 1
  <2>1. Size - j + 1 \in Nat /\ Size \in Nat
    BY OutputAssumption
  <2>2. From(id, j) \in [1 .. Size - j + 1 -> Units]
    BY <2>1 DEF From, Units
  <2>3. From(id, j) \in Seq(Units)
    BY <2>1, <2>2, SeqDef, Zenon
  <2>4. Len(From(id, j)) \in Nat /\ DOMAIN From(id, j) = 1 .. Len(From(id, j))
    BY <2>3, LenProperties
  <2>5. 1 .. Len(From(id, j)) = 1 .. Size - j + 1
    BY <2>2, <2>4
  <2>6. QED
    BY <2>1, <2>3, <2>4, <2>5
<1>2. k + n \in 1 .. Size + 1 /\ Size \in Nat
  BY OutputAssumption
<1>3. From(id, k) \in Seq(Units) /\ Len(From(id, k)) = Size - k + 1
  BY <1>1
<1>4. From(id, k + n) \in Seq(Units) /\ Len(From(id, k + n)) = Size - (k + n) + 1
  BY <1>1, <1>2
<1>5. n \in 0 .. Len(From(id, k))
  BY <1>3
<1> DEFINE rest == SubSeq(From(id, k), n + 1, Len(From(id, k)))
<1>6. /\ SubSeq(From(id, k), 1, n) \in Seq(Units) /\ rest \in Seq(Units)
      /\ From(id, k) = SubSeq(From(id, k), 1, n) \o rest
      /\ Len(rest) = Len(From(id, k)) - n
  BY <1>3, <1>5, SplitSeq
<1>7. rest = From(id, k + n)
  <2>1. Len(rest) = Len(From(id, k + n))
    BY <1>2, <1>3, <1>4, <1>6
  <2>2. ASSUME NEW i \in 1 .. Len(rest)
        PROVE  rest[i] = From(id, k + n)[i]
    <3>1. n + 1 \in Int /\ Len(From(id, k)) \in Int
          /\ \A m \in n + 1 .. Len(From(id, k)) : From(id, k)[m] \in Units
      BY <1>2, <1>3, ElementOfSeq
    <3>2. i \in 1 .. Len(From(id, k)) - (n + 1) + 1
      BY <1>2, <1>3, <1>6
    <3>3. rest[i] = From(id, k)[n + 1 + i - 1]
      BY <3>1, <3>2, SubSeqProperties
    <3>4. n + 1 + i - 1 \in 1 .. Size - k + 1 /\ i \in 1 .. Size - (k + n) + 1
      BY <1>2, <1>3, <1>6
    <3>5. From(id, k)[n + 1 + i - 1] = <<id, k + (n + 1 + i - 1) - 1>>
      BY <3>4 DEF From
    <3>6. From(id, k + n)[i] = <<id, k + n + i - 1>>
      BY <3>4 DEF From
    <3>7. k + (n + 1 + i - 1) - 1 = k + n + i - 1
      BY <1>2, <3>4
    <3>8. QED
      BY <3>3, <3>5, <3>6, <3>7
  <2>3. QED
    BY <1>4, <1>6, <2>1, <2>2, SeqEqual
<1>8. Len(From(id, k + n)) = Size - k - n + 1
  BY <1>2, <1>4
<1>9. From(id, k) = SubSeq(From(id, k), 1, n) \o From(id, k + n)
  BY <1>6, <1>7
<1>10. QED
  BY <1>3, <1>4, <1>6, <1>8, <1>9

(* There is nothing behind the last unit.                                  *)
LEMMA NothingLeft ==
  ASSUME NEW id
  PROVE  From(id, Size + 1) = <<>>
<1>1. Size - (Size + 1) + 1 = 0 /\ 1 .. 0 = {}
  BY OutputAssumption
<1>2. From(id, Size + 1) \in [1 .. 0 -> {}]
  BY <1>1 DEF From
<1>3. From(id, Size + 1) \in Seq({})
  BY <1>2, SeqDef, Zenon
<1>4. DOMAIN From(id, Size + 1) = 1 .. Len(From(id, Size + 1)) /\ Len(From(id, Size + 1)) \in Nat
  BY <1>3, LenProperties
<1>5. Len(From(id, Size + 1)) = 0
  BY <1>2, <1>4
<1>6. QED
  BY <1>3, <1>5, EmptySeq

(* What is put in front can be taken off again.                            *)
LEMMA TakenOff ==
  ASSUME NEW S, NEW s \in Seq(S), NEW t \in Seq(S)
  PROVE  /\ SubSeq(t \o s, 1, Len(t)) = t
         /\ SubSeq(t \o s, Len(t) + 1, Len(t \o s)) = s
<1>1. /\ t \o s \in Seq(S) /\ Len(t \o s) = Len(t) + Len(s)
      /\ Len(t) \in Nat /\ Len(s) \in Nat
      /\ \A i \in 1 .. Len(t) + Len(s) : (t \o s)[i] = IF i <= Len(t) THEN t[i] ELSE s[i - Len(t)]
  BY ConcatProperties, LenProperties
<1>2. \A i \in 1 .. Len(t \o s) : (t \o s)[i] \in S
  BY <1>1, ElementOfSeq
<1>3. SubSeq(t \o s, 1, Len(t)) = t
  <2>1. 1 \in Int /\ Len(t) \in Int /\ \A i \in 1 .. Len(t) : (t \o s)[i] \in S
    BY <1>1, <1>2
  <2>2. /\ SubSeq(t \o s, 1, Len(t)) \in Seq(S)
        /\ Len(SubSeq(t \o s, 1, Len(t))) = Len(t)
        /\ \A i \in 1 .. Len(t) : SubSeq(t \o s, 1, Len(t))[i] = (t \o s)[i]
    <3>1. /\ SubSeq(t \o s, 1, Len(t)) \in Seq(S)
          /\ Len(SubSeq(t \o s, 1, Len(t))) = IF 1 <= Len(t) THEN Len(t) - 1 + 1 ELSE 0
          /\ \A i \in 1 .. Len(t) - 1 + 1 : SubSeq(t \o s, 1, Len(t))[i] = (t \o s)[1 + i - 1]
      BY <2>1, SubSeqProperties
    <3>2. QED
      BY <1>1, <3>1
  <2>3. \A i \in 1 .. Len(t) : SubSeq(t \o s, 1, Len(t))[i] = t[i]
    BY <1>1, <2>2
  <2>4. QED
    BY <2>2, <2>3, SeqEqual
<1>4. SubSeq(t \o s, Len(t) + 1, Len(t \o s)) = s
  <2> DEFINE r == SubSeq(t \o s, Len(t) + 1, Len(t \o s))
  <2>1. Len(t) + 1 \in Int /\ Len(t \o s) \in Int
        /\ \A i \in Len(t) + 1 .. Len(t \o s) : (t \o s)[i] \in S
    BY <1>1, <1>2
  <2>2. /\ r \in Seq(S)
        /\ Len(r) = IF Len(t) + 1 <= Len(t \o s) THEN Len(t \o s) - (Len(t) + 1) + 1 ELSE 0
        /\ \A i \in 1 .. Len(t \o s) - (Len(t) + 1) + 1 : r[i] = (t \o s)[Len(t) + 1 + i - 1]
    BY <2>1, SubSeqProperties
  <2> HIDE DEF r
  <2>3. Len(r) = Len(s)
    BY <1>1, <2>2
  <2>4. ASSUME NEW i \in 1 .. Len(r)
        PROVE  r[i] = s[i]
    <3>1. i \in 1 .. Len(t \o s) - (Len(t) + 1) + 1 /\ Len(t) + 1 + i - 1 = Len(t) + i
          /\ Len(t) + i \in 1 .. Len(t) + Len(s) /\ ~(Len(t) + i <= Len(t)) /\ (Len(t) + i) - Len(t) = i
      BY <1>1, <2>3
    <3>2. r[i] = (t \o s)[Len(t) + i]
      BY <2>2, <3>1
    <3>3. QED
      BY <1>1, <3>1, <3>2
  <2>5. r = s
    BY <2>2, <2>3, <2>4, SeqEqual
  <2>6. QED
    BY <2>5 DEF r
<1>5. QED
  BY <1>3, <1>4

(* Concatenation of units is associative.                                  *)
LEMMA Regrouped ==
  ASSUME NEW a \in Seq(Units), NEW b \in Seq(Units), NEW c \in Seq(Units)
  PROVE  (a \o b) \o c = a \o (b \o c)
BY ConcatAssociative
-----------------------------------------------------------------------------
(* The order of the units.                                                 *)

\* What is due of a kind when a step takes up some units, and what the socket then takes of it.
Due(k, kind, new) == IF k \in {kind, "both"} THEN owed[k] \o new ELSE owed[k]
Out(k, kind, taken) == IF k \in {kind, "both"} THEN taken ELSE <<>>

\* Each kind owes the rest when the socket takes what is due first.
RestIsOwed(kind, new, taken) ==
    /\ \A k \in Kinds : \A rest \in Seq(Units) :
         k \in Followed' /\ Due(k, kind, new) = Out(k, kind, taken) \o rest => owed'[k] = rest
    /\ ~astray /\ (\A k \in Followed' : \E rest \in Seq(Units) :
                      Due(k, kind, new) = Out(k, kind, taken) \o rest) => ~astray'

(* When the socket takes what is due first, the rest is owed, in order.    *)
LEMMA MovesInOrder ==
  ASSUME NEW kind \in {"messages", "files"}, NEW new \in Seq(Units), NEW taken \in Seq(Units),
         owed \in [Kinds -> Seq(Units)], astray \in BOOLEAN,
         Moves(kind, new, taken)
  PROVE  /\ owed' \in [Kinds -> Seq(Units)] /\ astray' \in BOOLEAN
         /\ RestIsOwed(kind, new, taken)
<1>1. ASSUME NEW k \in Kinds
      PROVE  Due(k, kind, new) \in Seq(Units) /\ Out(k, kind, taken) \in Seq(Units)
  <2>1. owed[k] \in Seq(Units) /\ <<>> \in Seq(Units)
    BY EmptySeq
  <2>2. owed[k] \o new \in Seq(Units)
    BY <2>1, ConcatProperties
  <2>3. QED
    BY <2>1, <2>2 DEF Due, Out
<1>2. /\ owed' = [k \in Kinds |->
                     IF k \in Followed'
                     THEN SubSeq(Due(k, kind, new), Len(Out(k, kind, taken)) + 1, Len(Due(k, kind, new)))
                     ELSE <<>>]
      /\ astray' = (astray \/ \E k \in Followed' :
                       SubSeq(Due(k, kind, new), 1, Len(Out(k, kind, taken))) # Out(k, kind, taken))
  BY Zenon DEF Moves, Due, Out
<1>3. owed' \in [Kinds -> Seq(Units)]
  <2>1. ASSUME NEW k \in Kinds
        PROVE  SubSeq(Due(k, kind, new), Len(Out(k, kind, taken)) + 1, Len(Due(k, kind, new))) \in Seq(Units)
    <3> DEFINE d == Due(k, kind, new)
               m == Len(Out(k, kind, taken)) + 1
    <3>1. d \in Seq(Units) /\ m \in Int /\ m >= 1 /\ Len(d) \in Nat
      <4>1. Len(Out(k, kind, taken)) \in Nat
        BY <1>1, LenProperties
      <4>2. QED
        BY <1>1, <4>1, LenProperties
    <3>2. \A i \in m .. Len(d) : d[i] \in Units
      <4>1. \A i \in 1 .. Len(d) : d[i] \in Units
        BY <3>1, ElementOfSeq
      <4> HIDE DEF d, m
      <4>2. QED
        BY <3>1, <4>1
    <3> HIDE DEF d, m
    <3>3. SubSeq(d, m, Len(d)) \in Seq(Units)
      BY <3>1, <3>2, SubSeqProperties
    <3>4. QED
      BY <3>3 DEF d, m
  <2>2. <<>> \in Seq(Units)
    BY EmptySeq
  <2>3. QED
    BY <1>2, <2>1, <2>2, Zenon
<1>4. ASSUME NEW k \in Kinds, NEW rest \in Seq(Units), k \in Followed',
             Due(k, kind, new) = Out(k, kind, taken) \o rest
      PROVE  /\ owed'[k] = rest
             /\ SubSeq(Due(k, kind, new), 1, Len(Out(k, kind, taken))) = Out(k, kind, taken)
  <2>1. Out(k, kind, taken) \in Seq(Units)
    BY <1>1
  <2>2. /\ SubSeq(Out(k, kind, taken) \o rest, 1, Len(Out(k, kind, taken))) = Out(k, kind, taken)
        /\ SubSeq(Out(k, kind, taken) \o rest, Len(Out(k, kind, taken)) + 1,
                  Len(Out(k, kind, taken) \o rest)) = rest
    BY <2>1, TakenOff, Zenon
  <2>3. owed'[k] = SubSeq(Due(k, kind, new), Len(Out(k, kind, taken)) + 1, Len(Due(k, kind, new)))
    BY <1>2, <1>4, Zenon
  <2>4. QED
    BY <1>4, <2>2, <2>3, Zenon
<1>5. Followed' \subseteq Kinds
  BY DEF Followed, Kinds
<1>6. astray' \in BOOLEAN
  BY <1>2
<1>7. ASSUME ~astray, \A k \in Followed' : \E rest \in Seq(Units) :
                         Due(k, kind, new) = Out(k, kind, taken) \o rest
      PROVE  ~astray'
  <2>1. \A k \in Followed' :
           SubSeq(Due(k, kind, new), 1, Len(Out(k, kind, taken))) = Out(k, kind, taken)
    BY <1>4, <1>5, <1>7, Zenon
  <2>2. QED
    BY <1>2, <1>7, <2>1, Zenon
<1>8. QED
  BY <1>3, <1>4, <1>6, <1>7, Zenon DEF RestIsOwed

(* What is followed, before a step that may mark an overlap and after it.  *)
LEMMA FollowedKinds ==
  /\ "messages" \in Followed /\ "messages" \in Followed'
  /\ "files" \in Followed <=> "file" \notin overlaps
  /\ "both" \in Followed <=> "file" \notin overlaps /\ "message" \notin overlaps
  /\ "files" \in Followed' <=> "file" \notin overlaps'
  /\ "both" \in Followed' <=> "file" \notin overlaps' /\ "message" \notin overlaps'
  /\ Followed' \subseteq {"messages", "files", "both"}
<1>1. "messages" # "files" /\ "messages" # "both" /\ "files" # "both"
  OBVIOUS
<1>2. overlaps \cap {"message", "file"} = {} <=> "file" \notin overlaps /\ "message" \notin overlaps
  OBVIOUS
<1>3. (overlaps \cap {"message", "file"} = {})' <=> "file" \notin overlaps' /\ "message" \notin overlaps'
  OBVIOUS
<1>4. QED
  BY <1>1, <1>2, <1>3 DEF Followed

(* There is nothing owed of a file that does not go out.                   *)
LEMMA NothingGoesOut ==
  ASSUME TypeOK, ~FileGoesOut
  PROVE  FileRest = <<>>
<1>1. sendLen \in 0 .. Size /\ Size \in Nat
  BY OutputAssumption DEF TypeOK
<1>2. ~begun \/ sendLen = 0
  BY <1>1 DEF FileGoesOut
<1>3. sendLen = 0 => Size - sendLen + 1 = Size + 1
  BY <1>1
<1>4. QED
  BY <1>2, <1>3, NothingLeft DEF FileRest

(* A message, or a write of the buffer: the file has to wait.              *)
LEMMA MessageMoves ==
  ASSUME TypeOK, NothingLostOrReordered, overlaps \subseteq overlaps',
         NEW new \in Seq(Units), NEW taken \in Seq(Units), Moves("messages", new, taken),
         outBuf' \in Seq(Units), FileRest' = FileRest,
         outBuf \o new = taken \o outBuf',
         "message" \notin overlaps' => new = <<>> \/ FileRest = <<>>
  PROVE  owed' \in [Kinds -> Seq(Units)] /\ astray' \in BOOLEAN /\ NothingLostOrReordered'
<1>1. owed \in [Kinds -> Seq(Units)] /\ astray \in BOOLEAN /\ outBuf \in Seq(Units)
  BY DEF TypeOK
<1>2. /\ owed' \in [Kinds -> Seq(Units)] /\ astray' \in BOOLEAN
      /\ RestIsOwed("messages", new, taken)
  BY <1>1, MovesInOrder
<1>3. Due("messages", "messages", new) = Out("messages", "messages", taken) \o outBuf'
  <2>1. owed["messages"] = outBuf
    BY DEF NothingLostOrReordered
  <2>2. QED
    BY <2>1 DEF Due, Out
<1>4. ASSUME "files" \in Followed'
      PROVE  /\ FileRest \in Seq(Units) /\ owed["files"] = FileRest
             /\ Due("files", "messages", new) = Out("files", "messages", taken) \o FileRest'
  <2>1. "files" \in Followed
    BY <1>4, FollowedKinds
  <2>2. owed["files"] = FileRest /\ FileRest \in Seq(Units)
    BY <1>1, <2>1 DEF NothingLostOrReordered, Kinds
  <2>3. <<>> \o FileRest = FileRest
    BY <2>2, ConcatEmptySeq
  <2>4. QED
    BY <2>2, <2>3 DEF Due, Out
<1>5. ASSUME "both" \in Followed'
      PROVE  /\ FileRest \in Seq(Units)
             /\ Due("both", "messages", new) = Out("both", "messages", taken) \o (outBuf' \o FileRest')
  <2>1. "both" \in Followed /\ "files" \in Followed' /\ "message" \notin overlaps'
    BY <1>5, FollowedKinds
  <2>2. owed["both"] = outBuf \o FileRest /\ FileRest \in Seq(Units)
    BY <1>4, <2>1 DEF NothingLostOrReordered
  <2>3. (outBuf \o FileRest) \o new = (outBuf \o new) \o FileRest
    <3>1. CASE new = <<>>
      <4>1. outBuf \o FileRest \in Seq(Units)
        BY <1>1, <2>2, ConcatProperties
      <4>2. QED
        BY <1>1, <2>2, <3>1, <4>1, ConcatEmptySeq
    <3>2. CASE FileRest = <<>>
      <4>1. outBuf \o new \in Seq(Units)
        BY <1>1, ConcatProperties
      <4>2. QED
        BY <1>1, <3>2, <4>1, ConcatEmptySeq
    <3>3. QED
      BY <2>1, <3>1, <3>2
  <2>4. (taken \o outBuf') \o FileRest = taken \o (outBuf' \o FileRest)
    BY <1>1, <2>2, Regrouped, Zenon
  <2>5. QED
    BY <2>2, <2>3, <2>4 DEF Due, Out
<1>6. owed'["messages"] = outBuf'
  BY <1>2, <1>3, FollowedKinds DEF Kinds, RestIsOwed
<1>7. "files" \in Followed' => owed'["files"] = FileRest'
  BY <1>2, <1>4 DEF Kinds, RestIsOwed
<1>8. "both" \in Followed' => owed'["both"] = outBuf' \o FileRest'
  <2>1. "both" \in Followed' => outBuf' \o FileRest' \in Seq(Units)
    BY <1>5, ConcatProperties
  <2>2. QED
    BY <1>2, <1>5, <2>1 DEF Kinds, RestIsOwed
<1>9. ~astray'
  <2>1. \A k \in Followed' : \E rest \in Seq(Units) :
           Due(k, "messages", new) = Out(k, "messages", taken) \o rest
    <3>1. "files" \in Followed' => FileRest' \in Seq(Units)
      BY <1>4
    <3>2. "both" \in Followed' => outBuf' \o FileRest' \in Seq(Units)
      BY <1>5, ConcatProperties
    <3>3. QED
      BY <1>3, <1>4, <1>5, <3>1, <3>2, FollowedKinds, Zenon
  <2>2. QED
    BY <1>2, <2>1 DEF NothingLostOrReordered, RestIsOwed
<1>10. QED
  BY <1>2, <1>6, <1>7, <1>8, <1>9, Zenon DEF NothingLostOrReordered

(* A file, or a write of it: there is nothing in the buffer when the       *)
(* socket takes some of it.                                                *)
LEMMA FileMoves ==
  ASSUME TypeOK, NothingLostOrReordered, overlaps \subseteq overlaps',
         NEW new \in Seq(Units), NEW taken \in Seq(Units), Moves("files", new, taken),
         UNCHANGED outBuf, taken = <<>> \/ outBuf = <<>>,
         "file" \notin overlaps' => FileRest' \in Seq(Units) /\ FileRest \o new = taken \o FileRest'
  PROVE  owed' \in [Kinds -> Seq(Units)] /\ astray' \in BOOLEAN /\ NothingLostOrReordered'
<1>1. owed \in [Kinds -> Seq(Units)] /\ astray \in BOOLEAN /\ outBuf \in Seq(Units)
  BY DEF TypeOK
<1>2. /\ owed' \in [Kinds -> Seq(Units)] /\ astray' \in BOOLEAN
      /\ RestIsOwed("files", new, taken)
  BY <1>1, MovesInOrder
<1>3. Due("messages", "files", new) = Out("messages", "files", taken) \o outBuf'
  <2>1. owed["messages"] = outBuf /\ <<>> \o outBuf = outBuf
    BY <1>1, ConcatEmptySeq DEF NothingLostOrReordered
  <2>2. QED
    BY <2>1 DEF Due, Out
<1>4. ASSUME "files" \in Followed'
      PROVE  /\ FileRest \in Seq(Units) /\ FileRest' \in Seq(Units)
             /\ FileRest \o new = taken \o FileRest'
             /\ Due("files", "files", new) = Out("files", "files", taken) \o FileRest'
  <2>1. "files" \in Followed /\ "file" \notin overlaps'
    BY <1>4, FollowedKinds
  <2>2. owed["files"] = FileRest /\ FileRest \in Seq(Units)
    BY <1>1, <2>1 DEF NothingLostOrReordered, Kinds
  <2>3. QED
    BY <2>1, <2>2 DEF Due, Out
<1>5. ASSUME "both" \in Followed'
      PROVE  Due("both", "files", new) = Out("both", "files", taken) \o (outBuf' \o FileRest')
  <2>1. "both" \in Followed /\ "files" \in Followed'
    BY <1>5, FollowedKinds
  <2>2. owed["both"] = outBuf \o FileRest
    BY <2>1 DEF NothingLostOrReordered
  <2>3. FileRest \in Seq(Units) /\ FileRest' \in Seq(Units) /\ FileRest \o new = taken \o FileRest'
    BY <1>4, <2>1
  <2>4. (outBuf \o FileRest) \o new = outBuf \o (taken \o FileRest')
    <3>1. (outBuf \o FileRest) \o new = outBuf \o (FileRest \o new)
      BY <1>1, <2>3, Regrouped, Zenon
    <3>2. QED
      BY <2>3, <3>1
  <2>5. outBuf \o (taken \o FileRest') = taken \o (outBuf \o FileRest')
    <3>1. outBuf \o FileRest' \in Seq(Units) /\ taken \o FileRest' \in Seq(Units)
      BY <1>1, <2>3, ConcatProperties
    <3>2. CASE taken = <<>>
      BY <2>3, <3>1, <3>2, ConcatEmptySeq
    <3>3. CASE outBuf = <<>>
      BY <2>3, <3>1, <3>3, ConcatEmptySeq
    <3>4. QED
      BY <3>2, <3>3
  <2>6. QED
    BY <2>2, <2>4, <2>5 DEF Due, Out
<1>6. owed'["messages"] = outBuf'
  BY <1>1, <1>2, <1>3, FollowedKinds DEF Kinds, RestIsOwed
<1>7. "files" \in Followed' => owed'["files"] = FileRest'
  BY <1>2, <1>4 DEF Kinds, RestIsOwed
<1>8. "both" \in Followed' => outBuf' \o FileRest' \in Seq(Units)
  <2>1. "both" \in Followed' => "files" \in Followed'
    BY FollowedKinds
  <2>2. QED
    BY <1>1, <1>4, <2>1, ConcatProperties
<1>9. "both" \in Followed' => owed'["both"] = outBuf' \o FileRest'
  BY <1>2, <1>5, <1>8 DEF Kinds, RestIsOwed
<1>10. ~astray'
  <2>1. \A k \in Followed' : \E rest \in Seq(Units) :
           Due(k, "files", new) = Out(k, "files", taken) \o rest
    BY <1>1, <1>3, <1>4, <1>5, <1>8, FollowedKinds, Zenon
  <2>2. QED
    BY <1>2, <2>1 DEF NothingLostOrReordered, RestIsOwed
<1>11. QED
  BY <1>2, <1>6, <1>7, <1>9, <1>10, Zenon DEF NothingLostOrReordered
-----------------------------------------------------------------------------
(* The queue.                                                              *)

(* A functor that is queued or run changes the queue's names by its own.   *)
LEMMA NamesOfQueue ==
  ASSUME NEW q \in Seq(Functors)
  PROVE  /\ \A f \in Functors : /\ Append(q, f) \in Seq(Functors)
                                /\ Names(Append(q, f)) = Names(q) \cup {f[1]}
         /\ q # <<>> => /\ Head(q) \in Functors /\ Tail(q) \in Seq(Functors)
                        /\ Names(q) = {Head(q)[1]} \cup Names(Tail(q))
<1>1. Len(q) \in Nat /\ DOMAIN q = 1 .. Len(q)
  BY LenProperties
<1>2. ASSUME NEW f \in Functors
      PROVE  Append(q, f) \in Seq(Functors) /\ Names(Append(q, f)) = Names(q) \cup {f[1]}
  <2>1. /\ Append(q, f) \in Seq(Functors) /\ Len(Append(q, f)) = Len(q) + 1
        /\ \A i \in 1 .. Len(q) : Append(q, f)[i] = q[i]
        /\ Append(q, f)[Len(q) + 1] = f
    BY AppendProperties
  <2>2. DOMAIN Append(q, f) = 1 .. Len(q) + 1
    BY <2>1, LenProperties
  <2>3. QED
    BY <1>1, <2>1, <2>2 DEF Names
<1>3. ASSUME q # <<>>
      PROVE  /\ Head(q) \in Functors /\ Tail(q) \in Seq(Functors)
             /\ Names(q) = {Head(q)[1]} \cup Names(Tail(q))
  <2>1. /\ Head(q) \in Functors /\ Tail(q) \in Seq(Functors)
        /\ Len(Tail(q)) = Len(q) - 1
        /\ \A i \in 1 .. Len(Tail(q)) : Tail(q)[i] = q[i + 1]
    BY <1>3, HeadTailProperties
  <2>2. DOMAIN Tail(q) = 1 .. Len(q) - 1 /\ Len(q) >= 1 /\ Head(q) = q[1]
    BY <1>1, <1>3, <2>1, LenProperties, EmptySeq
  <2>3. Names(q) \subseteq {Head(q)[1]} \cup Names(Tail(q))
    <3>1. ASSUME NEW i \in 1 .. Len(q), i # 1
          PROVE  i - 1 \in 1 .. Len(q) - 1 /\ Tail(q)[i - 1] = q[i]
      BY <1>1, <2>1, <2>2, <3>1
    <3>2. ASSUME NEW i \in 1 .. Len(q)
          PROVE  q[i][1] \in {Head(q)[1]} \cup Names(Tail(q))
      <4>1. CASE i = 1
        BY <2>2, <4>1
      <4>2. CASE i # 1
        BY <2>2, <3>1, <4>2 DEF Names
      <4>3. QED
        BY <4>1, <4>2
    <3>3. QED
      BY <1>1, <3>2 DEF Names
  <2>4. {Head(q)[1]} \cup Names(Tail(q)) \subseteq Names(q)
    <3>1. ASSUME NEW i \in 1 .. Len(q) - 1
          PROVE  i + 1 \in 1 .. Len(q) /\ Tail(q)[i] = q[i + 1]
      BY <1>1, <2>1, <2>2, <3>1
    <3>2. 1 \in 1 .. Len(q)
      BY <1>1, <2>2
    <3>3. QED
      BY <1>1, <2>2, <3>1, <3>2 DEF Names
  <2>5. QED
    BY <2>1, <2>3, <2>4
<1>4. QED
  BY <1>2, <1>3
LEMMA QueuedByName ==
  /\ \A what : Queued(what) <=> what \in Names(queue)
  /\ \A what : Queued(what)' <=> what \in Names(queue')
BY DEF Queued, Names

(* The order of files and shutdown is disturbed only by a file that comes  *)
(* behind shutdown.                                                        *)
LEMMA FilesStayFirst ==
  ASSUME NEW q \in Seq(Functors)
  PROVE  /\ \A f \in Functors :
              (f[1] = "sendFile" => "shutdown" \notin Names(q)) /\ FilesFirst(q) => FilesFirst(Append(q, f))
         /\ "shutdown" \notin Names(q) => FilesFirst(q)
         /\ q # <<>> /\ FilesFirst(q) =>
              /\ FilesFirst(Tail(q))
              /\ Head(q)[1] = "shutdown" => "sendFile" \notin Names(q)
<1>1. Len(q) \in Nat /\ DOMAIN q = 1 .. Len(q)
  BY LenProperties
<1>2. ASSUME NEW f \in Functors, f[1] = "sendFile" => "shutdown" \notin Names(q), FilesFirst(q)
      PROVE  FilesFirst(Append(q, f))
  <2>1. /\ Append(q, f) \in Seq(Functors) /\ Len(Append(q, f)) = Len(q) + 1
        /\ \A i \in 1 .. Len(q) : Append(q, f)[i] = q[i]
        /\ Append(q, f)[Len(q) + 1] = f
    BY AppendProperties
  <2>2. DOMAIN Append(q, f) = 1 .. Len(q) + 1
    BY <2>1, LenProperties
  <2>3. ASSUME NEW i \in 1 .. Len(q) + 1, NEW j \in 1 .. Len(q) + 1, i < j,
               Append(q, f)[i][1] = "shutdown"
        PROVE  Append(q, f)[j][1] # "sendFile"
    <3>1. i \in 1 .. Len(q) /\ Append(q, f)[i] = q[i]
      BY <1>1, <2>1, <2>3
    <3>2. CASE j \in 1 .. Len(q)
      <4>1. Append(q, f)[j] = q[j] /\ q[i][1] = "shutdown"
        BY <2>1, <2>3, <3>1, <3>2
      <4>2. q[j][1] # "sendFile"
        BY <1>1, <1>2, <2>3, <3>1, <3>2, <4>1 DEF FilesFirst
      <4>3. QED
        BY <4>1, <4>2
    <3>3. CASE j = Len(q) + 1
      <4>1. "shutdown" \in Names(q)
        BY <1>1, <2>3, <3>1 DEF Names
      <4>2. QED
        BY <1>2, <2>1, <3>3, <4>1
    <3>4. QED
      BY <1>1, <3>2, <3>3
  <2>4. QED
    BY <2>2, <2>3 DEF FilesFirst
<1>3. "shutdown" \notin Names(q) => FilesFirst(q)
  BY DEF FilesFirst, Names
<1>4. ASSUME q # <<>>, FilesFirst(q)
      PROVE  FilesFirst(Tail(q)) /\ (Head(q)[1] = "shutdown" => "sendFile" \notin Names(q))
  <2>1. /\ Tail(q) \in Seq(Functors) /\ Len(Tail(q)) = Len(q) - 1
        /\ \A i \in 1 .. Len(Tail(q)) : Tail(q)[i] = q[i + 1]
    BY <1>4, HeadTailProperties
  <2>2. DOMAIN Tail(q) = 1 .. Len(q) - 1 /\ Len(q) >= 1 /\ Head(q) = q[1]
    BY <1>1, <1>4, <2>1, LenProperties, EmptySeq
  <2>3. FilesFirst(Tail(q))
    <3>1. ASSUME NEW i \in 1 .. Len(q) - 1
          PROVE  i + 1 \in 1 .. Len(q) /\ Tail(q)[i] = q[i + 1]
      BY <1>1, <2>1, <2>2, <3>1
    <3>2. \A i, j \in 1 .. Len(q) - 1 : i < j => i + 1 < j + 1
      BY <1>1
    <3>3. \A i, j \in 1 .. Len(q) : i < j /\ q[i][1] = "shutdown" => q[j][1] # "sendFile"
      BY <1>1, <1>4 DEF FilesFirst
    <3>4. QED
      BY <2>2, <3>1, <3>2, <3>3 DEF FilesFirst
  <2>4. ASSUME Head(q)[1] = "shutdown"
        PROVE  "sendFile" \notin Names(q)
    <3>1. ASSUME NEW j \in 1 .. Len(q)
          PROVE  q[j][1] # "sendFile"
      <4>1. CASE j = 1
        BY <2>2, <2>4, <4>1
      <4>2. CASE j # 1
        <5>1. 1 \in 1 .. Len(q) /\ 1 < j
          BY <1>1, <2>2, <4>2
        <5>2. QED
          BY <1>1, <1>4, <2>2, <2>4, <5>1 DEF FilesFirst
      <4>3. QED
        BY <4>1, <4>2
    <3>2. QED
      BY <1>1, <3>1 DEF Names
  <2>5. QED
    BY <2>3, <2>4
<1>5. QED
  BY <1>2, <1>3, <1>4
-----------------------------------------------------------------------------
(* The handlers.                                                           *)

\* A notice is queued behind the rest, or none is.
NoticeQueued(q) ==
    /\ queue' \in Seq(Functors) /\ paused' \in BOOLEAN
    /\ Names(q) \subseteq Names(queue')
    /\ Names(queue') \subseteq Names(q) \cup {"writeComplete", "highWater"}
    /\ FilesFirst(q) => FilesFirst(queue')

LEMMA NoticesQueued ==
  ASSUME TypeOK, NEW q \in Seq(Functors),
         \/ queue' = q /\ paused' = paused
         \/ queue' = Append(q, <<"writeComplete", 0>>) /\ paused' = FALSE
         \/ queue' = Append(q, <<"highWater", 0>>) /\ paused' = TRUE
  PROVE  NoticeQueued(q)
<1>1. <<"writeComplete", 0>> \in Functors /\ <<"highWater", 0>> \in Functors
  BY DEF Functors
<1>2. /\ <<"writeComplete", 0>>[1] = "writeComplete"
      /\ <<"highWater", 0>>[1] = "highWater"
  OBVIOUS
<1>3. /\ Append(q, <<"writeComplete", 0>>) \in Seq(Functors)
      /\ Names(Append(q, <<"writeComplete", 0>>)) = Names(q) \cup {"writeComplete"}
      /\ Append(q, <<"highWater", 0>>) \in Seq(Functors)
      /\ Names(Append(q, <<"highWater", 0>>)) = Names(q) \cup {"highWater"}
  BY <1>1, <1>2, NamesOfQueue
<1>4. FilesFirst(q) => /\ FilesFirst(Append(q, <<"writeComplete", 0>>))
                       /\ FilesFirst(Append(q, <<"highWater", 0>>))
  BY <1>1, <1>2, FilesStayFirst
<1>5. paused' \in BOOLEAN
  BY DEF TypeOK
<1>6. QED
  BY <1>3, <1>4, <1>5 DEF NoticeQueued

(* sendInLoop: the message goes behind what was taken up before, to the    *)
(* socket, to the buffer or in part to each, and the buffer is watched.    *)
LEMMA SendInLoopDoes ==
  ASSUME TypeOK, NothingLostOrReordered,
         NEW id \in Messages, NEW q \in Seq(Functors), SendInLoop(id, q), UNCHANGED fileVars
  PROVE  /\ NoticeQueued(q)
         /\ outBuf' \in Seq(Units) /\ writing' \in BOOLEAN
         /\ overlaps' \in SUBSET Overlaps
         /\ overlaps \subseteq overlaps' /\ overlaps' \subseteq overlaps \cup {"message"}
         /\ owed' \in [Kinds -> Seq(Units)] /\ astray' \in BOOLEAN
         /\ NothingLostOrReordered'
         /\ \/ UNCHANGED <<writing, outBuf>>
            \/ writing' /\ outBuf' # <<>> /\ ~(shut /\ MayWriteDirectly)
<1>1. NoticeQueued(q)
  <2>1. \/ queue' = q /\ paused' = paused
        \/ queue' = Append(q, <<"writeComplete", 0>>) /\ paused' = FALSE
        \/ queue' = Append(q, <<"highWater", 0>>) /\ paused' = TRUE
    BY DEF SendInLoop, KeepRest, QueueHighWater, QueueWriteComplete
  <2>2. QED
    BY <2>1, NoticesQueued
<1>2. FileRest' = FileRest
  BY DEF fileVars, FileRest
<1>3. /\ outBuf \in Seq(Units) /\ writing \in BOOLEAN /\ overlaps \in SUBSET Overlaps
      /\ owed \in [Kinds -> Seq(Units)] /\ astray \in BOOLEAN
  BY DEF TypeOK
<1>4. /\ From(id, 1) \in Seq(Units) /\ From(id, 1) # <<>> /\ Size \in Nat \ {0}
      /\ \A n \in 0 .. Size : /\ SubSeq(From(id, 1), 1, n) \in Seq(Units)
                              /\ From(id, n + 1) \in Seq(Units)
                              /\ From(id, 1) = SubSeq(From(id, 1), 1, n) \o From(id, n + 1)
                              /\ n # Size => From(id, n + 1) # <<>>
  <2>1. Size \in Nat \ {0} /\ 1 \in 1 .. Size + 1 /\ 0 \in 0 .. Size
    BY OutputAssumption
  <2>2. ASSUME NEW n \in 0 .. Size
        PROVE  /\ SubSeq(From(id, 1), 1, n) \in Seq(Units)
               /\ From(id, n + 1) \in Seq(Units)
               /\ From(id, 1) = SubSeq(From(id, 1), 1, n) \o From(id, n + 1)
               /\ Len(From(id, n + 1)) = Size - n
    <3>1. n \in 0 .. Size - 1 + 1 /\ 1 + n = n + 1 /\ Size - 1 - n + 1 = Size - n
      BY <2>1
    <3>2. QED
      BY <2>1, <3>1, FromSplits
  <2>3. ASSUME NEW n \in 0 .. Size, n # Size
        PROVE  From(id, n + 1) # <<>>
    <3>1. Len(From(id, n + 1)) # 0
      BY <2>1, <2>2, <2>3
    <3>2. QED
      BY <2>2, <3>1, EmptySeq
  <2>4. From(id, 0 + 1) # <<>> /\ From(id, 0 + 1) \in Seq(Units) /\ 0 + 1 = 1
    <3>1. 0 # Size
      BY <2>1
    <3>2. QED
      BY <2>1, <2>2, <2>3, <3>1
  <2>5. QED
    BY <2>1, <2>2, <2>3, <2>4
<1> DEFINE Marked == Marks({"message"}, FileGoesOut)
<1>5. Marked => /\ overlaps' \in SUBSET Overlaps
                /\ overlaps \subseteq overlaps' /\ overlaps' \subseteq overlaps \cup {"message"}
                /\ "message" \notin overlaps' => FileRest = <<>>
  <2>1. Marked /\ "message" \notin overlaps' => ~FileGoesOut
    BY DEF Marks
  <2>2. ~FileGoesOut => FileRest = <<>>
    BY NothingGoesOut
  <2>3. QED
    BY <1>3, <2>1, <2>2 DEF Marks, Overlaps
<1> HIDE DEF Marked
<1>6. CASE UNCHANGED <<writing, outBuf, owedVars, overlaps>>
  <2>1. NothingLostOrReordered'
    <3>1. UNCHANGED <<outBuf, owed, astray, overlaps>>
      BY <1>6 DEF owedVars
    <3>2. Followed' = Followed
      BY <3>1 DEF Followed
    <3>3. QED
      BY <1>2, <3>1, <3>2 DEF NothingLostOrReordered
  <2>2. QED
    BY <1>1, <1>3, <1>6, <2>1 DEF owedVars
<1>7. ASSUME MayWriteDirectly, ~shut, Marked, NEW n \in 0 .. Size,
             Moves("messages", From(id, 1), SubSeq(From(id, 1), 1, n)),
             IF n = Size THEN UNCHANGED <<writing, outBuf>>
             ELSE outBuf' = outBuf \o From(id, n + 1) /\ writing' = TRUE
      PROVE  /\ outBuf' \in Seq(Units) /\ writing' \in BOOLEAN
             /\ owed' \in [Kinds -> Seq(Units)] /\ astray' \in BOOLEAN
             /\ NothingLostOrReordered'
             /\ UNCHANGED <<writing, outBuf>> \/ (writing' /\ outBuf' # <<>>)
  <2>1. outBuf = <<>>
    BY <1>7 DEF MayWriteDirectly
  <2>2. outBuf' = From(id, n + 1)
    <3>1. n = Size => From(id, n + 1) = <<>>
      BY NothingLeft
    <3>2. <<>> \o From(id, n + 1) = From(id, n + 1)
      BY <1>4, ConcatEmptySeq
    <3>3. QED
      BY <1>7, <2>1, <3>1, <3>2
  <2>3. outBuf \o From(id, 1) = SubSeq(From(id, 1), 1, n) \o outBuf'
    <3>1. <<>> \o From(id, 1) = From(id, 1)
      BY <1>4, ConcatEmptySeq
    <3>2. QED
      BY <1>4, <2>1, <2>2, <3>1
  <2>4. outBuf' \in Seq(Units) /\ SubSeq(From(id, 1), 1, n) \in Seq(Units) /\ From(id, 1) \in Seq(Units)
    BY <1>4, <2>2
  <2>5. /\ overlaps \subseteq overlaps'
        /\ "message" \notin overlaps' => From(id, 1) = <<>> \/ FileRest = <<>>
    BY <1>5, <1>7
  <2>6. /\ owed' \in [Kinds -> Seq(Units)] /\ astray' \in BOOLEAN
        /\ NothingLostOrReordered'
    BY <1>2, <1>7, <2>3, <2>4, <2>5, MessageMoves
  <2>7. writing' \in BOOLEAN /\ (UNCHANGED <<writing, outBuf>> \/ (writing' /\ outBuf' # <<>>))
    BY <1>3, <1>4, <1>7, <2>2
  <2>8. QED
    BY <2>4, <2>6, <2>7
<1>8. ASSUME ~MayWriteDirectly, Marked, Moves("messages", From(id, 1), <<>>),
             outBuf' = outBuf \o From(id, 1), writing' = TRUE
      PROVE  /\ outBuf' \in Seq(Units) /\ outBuf' # <<>>
             /\ owed' \in [Kinds -> Seq(Units)] /\ astray' \in BOOLEAN
             /\ NothingLostOrReordered'
  <2>1. outBuf' \in Seq(Units) /\ outBuf' # <<>> /\ <<>> \in Seq(Units)
    BY <1>3, <1>4, <1>8, ConcatProperties, ConcatEqualIffEmpty, EmptySeq
  <2>2. outBuf \o From(id, 1) = <<>> \o outBuf'
    BY <1>8, <2>1, ConcatEmptySeq
  <2>3. /\ overlaps \subseteq overlaps'
        /\ "message" \notin overlaps' => From(id, 1) = <<>> \/ FileRest = <<>>
    BY <1>5, <1>8
  <2>4. /\ owed' \in [Kinds -> Seq(Units)] /\ astray' \in BOOLEAN
        /\ NothingLostOrReordered'
    BY <1>2, <1>4, <1>8, <2>1, <2>2, <2>3, MessageMoves
  <2>5. QED
    BY <2>1, <2>4
<1>9. CASE \E n \in 0 .. Size :
             /\ MayWriteDirectly /\ ~shut /\ Marked
             /\ Moves("messages", From(id, 1), SubSeq(From(id, 1), 1, n))
             /\ IF n = Size THEN UNCHANGED <<writing, outBuf>>
                ELSE outBuf' = outBuf \o From(id, n + 1) /\ writing' = TRUE
  <2>1. /\ outBuf' \in Seq(Units) /\ writing' \in BOOLEAN
        /\ owed' \in [Kinds -> Seq(Units)] /\ astray' \in BOOLEAN
        /\ NothingLostOrReordered' /\ ~shut /\ Marked
        /\ UNCHANGED <<writing, outBuf>> \/ (writing' /\ outBuf' # <<>>)
    BY <1>7, <1>9
  <2>2. QED
    BY <1>1, <1>5, <2>1
<1>10. CASE /\ ~MayWriteDirectly /\ Marked /\ Moves("messages", From(id, 1), <<>>)
            /\ outBuf' = outBuf \o From(id, 1) /\ writing' = TRUE
  BY <1>1, <1>5, <1>8, <1>10
<1>11. QED
  BY <1>6, <1>9, <1>10 DEF SendInLoop, KeepRest, Marked

\* What is left of a file of which len units are to go.
Rest(fd, len) == From(fd, Size - len + 1)

(* What sendfile takes of a file, and the rest, when nothing else uses     *)
(* sendFd_ and sendLen_.                                                   *)
LEMMA RestSplits ==
  ASSUME NEW fd \in FileIds, NEW len \in 0 .. Size, NEW n \in 0 .. len
  PROVE  /\ SubSeq(Rest(fd, len), 1, n) \in Seq(Units)
         /\ Rest(fd, len) \in Seq(Units) /\ Rest(fd, len - n) \in Seq(Units)
         /\ Rest(fd, len) = SubSeq(Rest(fd, len), 1, n) \o Rest(fd, len - n)
<1> DEFINE k == Size - len + 1
<1>1. k \in 1 .. Size + 1 /\ n \in 0 .. Size - k + 1 /\ k + n = Size - (len - n) + 1
  BY OutputAssumption
<1> HIDE DEF k
<1>2. /\ From(fd, k) \in Seq(Units) /\ SubSeq(From(fd, k), 1, n) \in Seq(Units)
      /\ From(fd, k + n) \in Seq(Units)
      /\ From(fd, k) = SubSeq(From(fd, k), 1, n) \o From(fd, k + n)
  BY <1>1, FromSplits
<1>3. Rest(fd, len) = From(fd, k) /\ Rest(fd, len - n) = From(fd, k + n)
  BY <1>1 DEF Rest, k
<1>4. QED
  BY <1>2, <1>3

\* The file goes to the socket only when there is nothing before it, and what it leaves is
\* watched unless the socket is shut down or broken.
FileSent(fd, len, new, open, racing) ==
    /\ sendLen' \in 0 .. Size /\ openFds' \in SUBSET FileIds /\ writing' \in BOOLEAN
    /\ \E taken \in Seq(Units) :
         /\ Moves("files", new, taken)
         /\ taken = <<>> \/ outBuf = <<>>
         /\ ~racing => \/ taken = <<>> /\ sendLen' = len
                       \/ /\ fd \in open /\ Rest(fd, len) = taken \o Rest(fd, sendLen')
                          /\ Rest(fd, sendLen') \in Seq(Units)
    /\ writing' => writing \/ sendLen' > 0
    /\ writing => writing'
    /\ sendLen' > 0 => writing' \/ broken \/ shut
    /\ shut => sendLen' = len
    /\ shut /\ len = 0 => (writing' => writing)
    /\ openFds' \subseteq open
    /\ ~racing => /\ sendLen' <= len
                  /\ sendLen' > 0 => openFds' = open
                  /\ sendLen' = 0 /\ len > 0 => openFds' \subseteq open \ {fd}

(* sendFileInLoop does this.                                               *)
LEMMA SendFileInLoopDoes ==
  ASSUME TypeOK, UNCHANGED outBuf,
         NEW fd \in FileIds \cup {NoFile}, NEW len \in 0 .. Size, NEW new \in Seq(Units),
         NEW open \in SUBSET FileIds, NEW racing \in BOOLEAN,
         SendFileInLoop(fd, len, new, open, racing)
  PROVE  FileSent(fd, len, new, open, racing)
<1>1. Size \in Nat \ {0} /\ writing \in BOOLEAN /\ shut \in BOOLEAN /\ broken \in BOOLEAN
      /\ <<>> \in Seq(Units)
  BY OutputAssumption, EmptySeq DEF TypeOK
<1>2. ASSUME MayWriteDirectly, ~broken, ~shut, NEW seen \in Seen(fd, open, racing) \cap open,
             NEW n \in 0 .. len, Takes(new, seen, len, n),
             sendLen' \in Left(len, n, racing),
             openFds' = IF sendLen' = 0 THEN open \ {seen} ELSE open,
             writing' = (sendLen' > 0)
      PROVE  /\ sendLen' \in 0 .. Size /\ openFds' \subseteq open /\ writing' \in BOOLEAN
             /\ \E taken \in Seq(Units) :
                  /\ Moves("files", new, taken)
                  /\ ~racing => /\ fd \in open /\ Rest(fd, len) = taken \o Rest(fd, sendLen')
                                /\ Rest(fd, sendLen') \in Seq(Units)
             /\ ~racing => /\ sendLen' <= len
                           /\ sendLen' > 0 => openFds' = open
                           /\ sendLen' = 0 => openFds' \subseteq open \ {fd}
  <2>1. sendLen' \in 0 .. Size /\ (~racing => sendLen' = len - n /\ sendLen' <= len)
    BY <1>1, <1>2 DEF Left
  <2>2. ~racing => seen = fd
    BY <1>2 DEF Seen
  <2>3. seen \in FileIds
    BY <1>2
  <2>4. /\ SubSeq(Rest(seen, len), 1, n) \in Seq(Units) /\ Rest(seen, len - n) \in Seq(Units)
        /\ Rest(seen, len) = SubSeq(Rest(seen, len), 1, n) \o Rest(seen, len - n)
    BY <2>3, RestSplits
  <2>5. Moves("files", new, SubSeq(Rest(seen, len), 1, n))
    BY <1>2 DEF Takes, Rest
  <2>6. ~racing => /\ fd \in open /\ Rest(fd, sendLen') \in Seq(Units)
                   /\ Rest(fd, len) = SubSeq(Rest(seen, len), 1, n) \o Rest(fd, sendLen')
    BY <1>2, <2>1, <2>2, <2>4
  <2>7. /\ openFds' \subseteq open
        /\ ~racing => (sendLen' > 0 => openFds' = open) /\ (sendLen' = 0 => openFds' \subseteq open \ {fd})
    BY <1>2, <2>1, <2>2
  <2>8. writing' \in BOOLEAN
    BY <1>2
  <2>9. QED
    BY <2>1, <2>4, <2>5, <2>6, <2>7, <2>8
<1>3. CASE /\ MayWriteDirectly /\ ~broken /\ ~shut
           /\ \E seen \in Seen(fd, open, racing) \cap open : \E n \in 0 .. len :
                /\ Takes(new, seen, len, n)
                /\ sendLen' \in Left(len, n, racing)
                /\ openFds' = IF sendLen' = 0 THEN open \ {seen} ELSE open
           /\ writing' = (sendLen' > 0)
  <2>1. /\ sendLen' \in 0 .. Size /\ openFds' \subseteq open /\ writing' \in BOOLEAN
        /\ \E taken \in Seq(Units) :
             /\ Moves("files", new, taken)
             /\ ~racing => /\ fd \in open /\ Rest(fd, len) = taken \o Rest(fd, sendLen')
                           /\ Rest(fd, sendLen') \in Seq(Units)
        /\ ~racing => /\ sendLen' <= len
                      /\ sendLen' > 0 => openFds' = open
                      /\ sendLen' = 0 => openFds' \subseteq open \ {fd}
    BY <1>2, <1>3, Zenon
  <2>2. outBuf = <<>> /\ ~writing /\ ~shut /\ (writing' <=> sendLen' > 0)
    BY <1>3 DEF MayWriteDirectly
  <2>3. \E taken \in Seq(Units) :
              /\ Moves("files", new, taken)
              /\ taken = <<>> \/ outBuf = <<>>
              /\ ~racing => \/ taken = <<>> /\ sendLen' = len
                            \/ /\ fd \in open /\ Rest(fd, len) = taken \o Rest(fd, sendLen')
                               /\ Rest(fd, sendLen') \in Seq(Units)
    BY <2>1, <2>2, Zenon
  <2>4. QED
    BY <2>1, <2>2, <2>3 DEF FileSent
<1>4. ASSUME sendLen' = len, openFds' = open, Moves("files", new, <<>>),
             writing' \in BOOLEAN, writing => writing',
             writing' => writing \/ len > 0, len > 0 => writing' \/ broken \/ shut
      PROVE  FileSent(fd, len, new, open, racing)
  <2>1. \E taken \in Seq(Units) :
                  /\ Moves("files", new, taken)
                  /\ taken = <<>> \/ outBuf = <<>>
                  /\ ~racing => \/ taken = <<>> /\ sendLen' = len
                                \/ /\ fd \in open /\ Rest(fd, len) = taken \o Rest(fd, sendLen')
                                   /\ Rest(fd, sendLen') \in Seq(Units)
    BY <1>1, <1>4, Zenon
  <2>2. QED
    BY <1>1, <1>4, <2>1 DEF FileSent
<1>5. CASE /\ MayWriteDirectly
           /\ \E seen \in Seen(fd, open, racing) :
                /\ broken \/ shut \/ seen \notin open
                /\ writing' = (seen \notin open /\ len > 0)
           /\ sendLen' = len /\ openFds' = open
           /\ Moves("files", new, <<>>)
  <2>1. PICK seen \in Seen(fd, open, racing) :
                /\ broken \/ shut \/ seen \notin open
                /\ writing' = (seen \notin open /\ len > 0)
    BY <1>5
  <2>2. /\ writing' \in BOOLEAN /\ ~writing
        /\ writing' => len > 0 
        /\ len > 0 => writing' \/ broken \/ shut
    BY <1>5, <2>1 DEF MayWriteDirectly
  <2>3. /\ sendLen' = len /\ openFds' = open /\ Moves("files", new, <<>>)
        /\ writing => writing'
        /\ writing' => writing \/ len > 0
    BY <1>5, <2>2
  <2>4. QED
    BY <1>4, <2>2, <2>3
<1>6. CASE /\ ~MayWriteDirectly
           /\ writing' = (writing \/ len > 0)
           /\ sendLen' = len /\ openFds' = open
           /\ Moves("files", new, <<>>)
  <2>1. /\ writing' \in BOOLEAN /\ (writing => writing')
        /\ writing' => writing \/ len > 0
        /\ len > 0 => writing' \/ broken \/ shut
    BY <1>6
  <2>2. QED
    BY <1>4, <1>6, <2>1
<1>7. QED
  BY <1>3, <1>5, <1>6 DEF SendFileInLoop
-----------------------------------------------------------------------------
(* Every step keeps the invariant.                                         *)

(* A step that changes nothing but the queue, by functors of its own.      *)
LEMMA OtherFunctors ==
  ASSUME NEW q \in Seq(Functors), queue' \in Seq(Functors), queue \in Seq(Functors),
         Names(q) \subseteq Names(queue), Names(queue) \subseteq Names(q) \cup {"send", "writeComplete", "highWater"},
         FilesFirst(queue) => FilesFirst(q),
         Names(q) \subseteq Names(queue'), Names(queue') \subseteq Names(q) \cup {"send", "writeComplete", "highWater"},
         FilesFirst(q) => FilesFirst(queue')
  PROVE  /\ Queued("sendFile")' <=> Queued("sendFile")
         /\ Queued("shutdown")' <=> Queued("shutdown")
         /\ FilesFirst(queue) => FilesFirst(queue')
<1>1. /\ "sendFile" \notin {"send", "writeComplete", "highWater"}
      /\ "shutdown" \notin {"send", "writeComplete", "highWater"}
  OBVIOUS
<1>2. /\ "sendFile" \in Names(queue') <=> "sendFile" \in Names(queue)
      /\ "shutdown" \in Names(queue') <=> "shutdown" \in Names(queue)
  BY <1>1
<1>3. QED
  BY <1>2, QueuedByName

(* A message, from the loop or from another thread.                        *)
LEMMA MessageKeeps ==
  ASSUME OutputInv, NEW id \in Messages, NEW q \in Seq(Functors), SendInLoop(id, q),
         UNCHANGED <<state, shut, broken, files, filing, gaveUp, fileVars>>,
         sends' \in 0 .. MaxSends,
         Names(q) \subseteq Names(queue), Names(queue) \subseteq Names(q) \cup {"send"},
         FilesFirst(queue) => FilesFirst(q)
  PROVE  OutputInv'
<1> USE DEF OutputInv
<1>1. /\ NoticeQueued(q)
      /\ outBuf' \in Seq(Units) /\ writing' \in BOOLEAN
      /\ overlaps' \in SUBSET Overlaps
      /\ overlaps \subseteq overlaps' /\ overlaps' \subseteq overlaps \cup {"message"}
      /\ owed' \in [Kinds -> Seq(Units)] /\ astray' \in BOOLEAN
      /\ NothingLostOrReordered'
      /\ \/ UNCHANGED <<writing, outBuf>>
         \/ writing' /\ outBuf' # <<>> /\ ~(shut /\ MayWriteDirectly)
  <2>1. UNCHANGED fileVars
    OBVIOUS
  <2>2. QED
    BY <2>1, SendInLoopDoes
<1>2. UNCHANGED <<state, shut, broken, files, filing, gaveUp, sendFd, sendLen, openFds, begun>>
  BY DEF fileVars
<1>3. queue' \in Seq(Functors) /\ paused' \in BOOLEAN
  BY <1>1 DEF NoticeQueued
<1>4. /\ Queued("sendFile")' <=> Queued("sendFile")
      /\ Queued("shutdown")' <=> Queued("shutdown")
      /\ FilesFirst(queue) => FilesFirst(queue')
  <2>1. queue \in Seq(Functors)
    BY DEF TypeOK, Functors
  <2>2. /\ Names(q) \subseteq Names(queue')
        /\ Names(queue') \subseteq Names(q) \cup {"send", "writeComplete", "highWater"}
        /\ Names(queue) \subseteq Names(q) \cup {"send", "writeComplete", "highWater"}
        /\ FilesFirst(q) => FilesFirst(queue')
    BY <1>1 DEF NoticeQueued
  <2>3. QED
    BY <1>3, <2>1, <2>2, OtherFunctors
<1>5. /\ "file" \in overlaps' <=> "file" \in overlaps
      /\ "shutdown" \in overlaps' <=> "shutdown" \in overlaps
  BY <1>1
<1>6. TypeOK'
  BY <1>1, <1>2, <1>3 DEF TypeOK, Functors
<1>7. Watched' /\ WatchesWhenNeeded'
  <2>1. CASE UNCHANGED <<writing, outBuf>>
    BY <1>2, <1>4, <2>1 DEF Watched, WatchesWhenNeeded
  <2>2. CASE writing' /\ outBuf' # <<>>
    BY <2>2 DEF Watched, WatchesWhenNeeded
  <2>3. QED
    BY <1>1, <2>1, <2>2
<1>8. FilesApart' /\ OpenFileIsKnown'
  BY <1>2, <1>4, <1>5 DEF FilesApart, OpenFileIsKnown
<1>9. ShutdownLast'
  BY <1>2, <1>4, <1>5 DEF ShutdownLast
<1>10. ShutAfterDrained'
  <2>1. CASE UNCHANGED <<writing, outBuf>>
    BY <1>2, <1>5, <2>1 DEF ShutAfterDrained
  <2>2. CASE ~(shut /\ MayWriteDirectly)
    <3>1. shut /\ outBuf = <<>> /\ sendLen = 0 => MayWriteDirectly
      BY OutputAssumption DEF Watched, MayWriteDirectly, TypeOK
    <3>2. QED
      BY <1>2, <1>5, <2>2, <3>1 DEF ShutAfterDrained
  <2>3. QED
    BY <1>1, <2>1, <2>2
<1>11. QED
  BY <1>1, <1>6, <1>7, <1>8, <1>9, <1>10

(* send() on the loop thread.                                              *)
LEMMA SendKeeps ==
  ASSUME OutputInv, Send
  PROVE  OutputInv'
<1>1. /\ sends + 1 \in Messages /\ sends' \in 0 .. MaxSends /\ queue \in Seq(Functors)
      /\ SendInLoop(sends + 1, queue)
      /\ UNCHANGED <<state, shut, broken, files, filing, gaveUp, fileVars>>
  BY OutputAssumption DEF Send, OutputInv, TypeOK, Functors, Messages
<1>2. Names(queue) \subseteq Names(queue) \cup {"send"}
  OBVIOUS
<1>3. QED
  BY <1>1, <1>2, MessageKeeps

(* sendFile() on the loop thread.                                          *)
LEMMA SendFileKeeps ==
  ASSUME OutputInv, SendFile
  PROVE  OutputInv'
<1> USE DEF OutputInv
<1> DEFINE open == openFds \cup {NextFile}
           new  == From(NextFile, 1)
<1>1. /\ state = "kConnected" /\ files < MaxFiles /\ files' = files + 1
      /\ overlaps' = overlaps \cup (IF FileNotThrough THEN {"file"} ELSE {})
      /\ sendFd' = NextFile /\ begun' = TRUE
      /\ SendFileInLoop(NextFile, Size, new, open, filing # {})
      /\ UNCHANGED <<state, shut, broken, outBuf, queue, sends, filing, paused, gaveUp>>
  BY DEF SendFile, Marks
<1>2. /\ NextFile \in FileIds /\ files' \in 0 .. MaxFiles /\ Size \in 0 .. Size /\ Size \in Nat \ {0}
      /\ open \in SUBSET FileIds
  BY <1>1, OutputAssumption DEF NextFile, FileIds, TypeOK
<1>3. new = Rest(NextFile, Size) /\ new \in Seq(Units)
  <2>1. Size - Size + 1 = 1 /\ 0 \in 0 .. Size
    BY <1>2
  <2>2. QED
    BY <1>2, <2>1, RestSplits DEF Rest
<1>4. /\ overlaps' \in SUBSET Overlaps /\ overlaps \subseteq overlaps'
      /\ "shutdown" \in overlaps' <=> "shutdown" \in overlaps
      /\ "file" \notin overlaps' =>
           "file" \notin overlaps /\ filing = {} /\ sendLen = 0 /\ ~Queued("sendFile")
  <2>1. ~FileNotThrough => filing = {} /\ sendLen = 0 /\ ~Queued("sendFile")
    BY OutputAssumption DEF FileNotThrough, TypeOK
  <2>2. QED
    BY <1>1, <2>1 DEF TypeOK, Overlaps
<1> HIDE DEF open, new
<1>5. /\ sendLen' \in 0 .. Size /\ openFds' \in SUBSET FileIds /\ writing' \in BOOLEAN
      /\ \E taken \in Seq(Units) :
           /\ Moves("files", new, taken)
           /\ taken = <<>> \/ outBuf = <<>>
           /\ filing = {} => \/ taken = <<>> /\ sendLen' = Size
                             \/ /\ NextFile \in open /\ Rest(NextFile, Size) = taken \o Rest(NextFile, sendLen')
                                /\ Rest(NextFile, sendLen') \in Seq(Units)
      /\ writing' => writing \/ sendLen' > 0
      /\ writing => writing'
      /\ sendLen' > 0 => writing' \/ broken \/ shut
      /\ filing = {} => (sendLen' > 0 => openFds' = open) /\ (sendLen' = 0 => openFds' \subseteq open \ {NextFile})
  <2>1. NextFile \in FileIds \cup {NoFile} /\ (filing # {}) \in BOOLEAN /\ UNCHANGED outBuf /\ TypeOK
    BY <1>1, <1>2
  <2>2. Size > 0
    BY <1>2
  <2>3. FileSent(NextFile, Size, new, open, filing # {})
    BY <1>1, <1>2, <1>3, <2>1, SendFileInLoopDoes
  <2>4. QED
    BY <2>2, <2>3 DEF FileSent
<1>6. owed' \in [Kinds -> Seq(Units)] /\ astray' \in BOOLEAN /\ NothingLostOrReordered'
  <2>1. PICK taken \in Seq(Units) :
           /\ Moves("files", new, taken)
           /\ taken = <<>> \/ outBuf = <<>>
           /\ filing = {} => \/ taken = <<>> /\ sendLen' = Size
                             \/ /\ NextFile \in open /\ Rest(NextFile, Size) = taken \o Rest(NextFile, sendLen')
                                /\ Rest(NextFile, sendLen') \in Seq(Units)
    BY <1>5
  <2>2. FileRest' = Rest(NextFile, sendLen')
    BY <1>1 DEF FileRest, Rest
  <2>3. ASSUME "file" \notin overlaps'
        PROVE  FileRest' \in Seq(Units) /\ FileRest \o new = taken \o FileRest'
    <3>1. FileRest = <<>>
      <4>1. sendLen = 0 => ~FileGoesOut
        BY DEF FileGoesOut
      <4>2. QED
        BY <1>4, <2>3, <4>1, NothingGoesOut
    <3>2. FileRest \o new = Rest(NextFile, Size)
      BY <1>3, <3>1, ConcatEmptySeq
    <3>3. CASE taken = <<>> /\ sendLen' = Size
      BY <1>3, <2>2, <3>2, <3>3, ConcatEmptySeq
    <3>4. CASE Rest(NextFile, Size) = taken \o Rest(NextFile, sendLen') /\ Rest(NextFile, sendLen') \in Seq(Units)
      BY <2>2, <3>2, <3>4
    <3>5. QED
      BY <1>4, <2>1, <2>3, <3>3, <3>4
  <2>4. QED
    BY <1>1, <1>3, <1>4, <2>1, <2>3, FileMoves
<1>7. TypeOK'
  <2>1. begun' \in BOOLEAN /\ sendFd' \in FileIds \cup {NoFile}
    BY <1>1, <1>2
  <2>2. QED
    BY <1>1, <1>2, <1>4, <1>5, <1>6, <2>1 DEF TypeOK
<1>8. Queued("sendFile")' <=> Queued("sendFile")
  BY <1>1 DEF Queued
<1>9. Watched' /\ WatchesWhenNeeded'
  <2>1. writing' => outBuf # <<>> \/ sendLen' > 0
    <3>1. outBuf = <<>> /\ writing /\ writing' => sendLen' > 0
      <4>1. ASSUME outBuf = <<>>, writing
            PROVE  sendLen' = Size
        BY <1>1, <4>1 DEF SendFileInLoop, MayWriteDirectly
      <4>2. QED
        BY <1>2, <4>1
    <3>2. QED
      BY <1>5, <3>1
  <2>2. outBuf' = outBuf
    BY <1>1
  <2>3. Watched'
    BY <1>1, <1>5, <2>1, <2>2 DEF Watched
  <2>4. QED
    BY <1>1, <1>5, <2>3 DEF Watched, WatchesWhenNeeded
<1>10. FilesApart' /\ OpenFileIsKnown'
  <2>1. ASSUME "file" \notin overlaps'
        PROVE  /\ filing' = {}
               /\ sendLen' > 0 => sendFd' \in openFds'
               /\ openFds' \subseteq (IF sendLen' > 0 THEN {sendFd'} ELSE {})
    <3>1. filing = {} /\ openFds = {}
      BY <1>4, <2>1 DEF OpenFileIsKnown
    <3>2. open = {NextFile}
      BY <3>1 DEF open
    <3>3. CASE sendLen' > 0
      BY <1>1, <1>5, <3>1, <3>2, <3>3
    <3>4. CASE sendLen' = 0
      BY <1>1, <1>5, <3>1, <3>2, <3>4
    <3>5. QED
      BY <1>2, <1>5, <3>3, <3>4
  <2>2. QED
    BY <1>1, <2>1 DEF FilesApart, OpenFileIsKnown
<1>11. ShutdownLast'
  <2>1. Queued("shutdown")' <=> Queued("shutdown")
    BY <1>1 DEF Queued
  <2>2. QED
    BY <1>1, <1>4, <2>1 DEF ShutdownLast
<1>12. ShutAfterDrained'
  BY <1>1 DEF ShutdownLast, ShutAfterDrained
<1>13. QED
  BY <1>6, <1>7, <1>9, <1>10, <1>11, <1>12

(* The order is the same when what it is about is.                         *)
LEMMA OrderStays ==
  ASSUME TypeOK, NothingLostOrReordered, overlaps \subseteq overlaps',
         UNCHANGED <<outBuf, owed, astray>>, "file" \in overlaps' \/ FileRest' = FileRest
  PROVE  /\ owed' \in [Kinds -> Seq(Units)] /\ astray' \in BOOLEAN
         /\ NothingLostOrReordered'
<1>1. /\ "files" \in Followed' => "files" \in Followed /\ FileRest' = FileRest
      /\ "both" \in Followed' => "both" \in Followed /\ FileRest' = FileRest
  BY FollowedKinds
<1>2. /\ ~astray' /\ owed'["messages"] = outBuf'
      /\ "files" \in Followed' => owed'["files"] = FileRest'
      /\ "both" \in Followed' => owed'["both"] = outBuf' \o FileRest'
  BY <1>1 DEF NothingLostOrReordered
<1>3. QED
  BY <1>2 DEF NothingLostOrReordered, TypeOK

(* The write side can be shut down when nothing is written: everything     *)
(* that was taken up before is out, as there is no file to come.           *)
LEMMA NothingIsLeft ==
  ASSUME OutputInv, ~writing, ~shut, ~Queued("sendFile"), state # "kDisconnected", ~broken
  PROVE  outBuf = <<>> /\ sendLen = 0
BY OutputAssumption DEF OutputInv, Watched, WatchesWhenNeeded, TypeOK

(* shutdown(), on the loop thread or on another.                           *)
LEMMA ShutdownKeeps ==
  ASSUME OutputInv, Shutdown \/ QueueShutdown
  PROVE  OutputInv'
<1> USE DEF OutputInv
<1>1. /\ state = "kConnected" /\ state' = "kDisconnecting"
      /\ UNCHANGED <<writing, broken, sends, files, filing, paused, outBuf, gaveUp>>
      /\ UNCHANGED <<sendFd, sendLen, openFds, begun, owed, astray>>
      /\ overlaps' \in {overlaps, overlaps \cup {"shutdown"}}
      /\ "shutdown" \notin overlaps' => filing = {}
  BY DEF Shutdown, QueueShutdown, Marks, fileVars, owedVars
<1>2. /\ overlaps' \in SUBSET Overlaps /\ overlaps \subseteq overlaps'
      /\ "file" \in overlaps' <=> "file" \in overlaps
  BY <1>1 DEF TypeOK, Overlaps
<1>3. queue \in Seq(Functors) /\ <<"shutdown", 0>> \in Functors /\ <<"shutdown", 0>>[1] = "shutdown"
  BY DEF TypeOK, Functors
<1>4. ~shut /\ ~Queued("shutdown") /\ FilesFirst(queue)
  <2>1. ~shut /\ ~Queued("shutdown")
    BY <1>1 DEF ShutdownLast
  <2>2. QED
    BY <1>3, <2>1, QueuedByName, FilesStayFirst
<1>5. /\ queue' \in Seq(Functors) /\ FilesFirst(queue')
      /\ Queued("sendFile")' <=> Queued("sendFile")
  <2>1. CASE queue' = queue
    BY <1>3, <1>4, <2>1 DEF Queued
  <2>2. CASE queue' = Append(queue, <<"shutdown", 0>>)
    <3>1. /\ queue' \in Seq(Functors) /\ Names(queue') = Names(queue) \cup {"shutdown"}
      BY <1>3, <2>2, NamesOfQueue
    <3>2. FilesFirst(queue')
      BY <1>3, <1>4, <2>2, FilesStayFirst
    <3>3. "sendFile" \in Names(queue') <=> "sendFile" \in Names(queue)
      BY <3>1
    <3>4. QED
      BY <3>1, <3>2, <3>3, QueuedByName
  <2>3. QED
    BY <2>1, <2>2 DEF Shutdown, QueueShutdown
<1>6. owed' \in [Kinds -> Seq(Units)] /\ astray' \in BOOLEAN /\ NothingLostOrReordered'
  <2>1. FileRest' = FileRest
    BY <1>1 DEF FileRest
  <2>2. QED
    BY <1>1, <1>2, <2>1, OrderStays
<1>7. shut' \in BOOLEAN /\ (shut' => ~writing /\ ("shutdown" \notin overlaps' => ~Queued("sendFile")))
  <2>1. CASE Shutdown
    BY <1>1, <1>4, <2>1 DEF Shutdown, ShutdownInLoop, ShutdownTest, Marks, TypeOK
  <2>2. CASE QueueShutdown
    BY <1>4, <2>2 DEF QueueShutdown, TypeOK
  <2>3. QED
    BY <2>1, <2>2
<1>8. TypeOK'
  BY <1>1, <1>2, <1>5, <1>6, <1>7 DEF TypeOK, Functors
<1>9. Watched' /\ WatchesWhenNeeded'
  <2>1. state # "kDisconnected" /\ (shut' \/ ~shut)
    BY <1>1, <1>4
  <2>2. QED
    BY <1>1, <1>5, <2>1, <1>4 DEF Watched, WatchesWhenNeeded
<1>10. FilesApart' /\ OpenFileIsKnown'
  BY <1>1, <1>2, <1>5 DEF FilesApart, OpenFileIsKnown
<1>11. ShutdownLast'
  BY <1>1, <1>5 DEF ShutdownLast
<1>12. ShutAfterDrained'
  BY <1>1, <1>4, <1>7, NothingIsLeft DEF ShutAfterDrained
<1>13. QED
  BY <1>6, <1>8, <1>9, <1>10, <1>11, <1>12

(* send() and the two halves of sendFile() on another thread.              *)
LEMMA QueueSendKeeps ==
  ASSUME OutputInv, QueueSend
  PROVE  OutputInv'
<1> USE DEF OutputInv
<1> DEFINE f == <<"send", sends + 1>>
<1>1. /\ f \in Functors /\ f[1] = "send" /\ sends' \in 0 .. MaxSends
      /\ queue' = Append(queue, f)
      /\ UNCHANGED <<state, writing, shut, broken, files, filing, paused, outBuf, overlaps, gaveUp>>
      /\ UNCHANGED <<sendFd, sendLen, openFds, begun, owed, astray>>
  BY OutputAssumption DEF QueueSend, dataVars, fileVars, owedVars, Functors, Messages, TypeOK
<1> HIDE DEF f
<1>2. queue \in Seq(Functors)
  BY DEF TypeOK, Functors
<1>3. /\ queue' \in Seq(Functors) /\ Names(queue') = Names(queue) \cup {"send"}
      /\ FilesFirst(queue) => FilesFirst(queue')
  <2>1. f[1] # "sendFile"
    BY <1>1
  <2>2. QED
    BY <1>1, <1>2, <2>1, NamesOfQueue, FilesStayFirst
<1>4. /\ Queued("sendFile")' <=> Queued("sendFile")
      /\ Queued("shutdown")' <=> Queued("shutdown")
  <2>1. /\ "sendFile" \in Names(queue') <=> "sendFile" \in Names(queue)
        /\ "shutdown" \in Names(queue') <=> "shutdown" \in Names(queue)
    BY <1>3
  <2>2. QED
    BY <2>1, QueuedByName
<1>5. owed' \in [Kinds -> Seq(Units)] /\ astray' \in BOOLEAN /\ NothingLostOrReordered'
  <2>1. FileRest' = FileRest /\ overlaps \subseteq overlaps'
    BY <1>1 DEF FileRest
  <2>2. QED
    BY <1>1, <2>1, OrderStays
<1>6. TypeOK'
  BY <1>1, <1>3, <1>5 DEF TypeOK, Functors
<1>7. Watched' /\ WatchesWhenNeeded' /\ FilesApart' /\ OpenFileIsKnown'
  BY <1>1, <1>4 DEF Watched, WatchesWhenNeeded, FilesApart, OpenFileIsKnown
<1>8. ShutdownLast' /\ ShutAfterDrained'
  BY <1>1, <1>3, <1>4 DEF ShutdownLast, ShutAfterDrained
<1>9. QED
  BY <1>5, <1>6, <1>7, <1>8

LEMMA SetSendFdKeeps ==
  ASSUME OutputInv, SetSendFd
  PROVE  OutputInv'
<1> USE DEF OutputInv
<1>1. /\ files < MaxFiles /\ files' = files + 1 /\ filing' = filing \cup {NextFile}
      /\ sendFd' = NextFile /\ openFds' = openFds \cup {NextFile} /\ begun' = FALSE
      /\ overlaps' = overlaps \cup (IF FileNotThrough THEN {"file"} ELSE {})
                              \cup (IF state # "kConnected" THEN {"shutdown"} ELSE {})
      /\ Moves("files", <<>>, <<>>)
      /\ UNCHANGED <<state, writing, shut, broken, outBuf, sendLen, queue, sends, gaveUp, paused>>
  BY DEF SetSendFd
<1>2. NextFile \in FileIds /\ files' \in 0 .. MaxFiles
  BY <1>1, OutputAssumption DEF NextFile, FileIds, TypeOK
<1>3. /\ overlaps' \in SUBSET Overlaps /\ overlaps \subseteq overlaps'
      /\ "file" \notin overlaps' =>
           "file" \notin overlaps /\ filing = {} /\ sendLen = 0 /\ ~Queued("sendFile")
      /\ "shutdown" \notin overlaps' => "shutdown" \notin overlaps /\ state = "kConnected"
  <2>1. ~FileNotThrough => filing = {} /\ sendLen = 0 /\ ~Queued("sendFile")
    BY OutputAssumption DEF FileNotThrough, TypeOK
  <2>2. QED
    BY <1>1, <2>1 DEF TypeOK, Overlaps
<1>4. owed' \in [Kinds -> Seq(Units)] /\ astray' \in BOOLEAN /\ NothingLostOrReordered'
  <2>1. <<>> \in Seq(Units) /\ <<>> \o <<>> = <<>>
    BY EmptySeq, ConcatEmptySeq
  <2>2. FileRest' = <<>>
    BY <1>1 DEF FileRest
  <2>3. "file" \notin overlaps' => FileRest = <<>>
    <3>1. sendLen = 0 => ~FileGoesOut
      BY DEF FileGoesOut
    <3>2. QED
      BY <1>3, <3>1, NothingGoesOut
  <2>4. QED
    BY <1>1, <1>3, <2>1, <2>2, <2>3, FileMoves
<1>5. TypeOK'
  <2>1. /\ begun' \in BOOLEAN /\ sendFd' \in FileIds \cup {NoFile}
        /\ filing' \in SUBSET FileIds /\ openFds' \in SUBSET FileIds
    BY <1>1, <1>2 DEF TypeOK
  <2>2. QED
    BY <1>1, <1>2, <1>3, <1>4, <2>1 DEF TypeOK
<1>6. \A what : Queued(what)' <=> Queued(what)
  BY <1>1 DEF Queued
<1>7. Watched' /\ WatchesWhenNeeded'
  BY <1>1, <1>6 DEF Watched, WatchesWhenNeeded
<1>8. FilesApart' /\ OpenFileIsKnown'
  <2>1. ASSUME "file" \notin overlaps'
        PROVE  /\ filing' = {sendFd'} /\ sendLen' = 0 /\ ~begun' /\ ~Queued("sendFile")'
               /\ openFds' = {sendFd'}
    <3>1. filing = {} /\ openFds = {} /\ sendLen = 0
      BY <1>3, <2>1 DEF OpenFileIsKnown
    <3>2. QED
      BY <1>1, <1>3, <1>6, <2>1, <3>1
  <2>2. QED
    BY <2>1, OutputAssumption DEF FilesApart, OpenFileIsKnown
<1>9. ShutdownLast' /\ ShutAfterDrained'
  BY <1>1, <1>3, <1>6 DEF ShutdownLast, ShutAfterDrained
<1>10. QED
  BY <1>4, <1>5, <1>7, <1>8, <1>9

LEMMA SetSendLenKeeps ==
  ASSUME OutputInv, SetSendLen
  PROVE  OutputInv'
<1> USE DEF OutputInv
<1> DEFINE f == <<"sendFile", 0>>
<1>1. /\ filing # {} /\ \E fd \in filing : filing' = filing \ {fd}
      /\ sendLen' = Size
      /\ queue' = Append(queue, f)
      /\ UNCHANGED <<state, writing, shut, broken, outBuf, sendFd, openFds, begun, sends, files>>
      /\ UNCHANGED <<overlaps, owed, astray, gaveUp, paused>>
  BY DEF SetSendLen, owedVars
<1>2. f \in Functors /\ f[1] = "sendFile" /\ queue \in Seq(Functors) /\ Size \in Nat \ {0}
  BY OutputAssumption DEF TypeOK, Functors
<1> HIDE DEF f
<1>3. /\ queue' \in Seq(Functors) /\ Names(queue') = Names(queue) \cup {"sendFile"}
      /\ "shutdown" \notin Names(queue) /\ FilesFirst(queue) => FilesFirst(queue')
  BY <1>1, <1>2, NamesOfQueue, FilesStayFirst
<1>4. /\ Queued("sendFile")'
      /\ Queued("shutdown")' <=> Queued("shutdown")
  <2>1. /\ "sendFile" \in Names(queue')
        /\ "shutdown" \in Names(queue') <=> "shutdown" \in Names(queue)
    BY <1>3
  <2>2. QED
    BY <2>1, QueuedByName
<1>5. "file" \notin overlaps => filing = {sendFd} /\ filing' = {} /\ ~begun /\ sendFd \in FileIds
  <2>1. "file" \notin overlaps => filing = {sendFd} /\ ~begun
    BY <1>1 DEF FilesApart
  <2>2. QED
    BY <1>1, <2>1 DEF TypeOK
<1>6. owed' \in [Kinds -> Seq(Units)] /\ astray' \in BOOLEAN /\ NothingLostOrReordered'
  <2>1. "file" \in overlaps' \/ FileRest' = FileRest
    BY <1>1, <1>5 DEF FileRest
  <2>2. overlaps \subseteq overlaps'
    BY <1>1
  <2>3. QED
    BY <1>1, <2>1, <2>2, OrderStays
<1>7. TypeOK'
  <2>1. sendLen' \in 0 .. Size /\ filing' \in SUBSET FileIds
    BY <1>1, <1>2 DEF TypeOK
  <2>2. QED
    BY <1>1, <1>3, <1>6, <2>1 DEF TypeOK, Functors
<1>8. Watched' /\ WatchesWhenNeeded'
  BY <1>1, <1>2, <1>4 DEF Watched, WatchesWhenNeeded
<1>9. FilesApart' /\ OpenFileIsKnown'
  <2>1. "file" \notin overlaps => sendFd \in openFds
    BY <1>1, <1>5 DEF FilesApart
  <2>2. QED
    BY <1>1, <1>2, <1>5, <2>1 DEF FilesApart, OpenFileIsKnown
<1>10. ShutdownLast' /\ ShutAfterDrained'
  <2>1. ASSUME "shutdown" \notin overlaps
        PROVE  /\ state # "kDisconnecting"
               /\ state = "kConnected" => ~shut /\ "shutdown" \notin Names(queue)
    BY <1>1, <2>1, QueuedByName DEF ShutdownLast
  <2>2. state \in {"kConnected", "kDisconnecting", "kDisconnected"}
    BY DEF TypeOK
  <2>3. ShutAfterDrained'
    BY <1>1, <2>1, <2>2 DEF ShutAfterDrained
  <2>4. "shutdown" \notin overlaps /\ state # "kDisconnected" => FilesFirst(queue')
    BY <1>3, <2>1, <2>2 DEF ShutdownLast
  <2>5. "shutdown" \notin overlaps' /\ state' = "kDisconnecting" => filing' = {}
    BY <1>1, <2>1
  <2>6. shut' \/ Queued("shutdown")' => state' # "kConnected"
    BY <1>1, <1>4 DEF ShutdownLast
  <2>7. QED
    BY <1>1, <2>3, <2>4, <2>5, <2>6 DEF ShutdownLast
<1>11. QED
  BY <1>6, <1>7, <1>8, <1>9, <1>10

(* A functor that has nothing to do with the output, or comes too late.    *)
LEMMA FunctorPasses ==
  ASSUME OutputInv, queue # <<>>,
         UNCHANGED <<state, writing, broken, sends, files, filing, paused, outBuf, overlaps, gaveUp>>,
         UNCHANGED <<sendFd, sendLen, openFds, begun, owed, astray>>,
         queue' = Tail(queue),
         Head(queue)[1] = "sendFile" => state = "kDisconnected",
         shut' \in BOOLEAN, shut => shut', shut' # shut => ~writing /\ Head(queue)[1] = "shutdown"
  PROVE  OutputInv'
<1> USE DEF OutputInv
<1>1. queue \in Seq(Functors)
  BY DEF TypeOK, Functors
<1>2. /\ queue' \in Seq(Functors) /\ Names(queue) = {Head(queue)[1]} \cup Names(queue')
      /\ FilesFirst(queue) => /\ FilesFirst(queue')
                              /\ Head(queue)[1] = "shutdown" => "sendFile" \notin Names(queue)
  BY <1>1, NamesOfQueue, FilesStayFirst
<1>3. /\ state # "kDisconnected" => (Queued("sendFile")' <=> Queued("sendFile"))
      /\ Queued("sendFile")' => Queued("sendFile")
      /\ Queued("shutdown")' \/ Head(queue)[1] = "shutdown" => Queued("shutdown")
  BY <1>2, QueuedByName
<1>4. owed' \in [Kinds -> Seq(Units)] /\ astray' \in BOOLEAN /\ NothingLostOrReordered'
  <2>1. FileRest' = FileRest /\ overlaps \subseteq overlaps'
    BY DEF FileRest
  <2>2. QED
    BY <2>1, OrderStays
<1>5. TypeOK'
  BY <1>2, <1>4 DEF TypeOK, Functors
<1>6. Watched' /\ WatchesWhenNeeded'
  <2>1. Watched'
    BY DEF Watched
  <2>2. state # "kDisconnected" /\ sendLen > 0 /\ ~shut' /\ ~Queued("sendFile")' /\ ~broken => writing
    BY <1>3 DEF WatchesWhenNeeded
  <2>3. QED
    BY <2>1, <2>2 DEF Watched, WatchesWhenNeeded
<1>7. FilesApart' /\ OpenFileIsKnown'
  BY <1>3 DEF FilesApart, OpenFileIsKnown
<1>8. ShutdownLast'
  <2>1. shut' => shut \/ Queued("shutdown")
    BY <1>3 DEF TypeOK
  <2>2. QED
    BY <1>2, <1>3, <2>1 DEF ShutdownLast
<1>9. ShutAfterDrained'
  <2>1. ASSUME shut', ~shut, state # "kDisconnected", ~broken, "shutdown" \notin overlaps
        PROVE  outBuf = <<>> /\ sendLen = 0
    <3>1. ~writing /\ Head(queue)[1] = "shutdown"
      BY <2>1
    <3>2. ~Queued("sendFile")
      BY <1>2, <2>1, <3>1, QueuedByName DEF ShutdownLast
    <3>3. QED
      BY <2>1, <3>1, <3>2, NothingIsLeft
  <2>2. QED
    BY <2>1 DEF ShutAfterDrained
<1>10. QED
  BY <1>4, <1>5, <1>6, <1>7, <1>8, <1>9

(* The functor of sendFile.                                                *)
LEMMA FileFunctorKeeps ==
  ASSUME OutputInv, queue # <<>>, Head(queue)[1] = "sendFile", state # "kDisconnected",
         UNCHANGED overlaps, SendFileInLoop(sendFd, sendLen, TakenUp, openFds, Racing), begun' = TRUE,
         queue' = Tail(queue), UNCHANGED <<shut, outBuf, sendFd, paused>>,
         UNCHANGED <<state, broken, sends, files, filing, gaveUp>>
  PROVE  OutputInv'
<1> USE DEF OutputInv
<1>1. queue \in Seq(Functors)
  BY DEF TypeOK, Functors
<1>2. /\ queue' \in Seq(Functors) /\ Names(queue) = {"sendFile"} \cup Names(queue')
      /\ FilesFirst(queue) => FilesFirst(queue')
  BY <1>1, NamesOfQueue, FilesStayFirst
<1>3. /\ Queued("sendFile")
      /\ Queued("shutdown")' <=> Queued("shutdown")
  <2>1. "shutdown" \in Names(queue') <=> "shutdown" \in Names(queue)
    BY <1>2
  <2>2. QED
    BY <1>2, <2>1, QueuedByName
<1>4. "file" \notin overlaps => /\ ~Racing /\ filing = {}
                                /\ ~begun /\ sendLen > 0 => sendLen = Size
                                /\ ~begun /\ sendLen = 0 => sendFd = NoFile
                                /\ sendLen > 0 => sendFd \in openFds
                                /\ openFds \subseteq (IF sendLen > 0 THEN {sendFd} ELSE {})
  BY <1>3 DEF FilesApart, OpenFileIsKnown, Racing
<1>5. /\ sendFd \in FileIds \cup {NoFile} /\ sendLen \in 0 .. Size /\ Size \in Nat \ {0}
      /\ openFds \in SUBSET FileIds /\ Racing \in BOOLEAN /\ TakenUp \in Seq(Units)
      /\ NoFile \notin FileIds
  <2>1. sendFd \in FileIds \cup {NoFile} /\ sendLen \in 0 .. Size /\ Size \in Nat \ {0} /\ openFds \in SUBSET FileIds
    BY OutputAssumption DEF TypeOK
  <2>2. Racing \in BOOLEAN
    BY DEF Racing
  <2>3. TakenUp \in Seq(Units)
    <3>1. <<>> \in Seq(Units)
      BY EmptySeq
    <3>2. sendFd \in FileIds => From(sendFd, 1) \in Seq(Units)
      <4>1. 1 \in 1 .. Size + 1 /\ 0 \in 0 .. Size - 1 + 1
        BY <2>1
      <4>2. QED
        BY <4>1, FromSplits
    <3>3. QED
      BY <2>1, <3>1, <3>2 DEF TakenUp
  <2>4. NoFile \notin FileIds
    BY OutputAssumption DEF NoFile, FileIds
  <2>5. QED
    BY <2>1, <2>2, <2>3, <2>4
<1>6. FileSent(sendFd, sendLen, TakenUp, openFds, Racing)
  BY <1>5, SendFileInLoopDoes
<1>7. \* what the loop owes of the file before it has offered any of it
      ASSUME "file" \notin overlaps, sendLen > 0
      PROVE  FileRest \o TakenUp = Rest(sendFd, sendLen) /\ Rest(sendFd, sendLen) \in Seq(Units)
  <2>1. sendFd \in FileIds /\ sendFd # NoFile
    BY <1>4, <1>5, <1>7
  <2>2. Rest(sendFd, sendLen) \in Seq(Units)
    <3>1. 0 \in 0 .. sendLen
      BY <1>5
    <3>2. QED
      BY <1>5, <2>1, <3>1, RestSplits
  <2>3. CASE begun
    <3>1. FileRest = Rest(sendFd, sendLen) /\ TakenUp = <<>>
      BY <2>3 DEF FileRest, TakenUp, Rest
    <3>2. QED
      BY <2>2, <3>1, ConcatEmptySeq
  <2>4. CASE ~begun
    <3>1. Size - sendLen + 1 = 1
      BY <1>4, <1>5, <1>7, <2>4
    <3>2. FileRest = <<>> /\ TakenUp = Rest(sendFd, sendLen)
      BY <2>1, <2>4, <3>1 DEF FileRest, TakenUp, Rest
    <3>3. QED
      BY <2>2, <3>2, ConcatEmptySeq
  <2>5. QED
    BY <2>2, <2>3, <2>4
<1>8. owed' \in [Kinds -> Seq(Units)] /\ astray' \in BOOLEAN /\ NothingLostOrReordered'
  <2>1. PICK taken \in Seq(Units) :
         /\ Moves("files", TakenUp, taken)
         /\ taken = <<>> \/ outBuf = <<>>
         /\ ~Racing => \/ taken = <<>> /\ sendLen' = sendLen
                       \/ /\ sendFd \in openFds /\ Rest(sendFd, sendLen) = taken \o Rest(sendFd, sendLen')
                          /\ Rest(sendFd, sendLen') \in Seq(Units)
    BY <1>6 DEF FileSent
  <2>2. FileRest' = Rest(sendFd, sendLen')
    BY DEF FileRest, Rest
  <2>3. ASSUME "file" \notin overlaps
        PROVE  FileRest' \in Seq(Units) /\ FileRest \o TakenUp = taken \o FileRest'
    <3>1. CASE sendLen > 0
      <4>1. FileRest \o TakenUp = Rest(sendFd, sendLen) /\ Rest(sendFd, sendLen) \in Seq(Units)
        BY <1>7, <2>3, <3>1
      <4>2. CASE taken = <<>> /\ sendLen' = sendLen
        BY <2>2, <4>1, <4>2, ConcatEmptySeq
      <4>3. CASE Rest(sendFd, sendLen) = taken \o Rest(sendFd, sendLen') /\ Rest(sendFd, sendLen') \in Seq(Units)
        BY <2>2, <4>1, <4>3
      <4>4. QED
        BY <1>4, <2>1, <2>3, <4>2, <4>3
    <3>2. CASE sendLen = 0
      <4>1. openFds = {}
        BY <1>4, <2>3, <3>2
      <4>2. taken = <<>> /\ sendLen' = 0
        BY <1>4, <2>1, <2>3, <3>2, <4>1
      <4>3. Size - 0 + 1 = Size + 1
        BY <1>5
      <4>4. FileRest' = <<>>
        BY <2>2, <4>2, <4>3, NothingLeft DEF Rest
      <4>5. FileRest = <<>>
        <5>1. ~FileGoesOut
          BY <3>2 DEF FileGoesOut
        <5>2. QED
          BY <5>1, NothingGoesOut
      <4>6. TakenUp = <<>>
        BY <1>4, <2>3, <3>2 DEF TakenUp
      <4>7. <<>> \in Seq(Units) /\ <<>> \o <<>> = <<>>
        BY EmptySeq, ConcatEmptySeq
      <4>8. QED
        BY <4>2, <4>4, <4>5, <4>6, <4>7
    <3>3. QED
      BY <1>5, <3>1, <3>2
  <2>4. QED
    BY <1>5, <2>1, <2>3, FileMoves
<1>9. /\ sendLen' \in 0 .. Size /\ openFds' \in SUBSET FileIds /\ writing' \in BOOLEAN
      /\ writing' => writing \/ sendLen' > 0
      /\ writing => writing'
      /\ sendLen' > 0 => writing' \/ broken \/ shut
      /\ shut => sendLen' = sendLen
      /\ openFds' \subseteq openFds
      /\ ~Racing => /\ sendLen' <= sendLen
                    /\ sendLen' > 0 => openFds' = openFds
                    /\ sendLen' = 0 /\ sendLen > 0 => openFds' \subseteq openFds \ {sendFd}
  BY <1>6 DEF FileSent
<1>10. TypeOK'
  <2>1. begun' \in BOOLEAN
    OBVIOUS
  <2>2. QED
    BY <1>2, <1>8, <1>9, <2>1 DEF TypeOK, Functors
<1>11. Watched' /\ WatchesWhenNeeded'
  <2>1. writing' => outBuf # <<>> \/ sendLen' > 0
    <3>1. ASSUME outBuf = <<>>, writing
          PROVE  sendLen' = sendLen
      BY <3>1 DEF SendFileInLoop, MayWriteDirectly
    <3>2. QED
      BY <1>9, <3>1 DEF Watched
  <2>2. QED
    BY <1>9, <2>1 DEF Watched, WatchesWhenNeeded
<1>12. FilesApart' /\ OpenFileIsKnown'
  <2>1. ASSUME "file" \notin overlaps
        PROVE  /\ filing' = {}
               /\ sendLen' > 0 => sendFd' \in openFds'
               /\ openFds' \subseteq (IF sendLen' > 0 THEN {sendFd'} ELSE {})
    <3>1. CASE sendLen' > 0
      <4>1. openFds' = openFds /\ sendLen > 0
        BY <1>4, <1>5, <1>9, <2>1, <3>1
      <4>2. QED
        BY <1>4, <2>1, <3>1, <4>1
    <3>2. CASE sendLen' = 0
      <4>1. openFds' = {}
        <5>1. CASE sendLen = 0
          BY <1>4, <1>9, <2>1, <5>1
        <5>2. CASE sendLen > 0
          BY <1>4, <1>9, <2>1, <3>2, <5>2
        <5>3. QED
          BY <1>5, <5>1, <5>2
      <4>2. QED
        BY <1>4, <2>1, <3>2, <4>1
    <3>3. QED
      BY <1>5, <1>9, <3>1, <3>2
  <2>2. QED
    BY <2>1 DEF FilesApart, OpenFileIsKnown
<1>13. ShutdownLast'
  BY <1>2, <1>3 DEF ShutdownLast
<1>14. ShutAfterDrained'
  BY <1>9 DEF ShutAfterDrained
<1>15. QED
  BY <1>8, <1>10, <1>11, <1>12, <1>13, <1>14

(* A functor is run.                                                       *)
LEMMA RunFunctorKeeps ==
  ASSUME OutputInv, RunFunctor
  PROVE  OutputInv'
<1> DEFINE f == Head(queue)
<1>1. queue # <<>> /\ queue \in Seq(Functors)
      /\ UNCHANGED <<state, broken, sends, files, filing, gaveUp>>
  BY DEF RunFunctor, OutputInv, TypeOK, Functors
<1>2. /\ f \in Functors /\ Tail(queue) \in Seq(Functors)
      /\ Names(queue) = {f[1]} \cup Names(Tail(queue))
      /\ FilesFirst(queue) => FilesFirst(Tail(queue))
  BY <1>1, NamesOfQueue, FilesStayFirst
<1> HIDE DEF f
<1>3. CASE f[1] = "send" /\ SendInLoop(f[2], Tail(queue)) /\ UNCHANGED <<shut, fileVars>>
  <2>1. f[2] \in Messages
    <3>1. f \notin {"sendFile", "shutdown", "writeComplete", "highWater"} \X {0}
      BY <1>3
    <3>2. QED
      BY <1>2, <3>1 DEF Functors
  <2>2. /\ Names(Tail(queue)) \subseteq Names(queue)
        /\ Names(queue) \subseteq Names(Tail(queue)) \cup {"send"}
    BY <1>2, <1>3
  <2>3. sends' \in 0 .. MaxSends
    BY <1>1 DEF OutputInv, TypeOK
  <2>4. QED
    BY <1>1, <1>2, <1>3, <2>1, <2>2, <2>3, MessageKeeps
<1>4. CASE /\ f[1] = "sendFile" /\ state # "kDisconnected"
           /\ UNCHANGED overlaps
           /\ SendFileInLoop(sendFd, sendLen, TakenUp, openFds, Racing)
           /\ begun' = TRUE
           /\ queue' = Tail(queue)
           /\ UNCHANGED <<shut, outBuf, sendFd, paused>>
  BY <1>1, <1>4, FileFunctorKeeps DEF f
<1>5. CASE /\ \/ f[1] = "sendFile" /\ state = "kDisconnected" /\ UNCHANGED shut
              \/ f[1] = "shutdown" /\ ShutdownInLoop
              \/ f[1] \in {"writeComplete", "highWater"} /\ UNCHANGED shut
           /\ queue' = Tail(queue)
           /\ UNCHANGED <<writing, outBuf, owedVars, overlaps, fileVars, paused>>
  <2>1. /\ shut' \in BOOLEAN /\ (shut => shut')
        /\ shut' # shut => ~writing /\ f[1] = "shutdown"
    <3>1. ShutdownInLoop => /\ shut' \in BOOLEAN /\ (shut => shut')
                            /\ shut' # shut => ~writing
      BY DEF ShutdownInLoop, ShutdownTest, OutputInv, TypeOK
    <3>2. shut \in BOOLEAN
      BY DEF OutputInv, TypeOK
    <3>3. QED
      BY <1>5, <3>1, <3>2
  <2>2. f[1] = "sendFile" => state = "kDisconnected"
    BY <1>5
  <2>3. UNCHANGED <<writing, outBuf, overlaps, paused, sendFd, sendLen, openFds, begun, owed, astray>>
        /\ queue' = Tail(queue)
    BY <1>5 DEF owedVars, fileVars
  <2>4. QED
    BY <1>1, <2>1, <2>2, <2>3, FunctorPasses DEF f
<1>6. QED
  BY <1>3, <1>4, <1>5 DEF RunFunctor, f

(* handleWrite, the buffer.                                                *)
LEMMA WriteBufferKeeps ==
  ASSUME OutputInv, WriteBuffer
  PROVE  OutputInv'
<1> USE DEF OutputInv
<1>1. PICK n \in 1 .. Len(outBuf) :
         /\ Moves("messages", <<>>, SubSeq(outBuf, 1, n))
         /\ outBuf' = SubSeq(outBuf, n + 1, Len(outBuf))
         /\ IF Drained(outBuf')
            THEN /\ writing' = FALSE
                 /\ QueueWriteComplete(queue)
                 /\ ShutdownAfterWrite
            ELSE UNCHANGED <<writing, queue, paused, shut>>
  BY DEF WriteBuffer
<1>2. /\ writing /\ ~broken /\ ~shut /\ outBuf # <<>>
      /\ UNCHANGED <<state, broken, sends, files, filing, overlaps, gaveUp>>
      /\ UNCHANGED <<sendFd, sendLen, openFds, begun>>
  BY DEF WriteBuffer, fileVars
<1> DEFINE taken == SubSeq(outBuf, 1, n)
<1>3. taken \in Seq(Units) /\ outBuf' \in Seq(Units) /\ outBuf = taken \o outBuf'
  <2>1. Len(outBuf) \in Nat /\ n \in 0 .. Len(outBuf) /\ outBuf \in Seq(Units)
    BY LenProperties DEF TypeOK
  <2>2. /\ SubSeq(outBuf, 1, n) \in Seq(Units) /\ SubSeq(outBuf, n + 1, Len(outBuf)) \in Seq(Units)
        /\ outBuf = SubSeq(outBuf, 1, n) \o SubSeq(outBuf, n + 1, Len(outBuf))
    BY <2>1, SplitSeq
  <2>3. outBuf' = SubSeq(outBuf, n + 1, Len(outBuf))
    BY <1>1
  <2>4. QED
    BY <2>2, <2>3
<1>4. Moves("messages", <<>>, taken)
  BY <1>1
<1> HIDE DEF taken
<1>5. owed' \in [Kinds -> Seq(Units)] /\ astray' \in BOOLEAN /\ NothingLostOrReordered'
  <2>1. FileRest' = FileRest /\ overlaps \subseteq overlaps'
    BY <1>2 DEF FileRest
  <2>2. <<>> \in Seq(Units) /\ outBuf \o <<>> = outBuf
    BY EmptySeq, ConcatEmptySeq DEF TypeOK
  <2>3. outBuf \o <<>> = taken \o outBuf'
    BY <1>3, <2>2
  <2>4. QED
    BY <1>3, <1>4, <2>1, <2>2, <2>3, MessageMoves
<1>6. NoticeQueued(queue)
  <2>1. queue \in Seq(Functors)
    BY DEF TypeOK, Functors
  <2>2. \/ queue' = Append(queue, <<"writeComplete", 0>>) /\ paused' = FALSE
        \/ queue' = queue /\ paused' = paused
    BY <1>1 DEF QueueWriteComplete
  <2>3. QED
    BY <2>1, <2>2, NoticesQueued
<1>7. /\ queue' \in Seq(Functors) /\ paused' \in BOOLEAN
      /\ Queued("sendFile")' <=> Queued("sendFile")
      /\ Queued("shutdown")' <=> Queued("shutdown")
      /\ FilesFirst(queue) => FilesFirst(queue')
  <2>1. /\ "sendFile" \in Names(queue') <=> "sendFile" \in Names(queue)
        /\ "shutdown" \in Names(queue') <=> "shutdown" \in Names(queue)
    BY <1>6 DEF NoticeQueued
  <2>2. QED
    BY <1>6, <2>1, QueuedByName DEF NoticeQueued
<1>8. /\ shut' \in BOOLEAN /\ writing' \in BOOLEAN
      /\ writing' => writing
      /\ shut' => state = "kDisconnecting" /\ outBuf' = <<>> /\ sendLen = 0
      /\ ~writing' => outBuf' = <<>> /\ sendLen = 0
      /\ writing' => outBuf' # <<>> \/ sendLen # 0
  <2>1. CASE Drained(outBuf')
    BY <1>1, <1>2, <2>1 DEF Drained, ShutdownAfterWrite, TypeOK
  <2>2. CASE ~Drained(outBuf')
    BY <1>1, <1>2, <2>2 DEF Drained, TypeOK
  <2>3. QED
    BY <2>1, <2>2
<1>9. TypeOK'
  BY <1>2, <1>3, <1>5, <1>7, <1>8 DEF TypeOK, Functors
<1>10. Watched' /\ WatchesWhenNeeded'
  <2>1. sendLen # 0 => sendLen > 0
    BY OutputAssumption DEF TypeOK
  <2>2. sendLen > 0 => writing'
    BY <1>8
  <2>3. QED
    BY <1>2, <1>8, <2>1, <2>2 DEF Watched, WatchesWhenNeeded
<1>11. FilesApart' /\ OpenFileIsKnown'
  BY <1>2, <1>7 DEF FilesApart, OpenFileIsKnown
<1>12. ShutdownLast' /\ ShutAfterDrained'
  BY <1>2, <1>7, <1>8 DEF ShutdownLast, ShutAfterDrained
<1>13. QED
  BY <1>5, <1>9, <1>10, <1>11, <1>12

(* handleWrite, the file.                                                  *)
LEMMA WriteFileKeeps ==
  ASSUME OutputInv, WriteFile
  PROVE  OutputInv'
<1> USE DEF OutputInv
<1>1. /\ writing /\ ~broken /\ ~shut /\ outBuf = <<>> /\ begun' = TRUE
      /\ UNCHANGED <<state, broken, queue, sends, files, filing, outBuf, overlaps, gaveUp, paused>>
  BY DEF WriteFile
<1> DEFINE Writes(fd, n) ==
             /\ Takes(TakenUp, fd, sendLen, n)
             /\ sendLen' \in Left(sendLen, n, Racing)
             /\ IF sendLen' = 0
                THEN writing' = FALSE /\ CloseFile(fd) /\ ShutdownAfterWrite
                ELSE UNCHANGED <<writing, sendFd, openFds, shut>>
<1>a. PICK fd \in Seen(sendFd, openFds, Racing) \cap openFds : \E n \in 1 .. sendLen : Writes(fd, n)
  BY Zenon DEF WriteFile
<1>b. PICK n \in 1 .. sendLen : Writes(fd, n)
  BY <1>a
<1>2. /\ Takes(TakenUp, fd, sendLen, n)
      /\ sendLen' \in Left(sendLen, n, Racing)
      /\ IF sendLen' = 0
         THEN writing' = FALSE /\ CloseFile(fd) /\ ShutdownAfterWrite
         ELSE UNCHANGED <<writing, sendFd, openFds, shut>>
  BY <1>b
<1> HIDE DEF Writes
<1>3. sendLen \in 0 .. Size /\ sendLen > 0 /\ n \in 0 .. sendLen /\ Size \in Nat \ {0} /\ fd \in FileIds
      /\ NoFile \notin FileIds
  <2>1. sendLen \in 0 .. Size /\ Size \in Nat \ {0}
    BY OutputAssumption DEF TypeOK
  <2>2. sendLen > 0 /\ n \in 0 .. sendLen
    BY <2>1
  <2>3. fd \in FileIds
    BY DEF TypeOK
  <2>4. NoFile \notin FileIds
    BY OutputAssumption DEF NoFile, FileIds
  <2>5. QED
    BY <2>1, <2>2, <2>3, <2>4
<1>4. "file" \notin overlaps => /\ ~Racing /\ filing = {} /\ fd = sendFd
                                /\ ~begun => sendLen = Size
                                /\ openFds \subseteq {sendFd}
  <2>1. "file" \notin overlaps => ~Racing /\ filing = {} /\ (~begun => sendLen = Size)
    BY <1>3 DEF FilesApart, Racing
  <2>2. "file" \notin overlaps => fd = sendFd
    BY <1>2, <2>1 DEF Seen
  <2>3. "file" \notin overlaps => openFds \subseteq {sendFd}
    BY <1>3, <2>1 DEF OpenFileIsKnown
  <2>4. QED
    BY <2>1, <2>2, <2>3
<1>5. sendLen' \in 0 .. Size /\ (~Racing => sendLen' = sendLen - n)
  BY <1>2, <1>3 DEF Left
<1> DEFINE taken == SubSeq(Rest(fd, sendLen), 1, n)
<1>6. /\ taken \in Seq(Units) /\ Rest(fd, sendLen) \in Seq(Units) /\ Rest(fd, sendLen - n) \in Seq(Units)
      /\ Rest(fd, sendLen) = taken \o Rest(fd, sendLen - n)
      /\ Moves("files", TakenUp, taken)
  <2>1. Moves("files", TakenUp, taken)
    BY <1>2 DEF Takes, Rest
  <2>2. QED
    BY <1>3, <2>1, RestSplits
<1> HIDE DEF taken
<1>7. TakenUp \in Seq(Units)
  <2>1. 1 \in 1 .. Size + 1 /\ 0 \in 0 .. Size - 1 + 1
    BY <1>3
  <2>2. sendFd \in FileIds => From(sendFd, 1) \in Seq(Units)
    BY <2>1, FromSplits
  <2>3. QED
    BY <2>2, EmptySeq DEF TakenUp, TypeOK
<1>8. owed' \in [Kinds -> Seq(Units)] /\ astray' \in BOOLEAN /\ NothingLostOrReordered'
  <2>1. ASSUME "file" \notin overlaps
        PROVE  FileRest' \in Seq(Units) /\ FileRest \o TakenUp = taken \o FileRest'
    <3>1. FileRest \o TakenUp = Rest(fd, sendLen)
      <4>1. CASE begun
        <5>1. FileRest = Rest(fd, sendLen) /\ TakenUp = <<>>
          BY <1>4, <2>1, <4>1 DEF FileRest, TakenUp, Rest
        <5>2. QED
          BY <1>6, <5>1, ConcatEmptySeq
      <4>2. CASE ~begun
        <5>1. Size - sendLen + 1 = 1 /\ sendFd # NoFile
          BY <1>3, <1>4, <2>1, <4>2
        <5>2. FileRest = <<>> /\ TakenUp = Rest(fd, sendLen)
          BY <1>4, <2>1, <4>2, <5>1 DEF FileRest, TakenUp, Rest
        <5>3. QED
          BY <1>6, <5>2, ConcatEmptySeq
      <4>3. QED
        BY <4>1, <4>2
    <3>2. FileRest' = Rest(fd, sendLen - n)
      <4>1. FileRest' = Rest(sendFd', sendLen') /\ sendLen' = sendLen - n
        BY <1>1, <1>4, <1>5, <2>1 DEF FileRest, Rest
      <4>2. CASE sendLen' = 0
        <5>1. Size - sendLen' + 1 = Size + 1
          BY <1>3, <4>2
        <5>2. Rest(sendFd', sendLen') = <<>> /\ Rest(fd, sendLen') = <<>>
          BY <5>1, NothingLeft DEF Rest
        <5>3. QED
          BY <4>1, <5>2
      <4>3. CASE sendLen' # 0
        <5>1. sendFd' = fd
          BY <1>2, <1>4, <2>1, <4>3
        <5>2. QED
          BY <4>1, <5>1
      <4>4. QED
        BY <4>2, <4>3
    <3>3. QED
      BY <1>6, <3>1, <3>2
  <2>2. overlaps \subseteq overlaps' /\ ("file" \notin overlaps' => "file" \notin overlaps)
    BY <1>1
  <2>3. QED
    BY <1>1, <1>6, <1>7, <2>1, <2>2, FileMoves
<1>9. CASE sendLen' = 0
  <2>1. /\ writing' = FALSE /\ openFds' = openFds \ {fd} /\ sendFd' = NoFile
        /\ (shut' = TRUE /\ state = "kDisconnecting") \/ shut' = shut
    BY <1>2, <1>9 DEF CloseFile, ShutdownAfterWrite
  <2>2. TypeOK'
    <3>1. /\ begun' \in BOOLEAN /\ sendFd' \in FileIds \cup {NoFile} /\ openFds' \in SUBSET FileIds
          /\ shut' \in BOOLEAN /\ writing' \in BOOLEAN
      BY <1>1, <2>1 DEF TypeOK
    <3>2. QED
      BY <1>1, <1>5, <1>8, <3>1 DEF TypeOK
  <2>3. Watched' /\ WatchesWhenNeeded'
    BY <1>1, <1>9, <2>1 DEF Watched, WatchesWhenNeeded
  <2>4. FilesApart' /\ OpenFileIsKnown'
    BY <1>1, <1>4, <1>9, <2>1 DEF FilesApart, OpenFileIsKnown
  <2>5. ShutdownLast' /\ ShutAfterDrained'
    BY <1>1, <1>9, <2>1 DEF ShutdownLast, ShutAfterDrained, Queued
  <2>6. QED
    BY <1>8, <2>2, <2>3, <2>4, <2>5
<1>10. CASE sendLen' # 0
  <2>1. UNCHANGED <<writing, sendFd, openFds, shut>> /\ sendLen' > 0
    BY <1>2, <1>5, <1>10
  <2>2. TypeOK'
    <3>1. begun' \in BOOLEAN
      BY <1>1
    <3>2. QED
      BY <1>1, <1>5, <1>8, <2>1, <3>1 DEF TypeOK
  <2>3. Watched' /\ WatchesWhenNeeded'
    BY <1>1, <2>1 DEF Watched, WatchesWhenNeeded
  <2>4. FilesApart' /\ OpenFileIsKnown'
    <3>1. "file" \notin overlaps => sendFd \in openFds
      BY <1>3 DEF FilesApart
    <3>2. QED
      BY <1>1, <1>4, <2>1, <3>1 DEF FilesApart, OpenFileIsKnown
  <2>5. ShutdownLast' /\ ShutAfterDrained'
    BY <1>1, <2>1 DEF ShutdownLast, ShutAfterDrained, Queued
  <2>6. QED
    BY <1>8, <2>2, <2>3, <2>4, <2>5
<1>11. QED
  BY <1>9, <1>10

(* handleWrite when there is no more of the file.                          *)
LEMMA GiveUpFileKeeps ==
  ASSUME OutputInv, GiveUpFile
  PROVE  OutputInv'
<1> USE DEF OutputInv
<1>1. /\ writing /\ outBuf = <<>> /\ sendLen' = 0 /\ writing' = FALSE /\ gaveUp' = TRUE
      /\ sendFd' = NoFile /\ openFds' \subseteq openFds
      /\ "file" \notin overlaps => openFds' = openFds \ {sendFd} \/ Racing
      /\ owed' = [k \in Kinds |-> <<>>]
      /\ UNCHANGED <<state, shut, broken, queue, sends, files, filing, outBuf, astray, begun, overlaps, paused>>
  BY DEF GiveUpFile, CloseFile, Seen
<1>2. \A what : Queued(what)' <=> Queued(what)
  BY <1>1 DEF Queued
<1>3. "file" \notin overlaps => filing = {} /\ openFds' = {}
  <2>1. sendLen > 0
    BY <1>1 DEF Watched
  <2>2. "file" \notin overlaps => ~Racing
    BY DEF Racing
  <2>3. "file" \notin overlaps => filing = {} /\ openFds \subseteq {sendFd}
    BY <2>1, OutputAssumption DEF FilesApart, OpenFileIsKnown, TypeOK
  <2>4. QED
    BY <1>1, <2>2, <2>3
<1>4. owed' \in [Kinds -> Seq(Units)] /\ NothingLostOrReordered'
  <2>1. owed' \in [Kinds -> Seq(Units)]
    BY <1>1, EmptySeq
  <2>2. FileRest' = <<>>
    <3>1. Size - 0 + 1 = Size + 1
      BY OutputAssumption
    <3>2. QED
      BY <1>1, <3>1, NothingLeft DEF FileRest
  <2>3. owed'["messages"] = <<>> /\ owed'["files"] = <<>> /\ owed'["both"] = <<>>
    BY <1>1 DEF Kinds
  <2>4. <<>> \o <<>> = <<>>
    BY EmptySeq, ConcatEmptySeq
  <2>5. outBuf' = <<>> /\ ~astray'
    BY <1>1 DEF NothingLostOrReordered
  <2>6. outBuf' \o FileRest' = <<>>
    BY <2>2, <2>4, <2>5
  <2>7. /\ owed'["messages"] = outBuf' /\ owed'["files"] = FileRest'
        /\ owed'["both"] = outBuf' \o FileRest'
    BY <2>2, <2>3, <2>5, <2>6
  <2>8. NothingLostOrReordered'
    BY <2>5, <2>7 DEF NothingLostOrReordered
  <2>9. QED
    BY <2>1, <2>8
<1>5. TypeOK'
  <2>1. /\ sendLen' \in 0 .. Size /\ sendFd' \in FileIds \cup {NoFile} /\ openFds' \in SUBSET FileIds
        /\ writing' \in BOOLEAN /\ gaveUp' \in BOOLEAN
    <3>1. 0 \in 0 .. Size
      BY OutputAssumption
    <3>2. openFds' \in SUBSET FileIds
      BY <1>1 DEF TypeOK
    <3>3. writing' \in BOOLEAN /\ gaveUp' \in BOOLEAN
      BY <1>1
    <3>4. QED
      BY <1>1, <3>1, <3>2, <3>3
  <2>2. QED
    BY <1>1, <1>4, <2>1 DEF TypeOK
<1>6. Watched' /\ WatchesWhenNeeded'
  BY <1>1 DEF Watched, WatchesWhenNeeded
<1>7. FilesApart' /\ OpenFileIsKnown'
  BY <1>1, <1>3, OutputAssumption DEF FilesApart, OpenFileIsKnown
<1>8. ShutdownLast' /\ ShutAfterDrained'
  BY <1>1, <1>2 DEF ShutdownLast, ShutAfterDrained
<1>9. QED
  BY <1>4, <1>5, <1>6, <1>7, <1>8

(* The connection is closed, or the peer resets it.                        *)
LEMMA EndKeeps ==
  ASSUME OutputInv, HandleClose \/ PeerResets
  PROVE  OutputInv'
<1> USE DEF OutputInv
<1>1. /\ UNCHANGED <<shut, queue, sends, files, filing, paused>>
      /\ UNCHANGED <<outBuf, sendFd, sendLen, openFds, begun, owed, astray, overlaps, gaveUp>>
      /\ \/ state' = "kDisconnected" /\ writing' = FALSE /\ broken' = broken
         \/ state' = state /\ writing' = writing /\ broken' = TRUE
  BY DEF HandleClose, PeerResets, dataVars, fileVars, owedVars
<1>2. \A what : Queued(what)' <=> Queued(what)
  BY <1>1 DEF Queued
<1>3. TypeOK'
  <2>1. writing' \in BOOLEAN /\ broken' \in BOOLEAN /\ state' \in {"kConnected", "kDisconnecting", "kDisconnected"}
    BY <1>1 DEF TypeOK
  <2>2. QED
    BY <1>1, <2>1 DEF TypeOK
<1>4. NothingLostOrReordered'
  <2>1. FileRest' = FileRest /\ overlaps \subseteq overlaps'
    BY <1>1 DEF FileRest
  <2>2. QED
    BY <1>1, <2>1, OrderStays
<1>5. Watched' /\ WatchesWhenNeeded'
  BY <1>1 DEF Watched, WatchesWhenNeeded
<1>6. FilesApart' /\ OpenFileIsKnown'
  BY <1>1, <1>2 DEF FilesApart, OpenFileIsKnown
<1>7. ShutdownLast' /\ ShutAfterDrained'
  BY <1>1, <1>2 DEF ShutdownLast, ShutAfterDrained
<1>8. QED
  BY <1>3, <1>4, <1>5, <1>6, <1>7
-----------------------------------------------------------------------------
(* The invariant behind the theorems.                                      *)
LEMMA OutputInvariant == Spec => []OutputInv
<1>1. Init => OutputInv
  <2> SUFFICES ASSUME Init PROVE OutputInv
    OBVIOUS
  <2>1. TypeOK
    <3>1. <<>> \in Seq(Units) /\ <<>> \in Seq(Functors)
      BY EmptySeq
    <3>2. 0 \in 0 .. Size /\ 0 \in 0 .. MaxSends /\ 0 \in 0 .. MaxFiles
      BY OutputAssumption
    <3>3. owed \in [Kinds -> Seq(Units)]
      BY <3>1 DEF Init
    <3>4. QED
      BY <3>1, <3>2, <3>3 DEF Init, TypeOK, Functors
  <2>2. ~Queued("sendFile") /\ ~Queued("shutdown") /\ FilesFirst(queue)
    BY DEF Init, Queued, FilesFirst
  <2>3. Watched /\ WatchesWhenNeeded /\ FilesApart /\ OpenFileIsKnown /\ ShutdownLast /\ ShutAfterDrained
    BY <2>2 DEF Init, Watched, WatchesWhenNeeded, FilesApart, OpenFileIsKnown, ShutdownLast, ShutAfterDrained
  <2>4. NothingLostOrReordered
    <3>1. FileRest = <<>>
      BY DEF Init, FileRest
    <3>2. <<>> \o <<>> = <<>>
      BY EmptySeq, ConcatEmptySeq
    <3>3. owed["messages"] = <<>> /\ owed["files"] = <<>> /\ owed["both"] = <<>>
      BY DEF Init, Kinds
    <3>4. QED
      BY <3>1, <3>2, <3>3 DEF Init, NothingLostOrReordered
  <2>5. QED
    BY <2>1, <2>3, <2>4 DEF OutputInv
<1>2. OutputInv /\ [Next]_vars => OutputInv'
  <2> SUFFICES ASSUME OutputInv, [Next]_vars
               PROVE  OutputInv'
    OBVIOUS
  <2>1. CASE Send
    BY <2>1, SendKeeps
  <2>2. CASE SendFile
    BY <2>2, SendFileKeeps
  <2>3. CASE Shutdown \/ QueueShutdown
    BY <2>3, ShutdownKeeps
  <2>4. CASE QueueSend
    BY <2>4, QueueSendKeeps
  <2>5. CASE SetSendFd
    BY <2>5, SetSendFdKeeps
  <2>6. CASE SetSendLen
    BY <2>6, SetSendLenKeeps
  <2>7. CASE RunFunctor
    BY <2>7, RunFunctorKeeps
  <2>8. CASE WriteBuffer
    BY <2>8, WriteBufferKeeps
  <2>9. CASE WriteFile
    BY <2>9, WriteFileKeeps
  <2>10. CASE GiveUpFile
    BY <2>10, GiveUpFileKeeps
  <2>11. CASE HandleClose \/ PeerResets
    BY <2>11, EndKeeps
  <2>12. CASE UNCHANGED vars
    BY <2>12 DEF vars, dataVars, fileVars, owedVars, OutputInv, TypeOK, Queued, FileRest, Followed,
       NothingLostOrReordered, Watched, WatchesWhenNeeded, FilesApart, OpenFileIsKnown,
       ShutdownLast, ShutAfterDrained
  <2>13. QED
    BY <2>1, <2>2, <2>3, <2>4, <2>5, <2>6, <2>7, <2>8, <2>9, <2>10, <2>11, <2>12 DEF Next, HandleWrite
<1>3. QED
  BY <1>1, <1>2, PTL DEF Spec

(* Every unit that the loop has taken up reaches the socket once and in    *)
(* its order, or is still in the buffer or the file: sendInLoop,           *)
(* sendFileInLoop and handleWrite, whatever other threads do in between.   *)
(* The messages keep their order always, the files and both together as    *)
(* long as nothing is started before a file is through.                    *)
THEOREM NothingIsLost == Spec => []NothingLostOrReordered
<1>1. OutputInv => NothingLostOrReordered
  BY DEF OutputInv
<1>2. QED
  BY <1>1, OutputInvariant, PTL

(* While the connection is there the channel watches for writability when  *)
(* there is output, and only then: the output neither stalls nor spins.    *)
THEOREM OutputIsWatched == Spec => []WatchesWhenNeeded
<1>1. OutputInv => WatchesWhenNeeded
  BY DEF OutputInv
<1>2. QED
  BY <1>1, OutputInvariant, PTL

(* The write side is not shut down before all output is written, unless a  *)
(* file of another thread comes after shutdown(); and a file handed to     *)
(* sendFile is open only while it is the one being sent, unless another is *)
(* started before it is through.                                           *)
THEOREM ClosedInTime == Spec => []ClosesInTime
<1>1. OutputInv => ClosesInTime
  BY DEF OutputInv, ClosesInTime
<1>2. QED
  BY <1>1, OutputInvariant, PTL
=============================================================================
