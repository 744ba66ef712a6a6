---------------------------- MODULE LoggingProofs ----------------------------
(***************************************************************************)
(* Theorems about AsyncLogging and its LogFile, for every size of buffers  *)
(* and files, every number of messages, days and failed writes; and about  *)
(* the lines that are given to them: the calendar and the zones that stamp *)
(* them, the room they have, and the text of their numbers.                *)
(***************************************************************************)
EXTENDS AsyncLogging, Logging, SequenceTheorems, FiniteSetTheorems, FunctionTheorems, TLAPS

Lines == Messages \cup {Notice}

\* What is in one comes before what is in the other.
Behind(A, B) == \A m \in A, n \in B : m < n

\* The rest of the batch that the logging thread writes.
Unwritten == SubSeq(toWrite, written + 1, Len(toWrite))

TypeInv ==
    /\ running \in BOOLEAN
    /\ current \in Buffer /\ buffers \in Seq(Buffer)
    /\ toWrite \in Seq(Buffer) /\ written \in 0 .. Len(toWrite)
    /\ pc \in {"unstarted", "loop", "lock", "waiting", "woken", "drop", "write", "flush", "finished"}
    /\ stopping \in {"no", "notify", "join", "joined"}
    /\ appended \in 0 .. MaxMessages
    /\ dropped \in SUBSET Messages

(* The buffers that go round: the front has given its spare one away only  *)
(* when it has a full one, so that a batch of one buffer leaves the second *)
(* spare one where it is, and a longer batch brings two back.              *)
BackInv ==
    /\ {next, spare1, spare2} \subseteq {<<>>, Null}
    /\ next = Null => buffers # <<>>
    /\ pc \in {"loop", "lock", "waiting", "woken", "flush", "finished"} => spare1 = <<>> /\ spare2 = <<>>
    /\ pc \in {"drop", "write"} => /\ spare1 = Null /\ toWrite # <<>>
                                   /\ spare2 = Null => Len(toWrite) >= 2
    /\ pc \notin {"drop", "write"} => toWrite = <<>>
    /\ pc # "write" => written = 0

(* The file: late appends are counted since the last look at the clock,    *)
(* and there are none on the file's own day.                               *)
FileInv ==
    /\ now \in 1 .. MaxTime /\ lastRoll \in 0 .. now /\ lastFlush \in 0 .. now
    /\ startOfPeriod = File!Day(lastRoll)
    /\ count \in 0 .. CheckEveryN - 1 /\ writtenBytes \in Nat
    /\ log \in Seq(Lines) /\ onDisk \in 0 .. Len(log)
    /\ late \in 0 .. count
    /\ File!Day(now) = startOfPeriod => late = 0
    /\ faults \in 0 .. MaxFaults /\ lost \in SUBSET Lines

(* The way of the messages: what is in the log, in the rest of the batch,  *)
(* in the full buffers and in the current one is in order, each behind the *)
(* one before.                                                             *)
FlowInv ==
    /\ Ascending(log) /\ InOrder(Unwritten) /\ InOrder(buffers) /\ Ascending(current)
    /\ Behind(ToSet(log), Contents(Unwritten) \cup Contents(buffers) \cup ToSet(current))
    /\ Behind(Contents(Unwritten), Contents(buffers) \cup ToSet(current))
    /\ Behind(Contents(buffers), ToSet(current))
    /\ (ToSet(log) \ {Notice}) \cup Contents(Unwritten) \cup Contents(buffers) \cup ToSet(current)
         = (1 .. appended) \ (dropped \cup lost)
    /\ dropped \cup lost \subseteq 0 .. appended

LoggingInv == TypeInv /\ BackInv /\ FileInv /\ FlowInv
-----------------------------------------------------------------------------
(* Sequences of messages, and batches of them.                             *)

\* Messages are numbered from 1, so that none is taken for the notice.
LEMMA LinesAreNumbers ==
  /\ MaxMessages \in Nat /\ Messages \subseteq Nat \ {0} /\ Notice = 0
  /\ Lines \subseteq Nat /\ Messages \subseteq Lines
  /\ \A b \in Buffer : b \in Seq(Lines) /\ ToSet(b) \subseteq Messages
<1>1. MaxMessages \in Nat /\ Messages \subseteq Nat \ {0}
  BY LoggingAssumption DEF Messages
<1>2. Notice = 0 /\ Lines \subseteq Nat /\ Messages \subseteq Lines
  BY <1>1 DEF Notice, Lines
<1>3. ASSUME NEW b \in Buffer
      PROVE  b \in Seq(Lines) /\ ToSet(b) \subseteq Messages
  <2>1. b \in Seq(Messages)
    BY DEF Buffer
  <2>2. DOMAIN b = 1 .. Len(b) /\ \A i \in 1 .. Len(b) : b[i] \in Messages
    BY <2>1, LenProperties, ElementOfSeq
  <2>3. b \in Seq(Lines)
    BY <1>2, <2>1, SeqMonotonic
  <2>4. QED
    BY <2>2, <2>3 DEF ToSet
<1>4. QED
  BY <1>1, <1>2, <1>3

(* A prefix and the rest of a sequence, position by position.              *)
LEMMA SplitSeq ==
  ASSUME NEW S, NEW s \in Seq(S), NEW n \in 0 .. Len(s)
  PROVE  LET a == SubSeq(s, 1, n)
             b == SubSeq(s, n + 1, Len(s))
         IN /\ a \in Seq(S) /\ DOMAIN a = 1 .. n /\ Len(a) = n
            /\ b \in Seq(S) /\ DOMAIN b = 1 .. Len(s) - n /\ Len(b) = Len(s) - n
            /\ \A i \in 1 .. n : a[i] = s[i]
            /\ \A i \in 1 .. Len(s) - n : b[i] = s[n + i]
<1> DEFINE a == SubSeq(s, 1, n)
           b == SubSeq(s, n + 1, Len(s))
<1>1. Len(s) \in Nat /\ \A i \in 1 .. Len(s) : s[i] \in S
  BY LenProperties, ElementOfSeq
<1>2. 1 \in Int /\ n \in Int /\ (\A i \in 1 .. n : s[i] \in S)
  BY <1>1
<1>3. /\ a \in Seq(S) /\ Len(a) = (IF 1 <= n THEN n - 1 + 1 ELSE 0)
      /\ \A i \in 1 .. n - 1 + 1 : a[i] = s[1 + i - 1]
  BY <1>2, SubSeqProperties
<1>4. n + 1 \in Int /\ Len(s) \in Int /\ (\A i \in n + 1 .. Len(s) : s[i] \in S)
  BY <1>1
<1>5. /\ b \in Seq(S) /\ Len(b) = (IF n + 1 <= Len(s) THEN Len(s) - (n + 1) + 1 ELSE 0)
      /\ \A i \in 1 .. Len(s) - (n + 1) + 1 : b[i] = s[n + 1 + i - 1]
  BY <1>4, SubSeqProperties
<1>6. DOMAIN a = 1 .. Len(a) /\ DOMAIN b = 1 .. Len(b)
  BY <1>3, <1>5, LenProperties
<1> HIDE DEF a, b
<1>7. /\ a \in Seq(S) /\ Len(a) = n /\ DOMAIN a = 1 .. n
      /\ \A i \in 1 .. n : a[i] = s[i]
  <2>1. n \in Nat /\ n - 1 + 1 = n
    BY <1>1
  <2>2. Len(a) = n
    BY <1>3, <2>1
  <2>3. ASSUME NEW i \in 1 .. n PROVE a[i] = s[i]
    <3>1. i \in 1 .. n - 1 + 1 /\ 1 + i - 1 = i
      BY <2>1
    <3>2. QED
      BY <1>3, <3>1
  <2>4. QED
    BY <1>3, <1>6, <2>2, <2>3
<1>8. /\ b \in Seq(S) /\ Len(b) = Len(s) - n /\ DOMAIN b = 1 .. Len(s) - n
      /\ \A i \in 1 .. Len(s) - n : b[i] = s[n + i]
  <2>1. Len(b) = Len(s) - n
    BY <1>1, <1>5
  <2>2. ASSUME NEW i \in 1 .. Len(s) - n PROVE b[i] = s[n + i]
    <3>1. i \in 1 .. Len(s) - (n + 1) + 1 /\ n + 1 + i - 1 = n + i
      BY <1>1
    <3>2. QED
      BY <1>5, <3>1
  <2>3. QED
    BY <1>5, <1>6, <2>1, <2>2
<1>9. QED
  BY <1>7, <1>8 DEF a, b

(* What is in a sequence, part by part; and its parts are in order when it *)
(* is, the first behind nothing of the second.                             *)
LEMMA SplitLines ==
  ASSUME NEW s \in Seq(Lines), NEW n \in 0 .. Len(s)
  PROVE  LET a == SubSeq(s, 1, n)
             b == SubSeq(s, n + 1, Len(s))
         IN /\ a \in Seq(Lines) /\ b \in Seq(Lines) /\ Len(a) = n
            /\ ToSet(s) = ToSet(a) \cup ToSet(b)
            /\ Ascending(s) => /\ Ascending(a) /\ Ascending(b)
                               /\ \A k \in ToSet(a), m \in ToSet(b) : m # Notice => k < m
<1> DEFINE a == SubSeq(s, 1, n)
           b == SubSeq(s, n + 1, Len(s))
<1>1. /\ a \in Seq(Lines) /\ DOMAIN a = 1 .. n /\ Len(a) = n
      /\ b \in Seq(Lines) /\ DOMAIN b = 1 .. Len(s) - n
      /\ \A i \in 1 .. n : a[i] = s[i]
      /\ \A i \in 1 .. Len(s) - n : b[i] = s[n + i]
  BY SplitSeq
<1>2. Len(s) \in Nat /\ DOMAIN s = 1 .. Len(s)
  BY LenProperties
<1> HIDE DEF a, b
<1>3. ToSet(s) = ToSet(a) \cup ToSet(b)
  <2>1. ASSUME NEW i \in 1 .. Len(s)
        PROVE  s[i] \in ToSet(a) \cup ToSet(b)
    <3>1. CASE i \in 1 .. n
      BY <1>1, <3>1 DEF ToSet
    <3>2. CASE i \notin 1 .. n
      <4>1. i - n \in 1 .. Len(s) - n /\ n + (i - n) = i
        BY <1>2, <3>2
      <4>2. b[i - n] = s[i]
        BY <1>1, <4>1
      <4>3. QED
        BY <1>1, <4>1, <4>2 DEF ToSet
    <3>3. QED
      BY <3>1, <3>2
  <2>2. ASSUME NEW i \in 1 .. n PROVE a[i] \in ToSet(s)
    BY <1>1, <1>2 DEF ToSet
  <2>3. ASSUME NEW i \in 1 .. Len(s) - n PROVE b[i] \in ToSet(s)
    <3>1. n + i \in 1 .. Len(s)
      BY <1>2
    <3>2. QED
      BY <1>1, <1>2, <3>1 DEF ToSet
  <2>4. ToSet(s) \subseteq ToSet(a) \cup ToSet(b)
    BY <1>2, <2>1 DEF ToSet
  <2>5. ToSet(a) \subseteq ToSet(s)
    BY <1>1, <2>2 DEF ToSet
  <2>6. ToSet(b) \subseteq ToSet(s)
    BY <1>1, <2>3 DEF ToSet
  <2>7. QED
    BY <2>4, <2>5, <2>6
<1>4. ASSUME Ascending(s)
      PROVE  /\ Ascending(a) /\ Ascending(b)
             /\ \A k \in ToSet(a), m \in ToSet(b) : m # Notice => k < m
  <2>1. \A i, j \in 1 .. Len(s) : i < j /\ s[j] # Notice => s[i] < s[j]
    BY <1>2, <1>4 DEF Ascending
  <2>2. Ascending(a)
    BY <1>1, <1>2, <2>1 DEF Ascending
  <2>3. Ascending(b)
    <3>1. ASSUME NEW i \in 1 .. Len(s) - n, NEW j \in 1 .. Len(s) - n, i < j, b[j] # Notice
          PROVE  b[i] < b[j]
      <4>1. n + i \in 1 .. Len(s) /\ n + j \in 1 .. Len(s) /\ n + i < n + j
        BY <1>2, <3>1
      <4>2. b[i] = s[n + i] /\ b[j] = s[n + j]
        BY <1>1
      <4>3. QED
        BY <2>1, <3>1, <4>1, <4>2
    <3>2. QED
      BY <1>1, <3>1 DEF Ascending
  <2>4. ASSUME NEW i \in 1 .. n, NEW j \in 1 .. Len(s) - n, b[j] # Notice
        PROVE  a[i] < b[j]
    <3>1. i \in 1 .. Len(s) /\ n + j \in 1 .. Len(s) /\ i < n + j
      BY <1>2
    <3>2. a[i] = s[i] /\ b[j] = s[n + j]
      BY <1>1
    <3>3. QED
      BY <2>1, <2>4, <3>1, <3>2
  <2>5. QED
    BY <1>1, <2>2, <2>3, <2>4 DEF ToSet
<1>5. QED
  BY <1>1, <1>3, <1>4 DEF a, b

(* Two sequences in order, the second behind the first, are one in order.  *)
LEMMA ConcatLines ==
  ASSUME NEW s \in Seq(Lines), NEW t \in Seq(Lines)
  PROVE  /\ s \o t \in Seq(Lines) /\ Len(s \o t) = Len(s) + Len(t)
         /\ ToSet(s \o t) = ToSet(s) \cup ToSet(t)
         /\ Ascending(s) /\ Ascending(t) /\ (\A k \in ToSet(s), m \in ToSet(t) : m # Notice => k < m)
              => Ascending(s \o t)
<1> DEFINE c == s \o t
<1>1. /\ c \in Seq(Lines) /\ Len(c) = Len(s) + Len(t)
      /\ \A i \in 1 .. Len(s) + Len(t) : c[i] = IF i <= Len(s) THEN s[i] ELSE t[i - Len(s)]
  BY ConcatProperties
<1>2. /\ Len(s) \in Nat /\ DOMAIN s = 1 .. Len(s)
      /\ Len(t) \in Nat /\ DOMAIN t = 1 .. Len(t)
      /\ DOMAIN c = 1 .. Len(c)
  BY <1>1, LenProperties
<1> HIDE DEF c
<1>3. \A i \in 1 .. Len(c) : \/ i \in 1 .. Len(s) /\ c[i] = s[i]
                             \/ i - Len(s) \in 1 .. Len(t) /\ i > Len(s) /\ c[i] = t[i - Len(s)]
  BY <1>1, <1>2
<1>4. ToSet(c) = ToSet(s) \cup ToSet(t)
  <2>1. \A i \in 1 .. Len(c) : c[i] \in ToSet(s) \cup ToSet(t)
    BY <1>2, <1>3 DEF ToSet
  <2>2. \A i \in 1 .. Len(s) : s[i] \in ToSet(c)
    BY <1>1, <1>2 DEF ToSet
  <2>3. ASSUME NEW i \in 1 .. Len(t) PROVE t[i] \in ToSet(c)
    <3>1. Len(s) + i \in 1 .. Len(c) /\ Len(s) + i - Len(s) = i /\ ~(Len(s) + i <= Len(s))
      BY <1>1, <1>2
    <3>2. c[Len(s) + i] = t[i]
      BY <1>1, <3>1
    <3>3. QED
      BY <1>2, <3>1, <3>2 DEF ToSet
  <2>4. QED
    BY <1>2, <2>1, <2>2, <2>3 DEF ToSet
<1>5. ASSUME Ascending(s), Ascending(t), \A k \in ToSet(s), m \in ToSet(t) : m # Notice => k < m
      PROVE  Ascending(c)
  <2>1. ASSUME NEW i \in 1 .. Len(c), NEW j \in 1 .. Len(c), i < j, c[j] # Notice
        PROVE  c[i] < c[j]
    <3>1. CASE j \in 1 .. Len(s) /\ c[j] = s[j]
      <4>1. i \in 1 .. Len(s) /\ c[i] = s[i]
        BY <1>2, <1>3, <2>1, <3>1
      <4>2. QED
        BY <1>2, <1>5, <2>1, <3>1, <4>1 DEF Ascending
    <3>2. CASE j - Len(s) \in 1 .. Len(t) /\ j > Len(s) /\ c[j] = t[j - Len(s)]
      <4>1. CASE i \in 1 .. Len(s) /\ c[i] = s[i]
        <5>1. c[i] \in ToSet(s) /\ c[j] \in ToSet(t)
          BY <1>2, <3>2, <4>1 DEF ToSet
        <5>2. QED
          BY <1>5, <2>1, <5>1
      <4>2. CASE i - Len(s) \in 1 .. Len(t) /\ i > Len(s) /\ c[i] = t[i - Len(s)]
        <5>1. i - Len(s) < j - Len(s)
          BY <1>2, <2>1
        <5>2. QED
          BY <1>2, <1>5, <2>1, <3>2, <4>2, <5>1 DEF Ascending
      <4>3. QED
        BY <1>3, <4>1, <4>2
    <3>3. QED
      BY <1>3, <3>1, <3>2
  <2>2. QED
    BY <1>2, <2>1 DEF Ascending
<1>6. QED
  BY <1>1, <1>4, <1>5 DEF c

(* A batch of two batches holds what they hold, and is in order when they  *)
(* are and the second is behind the first.                                 *)
LEMMA ConcatBatch ==
  ASSUME NEW s \in Seq(Buffer), NEW t \in Seq(Buffer)
  PROVE  /\ s \o t \in Seq(Buffer)
         /\ Contents(s \o t) = Contents(s) \cup Contents(t)
         /\ InOrder(s) /\ InOrder(t) /\ Behind(Contents(s), Contents(t)) => InOrder(s \o t)
<1> DEFINE c == s \o t
<1>1. /\ c \in Seq(Buffer) /\ Len(c) = Len(s) + Len(t)
      /\ \A i \in 1 .. Len(s) + Len(t) : c[i] = IF i <= Len(s) THEN s[i] ELSE t[i - Len(s)]
  BY ConcatProperties
<1>2. /\ Len(s) \in Nat /\ DOMAIN s = 1 .. Len(s)
      /\ Len(t) \in Nat /\ DOMAIN t = 1 .. Len(t)
      /\ DOMAIN c = 1 .. Len(c)
  BY <1>1, LenProperties
<1> HIDE DEF c
<1>3. \A i \in 1 .. Len(c) : \/ i \in 1 .. Len(s) /\ c[i] = s[i]
                             \/ i - Len(s) \in 1 .. Len(t) /\ i > Len(s) /\ c[i] = t[i - Len(s)]
  BY <1>1, <1>2
<1>4. Contents(c) = Contents(s) \cup Contents(t)
  <2>1. \A i \in 1 .. Len(c) : ToSet(c[i]) \subseteq Contents(s) \cup Contents(t)
    BY <1>2, <1>3 DEF Contents
  <2>2. \A i \in 1 .. Len(s) : ToSet(s[i]) \subseteq Contents(c)
    <3>1. \A i \in 1 .. Len(s) : i \in 1 .. Len(c) /\ c[i] = s[i]
      BY <1>1, <1>2
    <3>2. QED
      BY <1>2, <3>1 DEF Contents
  <2>3. ASSUME NEW i \in 1 .. Len(t) PROVE ToSet(t[i]) \subseteq Contents(c)
    <3>1. Len(s) + i \in 1 .. Len(c) /\ Len(s) + i - Len(s) = i /\ ~(Len(s) + i <= Len(s))
      BY <1>1, <1>2
    <3>2. c[Len(s) + i] = t[i]
      BY <1>1, <3>1
    <3>3. QED
      BY <1>2, <3>1, <3>2 DEF Contents
  <2>4. Contents(c) \subseteq Contents(s) \cup Contents(t)
    BY <1>2, <2>1 DEF Contents
  <2>5. Contents(s) \subseteq Contents(c) /\ Contents(t) \subseteq Contents(c)
    BY <1>2, <2>2, <2>3 DEF Contents
  <2>6. QED
    BY <2>4, <2>5
<1>5. ASSUME InOrder(s), InOrder(t), Behind(Contents(s), Contents(t))
      PROVE  InOrder(c)
  <2>1. \A i \in 1 .. Len(c) : Ascending(c[i])
    BY <1>2, <1>3, <1>5 DEF InOrder
  <2>2. ASSUME NEW i \in 1 .. Len(c), NEW j \in 1 .. Len(c), i < j,
               NEW k \in ToSet(c[i]), NEW m \in ToSet(c[j])
        PROVE  k < m
    <3>1. CASE j \in 1 .. Len(s) /\ c[j] = s[j]
      <4>1. i \in 1 .. Len(s) /\ c[i] = s[i]
        BY <1>2, <1>3, <2>2, <3>1
      <4>2. QED
        BY <1>2, <1>5, <2>2, <3>1, <4>1 DEF InOrder
    <3>2. CASE j - Len(s) \in 1 .. Len(t) /\ j > Len(s) /\ c[j] = t[j - Len(s)]
      <4>1. CASE i \in 1 .. Len(s) /\ c[i] = s[i]
        <5>1. k \in Contents(s) /\ m \in Contents(t)
          BY <1>2, <2>2, <3>2, <4>1 DEF Contents
        <5>2. QED
          BY <1>5, <5>1 DEF Behind
      <4>2. CASE i - Len(s) \in 1 .. Len(t) /\ i > Len(s) /\ c[i] = t[i - Len(s)]
        <5>1. i - Len(s) < j - Len(s)
          BY <1>2, <2>2
        <5>2. QED
          BY <1>2, <1>5, <2>2, <3>2, <4>2, <5>1 DEF InOrder
      <4>3. QED
        BY <1>3, <4>1, <4>2
    <3>3. QED
      BY <1>3, <3>1, <3>2
  <2>3. QED
    BY <1>2, <2>1, <2>2 DEF InOrder
<1>6. QED
  BY <1>1, <1>4, <1>5 DEF c

(* The same of the first buffers of a batch and of the rest of it.         *)
LEMMA SplitBatch ==
  ASSUME NEW s \in Seq(Buffer), NEW n \in 0 .. Len(s)
  PROVE  LET a == SubSeq(s, 1, n)
             b == SubSeq(s, n + 1, Len(s))
         IN /\ a \in Seq(Buffer) /\ b \in Seq(Buffer) /\ Len(a) = n
            /\ Contents(s) = Contents(a) \cup Contents(b)
            /\ Contents(b) = UNION {ToSet(s[i]) : i \in n + 1 .. Len(s)}
            /\ InOrder(s) => InOrder(a) /\ InOrder(b) /\ Behind(Contents(a), Contents(b))
<1> DEFINE a == SubSeq(s, 1, n)
           b == SubSeq(s, n + 1, Len(s))
<1>1. /\ a \in Seq(Buffer) /\ DOMAIN a = 1 .. n /\ Len(a) = n
      /\ b \in Seq(Buffer) /\ DOMAIN b = 1 .. Len(s) - n
      /\ \A i \in 1 .. n : a[i] = s[i]
      /\ \A i \in 1 .. Len(s) - n : b[i] = s[n + i]
  BY SplitSeq
<1>2. Len(s) \in Nat /\ DOMAIN s = 1 .. Len(s)
  BY LenProperties
<1> HIDE DEF a, b
<1>3. ASSUME NEW i \in n + 1 .. Len(s)
      PROVE  i - n \in 1 .. Len(s) - n /\ b[i - n] = s[i]
  <2>1. i - n \in 1 .. Len(s) - n /\ n + (i - n) = i
    BY <1>2
  <2>2. QED
    BY <1>1, <2>1
<1>4. Contents(b) = UNION {ToSet(s[i]) : i \in n + 1 .. Len(s)}
  <2>1. ASSUME NEW i \in 1 .. Len(s) - n
        PROVE  n + i \in n + 1 .. Len(s) /\ b[i] = s[n + i]
    BY <1>1, <1>2
  <2>2. Contents(b) \subseteq UNION {ToSet(s[i]) : i \in n + 1 .. Len(s)}
    BY <1>1, <2>1, ZenonT(60) DEF Contents
  <2>3. UNION {ToSet(s[i]) : i \in n + 1 .. Len(s)} \subseteq Contents(b)
    BY <1>1, <1>3 DEF Contents
  <2>4. QED
    BY <2>2, <2>3
<1>5. Contents(s) = Contents(a) \cup Contents(b)
  <2>1. Contents(a) = UNION {ToSet(s[i]) : i \in 1 .. n}
    BY <1>1 DEF Contents
  <2>2. \A i : i \in 1 .. Len(s) <=> i \in 1 .. n \/ i \in n + 1 .. Len(s)
    BY <1>2
  <2>3. QED
    BY <1>2, <1>4, <2>1, <2>2 DEF Contents
<1>6. ASSUME InOrder(s)
      PROVE  InOrder(a) /\ InOrder(b) /\ Behind(Contents(a), Contents(b))
  <2>1. /\ \A i \in 1 .. Len(s) : Ascending(s[i])
        /\ \A i, j \in 1 .. Len(s) : i < j => \A k \in ToSet(s[i]), m \in ToSet(s[j]) : k < m
    BY <1>2, <1>6 DEF InOrder
  <2>2. InOrder(a)
    BY <1>1, <1>2, <2>1 DEF InOrder
  <2>3. InOrder(b)
    <3>1. ASSUME NEW i \in 1 .. Len(s) - n
          PROVE  n + i \in 1 .. Len(s) /\ b[i] = s[n + i]
      BY <1>1, <1>2
    <3>2. \A i \in 1 .. Len(s) - n : Ascending(b[i])
      BY <2>1, <3>1
    <3>3. ASSUME NEW i \in 1 .. Len(s) - n, NEW j \in 1 .. Len(s) - n, i < j,
                 NEW k \in ToSet(b[i]), NEW m \in ToSet(b[j])
          PROVE  k < m
      <4>1. n + i < n + j
        BY <1>2, <3>3
      <4>2. QED
        BY <2>1, <3>1, <3>3, <4>1
    <3>4. QED
      BY <1>1, <3>2, <3>3 DEF InOrder
  <2>4. ASSUME NEW k \in Contents(a), NEW m \in Contents(b)
        PROVE  k < m
    <3>1. PICK i \in 1 .. n : k \in ToSet(s[i])
      BY <1>1, <2>4 DEF Contents
    <3>2. PICK j \in n + 1 .. Len(s) : m \in ToSet(s[j])
      BY <1>4, <2>4
    <3>3. i \in 1 .. Len(s) /\ j \in 1 .. Len(s) /\ i < j
      BY <1>2
    <3>4. QED
      BY <2>1, <3>1, <3>2, <3>3
  <2>5. QED
    BY <2>2, <2>3, <2>4 DEF Behind
<1>7. QED
  BY <1>1, <1>4, <1>5, <1>6 DEF a, b

(* A batch of one buffer, and what is empty.                               *)
LEMMA OneBuffer ==
  /\ <<>> \in Buffer /\ ToSet(<<>>) = {} /\ Ascending(<<>>)
  /\ <<>> \in Seq(Buffer) /\ Contents(<<>>) = {} /\ InOrder(<<>>)
  /\ \A m \in Messages : <<m>> \in Buffer /\ ToSet(<<m>>) = {m} /\ Ascending(<<m>>)
  /\ \A b \in Buffer : /\ <<b>> \in Seq(Buffer) /\ Contents(<<b>>) = ToSet(b)
                       /\ Ascending(b) <=> InOrder(<<b>>)
<1>1. <<>> \in Buffer /\ <<>> \in Seq(Buffer) /\ DOMAIN <<>> = {}
  BY EmptySeq DEF Buffer
<1>2. ToSet(<<>>) = {} /\ Contents(<<>>) = {}
  BY <1>1 DEF ToSet, Contents
<1>3. Ascending(<<>>) /\ InOrder(<<>>)
  BY <1>1 DEF Ascending, InOrder
<1>4. ASSUME NEW m \in Messages
      PROVE  <<m>> \in Buffer /\ ToSet(<<m>>) = {m} /\ Ascending(<<m>>)
  <2>1. <<m>> \in Buffer /\ DOMAIN <<m>> = {1} /\ <<m>>[1] = m
    BY DEF Buffer
  <2>2. QED
    BY <2>1 DEF ToSet, Ascending
<1>5. ASSUME NEW b \in Buffer
      PROVE  <<b>> \in Seq(Buffer) /\ Contents(<<b>>) = ToSet(b) /\ (Ascending(b) <=> InOrder(<<b>>))
  <2>1. <<b>> \in Seq(Buffer) /\ DOMAIN <<b>> = {1} /\ <<b>>[1] = b
    OBVIOUS
  <2>2. Contents(<<b>>) = ToSet(b)
    BY <2>1 DEF Contents
  <2>3. Ascending(b) <=> InOrder(<<b>>)
    BY <2>1 DEF InOrder
  <2>4. QED
    BY <2>1, <2>2, <2>3
<1>6. QED
  BY <1>1, <1>2, <1>3, <1>4, <1>5
-----------------------------------------------------------------------------
(* The file.                                                               *)

(* Days come one after the other.                                          *)
LEMMA DaysPass ==
  ASSUME NEW s \in Nat, NEW t \in Nat, s <= t
  PROVE  File!Day(s) \in Nat /\ File!Day(s) <= File!Day(t)
<1>1. SecondsPerDay \in Nat \ {0}
  BY LoggingAssumption
<1>2. /\ File!Day(s) = s \div SecondsPerDay
      /\ File!Day(t) = t \div SecondsPerDay
  BY DEF File!Day
<1>3. QED
  BY <1>1, <1>2

(* A write brings the first of the messages into the log and loses the     *)
(* rest, if any.                                                           *)
LEMMA WriteDoes ==
  ASSUME FileInv, NEW messages \in Seq(Lines), File!Write(messages)
  PROVE  /\ faults' \in 0 .. MaxFaults
         /\ \E n \in 0 .. Len(messages) :
              /\ log' = log \o SubSeq(messages, 1, n)
              /\ lost' = lost \cup ToSet(SubSeq(messages, n + 1, Len(messages)))
<1>1. /\ log \in Seq(Lines) /\ faults \in 0 .. MaxFaults /\ MaxFaults \in Nat
      /\ Len(messages) \in Nat
  BY LoggingAssumption, LenProperties DEF FileInv
<1>2. CASE log' = log \o messages /\ UNCHANGED <<faults, lost>>
  <2>1. SubSeq(messages, 1, Len(messages)) = messages
    BY SubSeqFull
  <2>2. Len(messages) + 1 \in Int /\ Len(messages) \in Int /\ Len(messages) < Len(messages) + 1
    BY <1>1
  <2>3. SubSeq(messages, Len(messages) + 1, Len(messages)) = <<>>
    BY <2>2, SubSeqEmpty
  <2>4. /\ log' = log \o SubSeq(messages, 1, Len(messages))
        /\ lost' = lost \cup ToSet(SubSeq(messages, Len(messages) + 1, Len(messages)))
    BY <1>2, <2>1, <2>3, OneBuffer
  <2>5. Len(messages) \in 0 .. Len(messages) /\ faults' \in 0 .. MaxFaults
    BY <1>1, <1>2
  <2>6. QED
    BY <2>4, <2>5
<1>3. CASE /\ faults < MaxFaults /\ faults' = faults + 1
           /\ \E n \in 0 .. Len(messages) - 1 :
                /\ log' = log \o SubSeq(messages, 1, n)
                /\ lost' = lost \cup {messages[i] : i \in n + 1 .. Len(messages)}
  <2>1. PICK n \in 0 .. Len(messages) - 1 :
               /\ log' = log \o SubSeq(messages, 1, n)
               /\ lost' = lost \cup {messages[i] : i \in n + 1 .. Len(messages)}
    BY <1>3, Zenon
  <2>2. n \in 0 .. Len(messages)
    BY <1>1
  <2> DEFINE b == SubSeq(messages, n + 1, Len(messages))
  <2>3. DOMAIN b = 1 .. Len(messages) - n /\ \A i \in 1 .. Len(messages) - n : b[i] = messages[n + i]
    BY <2>2, SplitSeq
  <2> HIDE DEF b
  <2>4. {messages[i] : i \in n + 1 .. Len(messages)} = ToSet(b)
    <3>1. ASSUME NEW i \in n + 1 .. Len(messages) PROVE messages[i] \in ToSet(b)
      <4>1. i - n \in 1 .. Len(messages) - n /\ n + (i - n) = i
        BY <1>1, <2>2
      <4>2. b[i - n] = messages[i]
        BY <2>3, <4>1
      <4>3. QED
        BY <2>3, <4>1, <4>2 DEF ToSet
    <3>2. ASSUME NEW i \in 1 .. Len(messages) - n
          PROVE  b[i] \in {messages[j] : j \in n + 1 .. Len(messages)}
      <4>1. n + i \in n + 1 .. Len(messages)
        BY <1>1, <2>2
      <4>2. QED
        BY <2>3, <4>1
    <3>3. QED
      BY <2>3, <3>1, <3>2 DEF ToSet
  <2>5. lost' = lost \cup ToSet(b)
    BY <2>1, <2>4
  <2>6. faults' \in 0 .. MaxFaults
    BY <1>1, <1>3
  <2>7. QED
    BY <2>1, <2>2, <2>5, <2>6 DEF b
<1>4. QED
  BY <1>2, <1>3 DEF File!Write

(* So the log stays in order when the messages are and come behind it, and *)
(* none is both in the log and lost.                                       *)
LEMMA LogGrows ==
  ASSUME FileInv, NEW messages \in Seq(Lines), File!Write(messages),
         Ascending(log), Ascending(messages),
         \A k \in ToSet(log), m \in ToSet(messages) : m # Notice => k < m
  PROVE  /\ log' \in Seq(Lines) /\ Len(log') \in Nat /\ Len(log) <= Len(log')
         /\ Ascending(log')
         /\ \E there, gone \in SUBSET Lines :
              /\ ToSet(messages) = there \cup gone
              /\ ToSet(log') = ToSet(log) \cup there
              /\ lost' = lost \cup gone
              /\ \A k \in ToSet(log'), m \in gone : m # Notice => k < m
<1>1. PICK n \in 0 .. Len(messages) :
             /\ log' = log \o SubSeq(messages, 1, n)
             /\ lost' = lost \cup ToSet(SubSeq(messages, n + 1, Len(messages)))
  BY WriteDoes, Zenon
<1> DEFINE a == SubSeq(messages, 1, n)
           b == SubSeq(messages, n + 1, Len(messages))
<1>2. /\ a \in Seq(Lines) /\ b \in Seq(Lines)
      /\ ToSet(messages) = ToSet(a) \cup ToSet(b)
      /\ Ascending(a)
      /\ \A k \in ToSet(a), m \in ToSet(b) : m # Notice => k < m
  BY SplitLines
<1>3. log' = log \o a /\ lost' = lost \cup ToSet(b)
  BY <1>1
<1> HIDE DEF a, b
<1>4. log \in Seq(Lines) /\ Len(log) \in Nat /\ Len(a) \in Nat
  BY <1>2, LenProperties DEF FileInv
<1>5. ToSet(a) \subseteq Lines /\ ToSet(b) \subseteq Lines
  <2>1. /\ DOMAIN a = 1 .. Len(a) /\ (\A i \in 1 .. Len(a) : a[i] \in Lines)
        /\ DOMAIN b = 1 .. Len(b) /\ (\A i \in 1 .. Len(b) : b[i] \in Lines)
    BY <1>2, LenProperties, ElementOfSeq
  <2>2. QED
    BY <2>1 DEF ToSet
<1>6. \A k \in ToSet(log), m \in ToSet(a) : m # Notice => k < m
  BY <1>2
<1>7. /\ log' \in Seq(Lines) /\ Len(log') = Len(log) + Len(a)
      /\ ToSet(log') = ToSet(log) \cup ToSet(a)
      /\ Ascending(log')
  BY <1>2, <1>3, <1>4, <1>6, ConcatLines
<1>8. \A k \in ToSet(log'), m \in ToSet(b) : m # Notice => k < m
  BY <1>2, <1>7
<1>9. \E there, gone \in SUBSET Lines :
        /\ ToSet(messages) = there \cup gone
        /\ ToSet(log') = ToSet(log) \cup there
        /\ lost' = lost \cup gone
        /\ \A k \in ToSet(log'), m \in gone : m # Notice => k < m
  <2>1. ToSet(a) \in SUBSET Lines /\ ToSet(b) \in SUBSET Lines
    BY <1>5
  <2> USE <2>1
  <2> WITNESS ToSet(a) \in SUBSET Lines, ToSet(b) \in SUBSET Lines
  <2>2. QED
    BY <1>2, <1>3, <1>7, <1>8
<1>10. Len(log') \in Nat /\ Len(log) <= Len(log')
  BY <1>4, <1>7
<1>11. QED
  BY <1>7, <1>9, <1>10

\* What a write can lose is a message or a notice.
LEMMA LostAreLines ==
  ASSUME FileInv, NEW messages \in Seq(Lines), File!Write(messages)
  PROVE  lost' \in SUBSET Lines /\ log' \in Seq(Lines) /\ Len(log') \in Nat /\ Len(log) <= Len(log')
<1>1. PICK n \in 0 .. Len(messages) :
             /\ log' = log \o SubSeq(messages, 1, n)
             /\ lost' = lost \cup ToSet(SubSeq(messages, n + 1, Len(messages)))
  BY WriteDoes, Zenon
<1> DEFINE a == SubSeq(messages, 1, n)
           b == SubSeq(messages, n + 1, Len(messages))
<1>2. a \in Seq(Lines) /\ b \in Seq(Lines)
  BY SplitLines
<1>3. log' = log \o a /\ lost' = lost \cup ToSet(b)
  BY <1>1
<1> HIDE DEF a, b
<1>4. log \in Seq(Lines) /\ Len(log) \in Nat /\ Len(a) \in Nat /\ lost \in SUBSET Lines
  BY <1>2, LenProperties DEF FileInv
<1>5. ToSet(b) \subseteq Lines
  BY <1>2, LenProperties, ElementOfSeq DEF ToSet
<1>6. QED
  BY <1>2, <1>3, <1>4, <1>5, ConcatLines

(* An append to the file keeps FileInv, whichever of its ways it goes:     *)
(* until the next look at the clock there are fewer late appends than      *)
(* appends, and the look ends the file when it is late.                    *)
LEMMA FileKeeps ==
  ASSUME FileInv, NEW messages \in Seq(Lines), File!AppendTo(messages)
  PROVE  FileInv'
<1> DEFINE bytes == writtenBytes + File!Counted(messages)
<1>1. /\ now \in 1 .. MaxTime /\ lastRoll \in 0 .. now /\ lastFlush \in 0 .. now
      /\ startOfPeriod = File!Day(lastRoll) /\ count \in 0 .. CheckEveryN - 1
      /\ writtenBytes \in Nat /\ onDisk \in 0 .. Len(log) /\ late \in 0 .. count
      /\ File!Day(now) = startOfPeriod => late = 0
      /\ CheckEveryN \in Nat \ {0} /\ MaxTime \in Nat \ {0}
  BY LoggingAssumption DEF FileInv
<1>2. /\ lost' \in SUBSET Lines /\ log' \in Seq(Lines) /\ Len(log') \in Nat /\ Len(log) <= Len(log')
      /\ faults' \in 0 .. MaxFaults
  BY LostAreLines, WriteDoes DEF File!AppendTo
<1>3. bytes \in Nat
  BY <1>1, LenProperties DEF File!Counted
<1>4. now' = now
  BY DEF File!AppendTo
<1>5. onDisk \in 0 .. Len(log')
  BY <1>1, <1>2, LenProperties DEF FileInv
<1>6. Len(log') \in 0 .. Len(log')
  BY <1>2
<1> HIDE DEF bytes
<1>7. CASE bytes > RollSize /\ File!RollFile(bytes) /\ UNCHANGED count
  <2>1. CASE File!MayRoll
    <3>1. /\ lastRoll' = now /\ lastFlush' = now /\ startOfPeriod' = File!Day(now)
          /\ writtenBytes' = 0 /\ onDisk' = Len(log') /\ late' = 0 /\ count' = count
      BY <1>7, <2>1 DEF File!RollFile
    <3>2. QED
      BY <1>1, <1>2, <1>4, <1>6, <3>1 DEF FileInv, File!Day
  <2>2. CASE ~File!MayRoll
    <3>1. /\ writtenBytes' = bytes /\ count' = count
          /\ UNCHANGED <<lastRoll, lastFlush, startOfPeriod, onDisk, late>>
      BY <1>7, <2>2 DEF File!RollFile
    <3>2. QED
      BY <1>1, <1>2, <1>3, <1>4, <1>5, <3>1 DEF FileInv, File!Day
  <2>3. QED
    BY <2>1, <2>2
<1>8. CASE /\ bytes <= RollSize /\ ~File!Due
           /\ count' = count + 1
           /\ File!KeepFile(bytes)
           /\ UNCHANGED <<lastFlush, onDisk>>
  <2>1. /\ writtenBytes' = bytes /\ lastRoll' = lastRoll /\ startOfPeriod' = startOfPeriod
        /\ lastFlush' = lastFlush /\ onDisk' = onDisk /\ count' = count + 1
        /\ late' = IF File!Day(now) # startOfPeriod THEN late + 1 ELSE late
    BY <1>8 DEF File!KeepFile
  <2>2. count' \in 0 .. CheckEveryN - 1
    BY <1>1, <1>8 DEF File!Due
  <2>3. late' \in 0 .. count'
    BY <1>1, <2>1
  <2>4. File!Day(now) = startOfPeriod => late' = 0
    BY <1>1, <2>1
  <2>5. QED
    BY <1>1, <1>2, <1>3, <1>4, <1>5, <2>1, <2>2, <2>3, <2>4 DEF FileInv, File!Day
<1>9. CASE /\ bytes <= RollSize /\ File!Due
           /\ count' = 0
           /\ IF File!NewDay THEN File!RollFile(bytes)
              ELSE /\ File!KeepFile(bytes)
                   /\ IF now - lastFlush > FlushInterval
                      THEN lastFlush' = now /\ onDisk' = Len(log')
                      ELSE UNCHANGED <<lastFlush, onDisk>>
  <2>1. count' = 0 /\ count' \in 0 .. CheckEveryN - 1
    BY <1>1, <1>9
  <2>2. CASE File!NewDay
    <3>1. File!MayRoll
      <4>1. lastRoll # now
        BY <1>1, <2>2 DEF File!NewDay
      <4>2. QED
        BY <1>1, <4>1 DEF File!MayRoll
    <3>2. /\ lastRoll' = now /\ lastFlush' = now /\ startOfPeriod' = File!Day(now)
          /\ writtenBytes' = 0 /\ onDisk' = Len(log') /\ late' = 0
      BY <1>9, <2>2, <3>1 DEF File!RollFile
    <3>3. QED
      BY <1>1, <1>2, <1>4, <1>6, <2>1, <3>2 DEF FileInv, File!Day
  <2>3. CASE ~File!NewDay
    <3>1. /\ writtenBytes' = bytes /\ lastRoll' = lastRoll /\ startOfPeriod' = startOfPeriod
          /\ late' = IF File!Day(now) # startOfPeriod THEN late + 1 ELSE late
      BY <1>9, <2>3 DEF File!KeepFile
    <3>2. late' = 0
      BY <1>1, <2>3, <3>1 DEF File!NewDay
    <3>3. lastFlush' \in 0 .. now /\ onDisk' \in 0 .. Len(log')
      BY <1>1, <1>5, <1>6, <1>9, <2>3
    <3>4. QED
      BY <1>1, <1>2, <1>3, <1>4, <2>1, <3>1, <3>2, <3>3 DEF FileInv, File!Day
  <2>4. QED
    BY <2>2, <2>3
<1>10. QED
  BY <1>7, <1>8, <1>9 DEF File!AppendTo, bytes
-----------------------------------------------------------------------------
(* The buffers.                                                            *)

(* An append goes into the buffer in use, or into an empty one, the front  *)
(* giving its full buffer away.                                            *)
LEMMA AppendDoes ==
  ASSUME TypeInv, BackInv, AppendMessage
  PROVE  /\ appended' = appended + 1 /\ appended' \in Messages /\ appended' \in 0 .. MaxMessages
         /\ \/ /\ current' = current \o <<appended'>> /\ current' \in Buffer
               /\ UNCHANGED <<next, buffers, pc>>
            \/ /\ current' = <<appended'>> /\ current' \in Buffer
               /\ buffers' = buffers \o <<current>> /\ buffers' \in Seq(Buffer) /\ buffers' # <<>>
               /\ next' = Null
               /\ pc' = pc \/ (pc = "waiting" /\ pc' = "woken")
<1>1. /\ appended \in Nat /\ MaxMessages \in Nat /\ appended < MaxMessages
      /\ appended' = appended + 1
  BY LinesAreNumbers DEF TypeInv, AppendMessage
<1>2. appended' \in Messages /\ appended' \in 0 .. MaxMessages
  BY <1>1 DEF Messages
<1>3. current \in Seq(Messages) /\ buffers \in Seq(Buffer) /\ current \in Buffer
  BY DEF TypeInv, Buffer
<1>4. CASE current' = Append(current, appended + 1) /\ UNCHANGED <<next, buffers, pc>>
  <2>1. current' = Append(current, appended')
    BY <1>1, <1>4
  <2>2. Append(current, appended') = current \o <<appended'>> /\ Append(current, appended') \in Seq(Messages)
    BY <1>2, <1>3, AppendIsConcat, AppendProperties
  <2>3. QED
    BY <1>1, <1>2, <1>4, <2>1, <2>2 DEF Buffer
<1>5. CASE /\ buffers' = Append(buffers, current)
           /\ current' = Append(IF next # Null THEN next ELSE <<>>, appended + 1)
           /\ next' = Null /\ Notify
  <2>1. current' = Append(<<>>, appended')
    BY <1>1, <1>5 DEF BackInv
  <2>2. <<>> \in Seq(Messages)
    BY EmptySeq
  <2>3. Append(<<>>, appended') = <<>> \o <<appended'>> /\ Append(<<>>, appended') \in Seq(Messages)
    BY <1>2, <2>2, AppendIsConcat, AppendProperties
  <2>4. <<appended'>> \in Seq(Messages)
    BY <1>2
  <2>5. current' = <<appended'>> /\ current' \in Buffer
    BY <2>1, <2>3, <2>4, ConcatEmptySeq DEF Buffer
  <2>6. buffers' = buffers \o <<current>> /\ buffers' \in Seq(Buffer) /\ buffers' # <<>>
    BY <1>3, <1>5, AppendIsConcat, AppendProperties
  <2>7. pc' = pc \/ (pc = "waiting" /\ pc' = "woken")
    BY <1>5 DEF Notify
  <2>8. QED
    BY <1>1, <1>2, <1>5, <2>5, <2>6, <2>7
<1>6. QED
  BY <1>4, <1>5 DEF AppendMessage

(* The thread takes what the front has, and the front goes on with its     *)
(* spare buffers.                                                          *)
LEMMA SwapDoes ==
  ASSUME TypeInv, BackInv, pc \in {"lock", "waiting", "woken"}, Swap
  PROVE  /\ toWrite' = buffers \o <<current>> /\ toWrite' \in Seq(Buffer) /\ toWrite' # <<>>
         /\ Len(toWrite') \in Nat /\ (buffers # <<>> => Len(toWrite') >= 2)
         /\ buffers' = <<>> /\ current' = <<>> /\ spare1' = Null
         /\ \/ next = Null /\ buffers # <<>> /\ next' = <<>> /\ spare2' = Null
            \/ next' = <<>> /\ spare2' = <<>>
         /\ pc' = "drop" /\ written = 0 /\ toWrite = <<>>
         /\ UNCHANGED <<running, appended, written, dropped, stopping, fileVars>>
<1>1. spare1 = <<>> /\ spare2 = <<>> /\ written = 0 /\ toWrite = <<>>
  BY DEF BackInv
<1>2. buffers \in Seq(Buffer) /\ current \in Buffer
  BY DEF TypeInv
<1>3. /\ Append(buffers, current) = buffers \o <<current>>
      /\ Append(buffers, current) \in Seq(Buffer) /\ Append(buffers, current) # <<>>
      /\ Len(Append(buffers, current)) = Len(buffers) + 1
  BY <1>2, AppendIsConcat, AppendProperties
<1>4. /\ toWrite' = Append(buffers, current) /\ buffers' = <<>> /\ current' = spare1 /\ spare1' = Null
      /\ pc' = "drop"
      /\ UNCHANGED <<running, appended, written, dropped, stopping, fileVars>>
  BY DEF Swap
<1>5. Len(buffers) \in Nat /\ (buffers # <<>> => Len(buffers) >= 1)
  BY <1>2, EmptySeq, LenProperties
<1>6. \/ next = Null /\ buffers # <<>> /\ next' = <<>> /\ spare2' = Null
      \/ next' = <<>> /\ spare2' = <<>>
  BY <1>1 DEF Swap, BackInv
<1>7. Len(toWrite') \in Nat /\ (buffers # <<>> => Len(toWrite') >= 2)
  BY <1>3, <1>4, <1>5
<1>8. QED
  BY <1>1, <1>3, <1>4, <1>6, <1>7

(* Of an overload the first two buffers stay.                              *)
LEMMA DropDoes ==
  ASSUME TypeInv, BackInv, DropOverload
  PROVE  /\ pc = "drop" /\ written = 0 /\ pc' = "write"
         /\ UNCHANGED <<running, frontVars, spare1, spare2, written, stopping>>
         /\ \/ /\ 2 \in 0 .. Len(toWrite) /\ toWrite' = SubSeq(toWrite, 1, 2)
               /\ toWrite' \in Seq(Buffer) /\ Len(toWrite') = 2 /\ toWrite' # <<>>
               /\ dropped' = dropped \cup UNION {ToSet(toWrite[i]) : i \in 3 .. Len(toWrite)}
               /\ dropped' \in SUBSET Messages
               /\ File!AppendTo(<<Notice>>)
            \/ UNCHANGED <<toWrite, dropped, fileVars>>
<1>1. pc = "drop" /\ written = 0 /\ pc' = "write"
  BY DEF BackInv, DropOverload
<1>2. UNCHANGED <<running, frontVars, spare1, spare2, written, stopping>>
  BY DEF DropOverload
<1>3. toWrite \in Seq(Buffer) /\ Len(toWrite) \in Nat /\ dropped \in SUBSET Messages
  BY LenProperties DEF TypeInv
<1>4. CASE /\ Len(toWrite) > DropAbove
           /\ toWrite' = SubSeq(toWrite, 1, Remaining)
           /\ dropped' = dropped \cup UNION {ToSet(toWrite[i]) : i \in 3..Len(toWrite)}
           /\ File!AppendTo(<<Notice>>)
  <2>1. 2 \in 0 .. Len(toWrite)
    BY <1>3, <1>4, LoggingAssumption
  <2>2. toWrite' = SubSeq(toWrite, 1, 2)
    BY <1>4 DEF Remaining
  <2>3. toWrite' \in Seq(Buffer) /\ Len(toWrite') = 2
    BY <1>3, <2>1, <2>2, SplitBatch
  <2>4. toWrite' # <<>>
    BY <2>3, EmptySeq
  <2>5. \A i \in 3 .. Len(toWrite) : ToSet(toWrite[i]) \subseteq Messages
    <3>1. \A i \in 1 .. Len(toWrite) : toWrite[i] \in Buffer
      BY <1>3, ElementOfSeq
    <3>2. \A i \in 3 .. Len(toWrite) : i \in 1 .. Len(toWrite)
      BY <1>3
    <3>3. QED
      BY <3>1, <3>2, LinesAreNumbers
  <2>6. dropped' \in SUBSET Messages
    BY <1>3, <1>4, <2>5
  <2>7. QED
    BY <1>1, <1>2, <1>4, <2>1, <2>2, <2>3, <2>4, <2>6
<1>5. CASE UNCHANGED <<toWrite, dropped, fileVars>>
  BY <1>1, <1>2, <1>5
<1>6. QED
  BY <1>4, <1>5 DEF DropOverload

(* The batch written always has a buffer for each spare one that is gone.  *)
LEMMA RecycleDoes ==
  ASSUME TypeInv, BackInv, Recycle
  PROVE  /\ pc = "write" /\ written = Len(toWrite) /\ pc' = "loop"
         /\ spare1' = <<>> /\ spare2' = <<>> /\ toWrite' = <<>> /\ written' = 0
         /\ File!Flush /\ UNCHANGED <<running, frontVars, dropped, stopping>>
<1> DEFINE few == IF Len(toWrite) > 2 THEN 2 ELSE Len(toWrite)
           kept == SubSeq(toWrite, 1, few)
<1>1. /\ pc = "write" /\ spare1 = Null /\ toWrite # <<>> /\ (spare2 = Null => Len(toWrite) >= 2)
      /\ spare2 \in {<<>>, Null}
  BY DEF BackInv, Recycle
<1>2. toWrite \in Seq(Buffer) /\ Len(toWrite) \in Nat \ {0}
  BY <1>1, EmptySeq DEF TypeInv
<1>3. few \in 0 .. Len(toWrite)
  BY <1>2
<1>4. Len(kept) = few
  BY <1>2, <1>3, SplitSeq
<1>5. /\ written = Len(toWrite) /\ pc' = "loop" /\ toWrite' = <<>> /\ written' = 0
      /\ spare1' = (IF spare1 = Null THEN <<>> ELSE spare1)
      /\ File!Flush /\ UNCHANGED <<running, frontVars, dropped, stopping>>
  BY DEF Recycle, Reset, FlushBatch
<1>6. spare2' = IF spare2 # Null THEN spare2
                ELSE IF (IF spare1 = Null THEN Len(kept) - 1 ELSE Len(kept)) > 0 THEN <<>> ELSE Null
  BY DEF Recycle, Reset, Kept
<1> HIDE DEF kept
<1>7. spare2 = Null => Len(kept) - 1 > 0
  BY <1>1, <1>2, <1>4
<1>8. spare2' = <<>>
  BY <1>1, <1>6, <1>7
<1>9. QED
  BY <1>1, <1>5, <1>8

(* The buffers go round: whatever the front and the thread do, there are   *)
(* two spare ones when the thread comes back to its loop.                  *)
LEMMA BuffersGoRound ==
  ASSUME TypeInv, BackInv, [Next]_vars
  PROVE  TypeInv' /\ BackInv'
<1>1. /\ running \in BOOLEAN /\ current \in Buffer /\ buffers \in Seq(Buffer)
      /\ toWrite \in Seq(Buffer) /\ written \in 0 .. Len(toWrite)
      /\ pc \in {"unstarted", "loop", "lock", "waiting", "woken", "drop", "write", "flush", "finished"}
      /\ stopping \in {"no", "notify", "join", "joined"}
      /\ appended \in 0 .. MaxMessages /\ dropped \in SUBSET Messages
      /\ Len(toWrite) \in Nat
  BY LenProperties DEF TypeInv
<1>2. /\ next \in {<<>>, Null} /\ spare1 \in {<<>>, Null} /\ spare2 \in {<<>>, Null}
      /\ next = Null => buffers # <<>>
      /\ pc \in {"loop", "lock", "waiting", "woken", "flush", "finished"} => spare1 = <<>> /\ spare2 = <<>>
      /\ pc \in {"drop", "write"} => /\ spare1 = Null /\ toWrite # <<>>
                                     /\ spare2 = Null => Len(toWrite) >= 2
      /\ pc \notin {"drop", "write"} => toWrite = <<>>
      /\ pc # "write" => written = 0
  BY DEF BackInv
<1>3. <<>> \in Buffer /\ <<>> \in Seq(Buffer) /\ Len(<<>>) = 0 /\ <<>> # Null
  BY OneBuffer, EmptySeq DEF Null
<1>4. CASE Start
  <2>1. /\ pc = "unstarted" /\ running' = TRUE /\ pc' = "loop" /\ spare1' = <<>> /\ spare2' = <<>>
        /\ UNCHANGED <<current, next, buffers, appended, toWrite, written, dropped, stopping>>
    BY <1>4 DEF Start, frontVars
  <2>2. QED
    BY <1>1, <1>2, <2>1 DEF TypeInv, BackInv
<1>5. CASE AppendMessage
  <2>1. /\ appended' \in 0 .. MaxMessages /\ current' \in Buffer /\ buffers' \in Seq(Buffer)
        /\ next' \in {<<>>, Null} /\ (next' = Null => buffers' # <<>>)
        /\ pc' = pc \/ (pc = "waiting" /\ pc' = "woken")
    BY <1>1, <1>2, <1>5, AppendDoes
  <2>2. UNCHANGED <<running, spare1, spare2, toWrite, written, dropped, stopping>>
    BY <1>5 DEF AppendMessage, backVars
  <2>3. TypeInv'
    BY <1>1, <2>1, <2>2 DEF TypeInv
  <2>4. BackInv'
    BY <1>1, <1>2, <2>1, <2>2 DEF BackInv
  <2>5. QED
    BY <2>3, <2>4
<1>6. CASE Stop \/ StopNotify \/ Join
  <2>1. /\ running' \in BOOLEAN /\ stopping' \in {"no", "notify", "join", "joined"}
        /\ pc' = pc \/ (pc = "waiting" /\ pc' = "woken")
        /\ UNCHANGED <<current, next, buffers, appended, spare1, spare2, toWrite, written, dropped>>
    BY <1>1, <1>6 DEF Stop, StopNotify, Join, Notify, frontVars, backVars
  <2>2. TypeInv'
    BY <1>1, <2>1 DEF TypeInv
  <2>3. BackInv'
    BY <1>1, <1>2, <2>1 DEF BackInv
  <2>4. QED
    BY <2>2, <2>3
<1>7. CASE TestRunning \/ Wait \/ Finish
  <2>1. /\ \/ pc = "loop" /\ pc' \in {"lock", "flush"}
           \/ pc = "lock" /\ pc' = "waiting"
           \/ pc = "flush" /\ pc' = "finished"
        /\ UNCHANGED <<running, stopping, current, next, buffers, appended,
                       spare1, spare2, toWrite, written, dropped>>
    BY <1>7 DEF TestRunning, Wait, Finish, frontVars, backVars
  <2>2. TypeInv'
    BY <1>1, <2>1 DEF TypeInv
  <2>3. BackInv'
    BY <1>1, <1>2, <2>1 DEF BackInv
  <2>4. QED
    BY <2>2, <2>3
<1>8. CASE SwapAtOnce \/ SwapAfterWait
  <2>1. pc \in {"lock", "waiting", "woken"} /\ Swap
    BY <1>8 DEF SwapAtOnce, SwapAfterWait, WaitEnds, TimesOut
  <2>2. /\ toWrite' \in Seq(Buffer) /\ toWrite' # <<>>
        /\ Len(toWrite') \in Nat /\ (buffers # <<>> => Len(toWrite') >= 2)
        /\ buffers' = <<>> /\ current' = <<>> /\ spare1' = Null
        /\ \/ next = Null /\ buffers # <<>> /\ next' = <<>> /\ spare2' = Null
           \/ next' = <<>> /\ spare2' = <<>>
        /\ pc' = "drop" /\ written = 0
        /\ UNCHANGED <<running, appended, written, dropped, stopping>>
    BY <2>1, SwapDoes
  <2>3. TypeInv'
    BY <1>1, <1>3, <2>2 DEF TypeInv
  <2>4. BackInv'
    BY <1>3, <2>2 DEF BackInv
  <2>5. QED
    BY <2>3, <2>4
<1>9. CASE DropOverload
  <2>1. /\ pc = "drop" /\ written' = 0 /\ pc' = "write"
        /\ UNCHANGED <<running, current, next, buffers, appended, spare1, spare2, stopping>>
        /\ toWrite' \in Seq(Buffer) /\ toWrite' # <<>> /\ Len(toWrite') \in Nat
        /\ toWrite' = toWrite \/ Len(toWrite') = 2
        /\ dropped' \in SUBSET Messages
    BY <1>1, <1>2, <1>9, DropDoes DEF frontVars
  <2>2. TypeInv'
    BY <1>1, <2>1 DEF TypeInv
  <2>3. spare1' = Null /\ (spare2' = Null => Len(toWrite') >= 2)
    <3>1. CASE toWrite' = toWrite
      BY <1>2, <2>1, <3>1
    <3>2. CASE Len(toWrite') = 2
      BY <1>2, <2>1, <3>2
    <3>3. QED
      BY <2>1, <3>1, <3>2
  <2>4. BackInv'
    BY <1>2, <2>1, <2>3 DEF BackInv
  <2>5. QED
    BY <2>2, <2>4
<1>10. CASE WriteBuffer
  <2>1. /\ pc = "write" /\ pc' = "write" /\ written' = written + 1 /\ written < Len(toWrite)
        /\ UNCHANGED <<running, current, next, buffers, appended, spare1, spare2, toWrite, dropped, stopping>>
    BY <1>10 DEF WriteBuffer, frontVars
  <2>2. TypeInv'
    BY <1>1, <2>1 DEF TypeInv
  <2>3. BackInv'
    BY <1>1, <1>2, <2>1 DEF BackInv
  <2>4. QED
    BY <2>2, <2>3
<1>11. CASE Recycle
  <2>1. /\ pc' = "loop" /\ spare1' = <<>> /\ spare2' = <<>> /\ toWrite' = <<>> /\ written' = 0
        /\ UNCHANGED <<running, current, next, buffers, appended, dropped, stopping>>
    BY <1>11, RecycleDoes DEF frontVars
  <2>2. TypeInv'
    BY <1>1, <1>3, <2>1 DEF TypeInv
  <2>3. BackInv'
    BY <1>1, <1>2, <2>1 DEF BackInv
  <2>4. QED
    BY <2>2, <2>3
<1>12. CASE Tick \/ UNCHANGED vars
  <2>1. UNCHANGED <<running, current, next, buffers, appended, spare1, spare2, toWrite, written,
                    dropped, pc, stopping>>
    BY <1>12 DEF Tick, vars, frontVars, backVars
  <2>2. TypeInv'
    BY <1>1, <2>1 DEF TypeInv
  <2>3. BackInv'
    BY <1>1, <1>2, <2>1 DEF BackInv
  <2>4. QED
    BY <2>2, <2>3
<1>13. QED
  BY <1>4, <1>5, <1>6, <1>7, <1>8, <1>9, <1>10, <1>11, <1>12 DEF Next, LoggingThread
-----------------------------------------------------------------------------
(* The way of the messages.                                                *)

(* The next buffer of a batch, and what is behind it.                      *)
LEMMA NextOfBatch ==
  ASSUME NEW s \in Seq(Buffer), NEW k \in 0 .. Len(s), k < Len(s)
  PROVE  LET rest == SubSeq(s, k + 1, Len(s))
             behind == SubSeq(s, k + 2, Len(s))
         IN /\ s[k + 1] \in Buffer
            /\ Contents(rest) = ToSet(s[k + 1]) \cup Contents(behind)
            /\ InOrder(rest) => /\ Ascending(s[k + 1]) /\ InOrder(behind)
                                /\ Behind(ToSet(s[k + 1]), Contents(behind))
<1> DEFINE rest == SubSeq(s, k + 1, Len(s))
           behind == SubSeq(s, k + 2, Len(s))
<1>1. Len(s) \in Nat /\ k + 1 \in 1 .. Len(s) /\ k + 1 \in 0 .. Len(s) /\ k + 1 + 1 = k + 2
  BY LenProperties
<1>2. s[k + 1] \in Buffer
  BY <1>1, ElementOfSeq
<1>3. rest \in Seq(Buffer) /\ behind \in Seq(Buffer)
  BY <1>1, SplitSeq
<1>4. rest = <<s[k + 1]>> \o behind
  <2>1. Len(s) \in k + 1 .. Len(s)
    BY <1>1
  <2>2. SubSeq(s, k + 1, Len(s)) = <<s[k + 1]>> \o SubSeq(s, k + 1 + 1, Len(s))
    BY <1>1, <2>1, SubSeqRecursiveFirst
  <2>3. QED
    BY <1>1, <2>2
<1> HIDE DEF rest, behind
<1> DEFINE first == s[k + 1]
<1>5. <<first>> \in Seq(Buffer) /\ Contents(<<first>>) = ToSet(first)
  BY <1>2, OneBuffer
<1>6. Contents(rest) = ToSet(first) \cup Contents(behind)
  BY <1>3, <1>4, <1>5, ConcatBatch
<1>7. /\ Len(rest) = 1 + Len(behind) /\ Len(behind) \in Nat
      /\ DOMAIN rest = 1 .. Len(rest) /\ DOMAIN behind = 1 .. Len(behind)
      /\ rest[1] = first /\ \A i \in 1 .. Len(behind) : rest[i + 1] = behind[i]
  <2>1. Len(<<first>>) = 1 /\ <<first>>[1] = first
    OBVIOUS
  <2>2. /\ Len(rest) = Len(<<first>>) + Len(behind)
        /\ \A i \in 1 .. Len(<<first>>) + Len(behind) :
             rest[i] = IF i <= Len(<<first>>) THEN <<first>>[i] ELSE behind[i - Len(<<first>>)]
    BY <1>3, <1>4, <1>5, ConcatProperties
  <2>3. Len(behind) \in Nat /\ DOMAIN rest = 1 .. Len(rest) /\ DOMAIN behind = 1 .. Len(behind)
    BY <1>3, LenProperties
  <2> HIDE DEF first
  <2>4. rest[1] = first
    BY <2>1, <2>2, <2>3
  <2>5. ASSUME NEW i \in 1 .. Len(behind) PROVE rest[i + 1] = behind[i]
    <3>1. i + 1 \in 1 .. 1 + Len(behind) /\ ~(i + 1 <= 1) /\ i + 1 - 1 = i
      BY <2>3
    <3>2. QED
      BY <2>1, <2>2, <3>1
  <2>6. QED
    BY <2>1, <2>2, <2>3, <2>4, <2>5
<1> HIDE DEF first
<1>8. ASSUME InOrder(rest)
      PROVE  /\ Ascending(first) /\ InOrder(behind)
             /\ Behind(ToSet(first), Contents(behind))
  <2>1. /\ \A i \in 1 .. Len(rest) : Ascending(rest[i])
        /\ \A i, j \in 1 .. Len(rest) : i < j => \A a \in ToSet(rest[i]), b \in ToSet(rest[j]) : a < b
    BY <1>7, <1>8 DEF InOrder
  <2>2. 1 \in 1 .. Len(rest)
    BY <1>7
  <2>3. \A i \in 1 .. Len(behind) : i + 1 \in 1 .. Len(rest) /\ 1 < i + 1
    BY <1>7
  <2>4. \A i \in 1 .. Len(behind) : Ascending(behind[i])
    BY <1>7, <2>1, <2>3
  <2>5. ASSUME NEW i \in 1 .. Len(behind), NEW j \in 1 .. Len(behind), i < j,
               NEW a \in ToSet(behind[i]), NEW b \in ToSet(behind[j])
        PROVE  a < b
    <3>1. i + 1 < j + 1
      BY <2>5
    <3>2. QED
      BY <1>7, <2>1, <2>3, <2>5, <3>1
  <2>6. ASSUME NEW a \in ToSet(first), NEW b \in Contents(behind)
        PROVE  a < b
    <3>1. PICK j \in 1 .. Len(behind) : b \in ToSet(behind[j])
      BY <1>7, <2>6 DEF Contents
    <3>2. QED
      BY <1>7, <2>1, <2>2, <2>3, <2>6, <3>1
  <2>7. QED
    BY <1>7, <2>1, <2>2, <2>4, <2>5, <2>6 DEF InOrder, Behind
<1>9. QED
  BY <1>2, <1>6, <1>8 DEF rest, behind, first

(* No part of the way holds a message that has not been appended.          *)
LEMMA FlowBounds ==
  ASSUME TypeInv, FileInv, FlowInv
  PROVE  /\ appended \in Nat
         /\ ToSet(log) \subseteq 0 .. appended
         /\ Contents(Unwritten) \subseteq 1 .. appended
         /\ Contents(buffers) \subseteq 1 .. appended
         /\ ToSet(current) \subseteq 1 .. appended
<1>1. appended \in Nat
  BY LinesAreNumbers DEF TypeInv
<1>2. (ToSet(log) \ {Notice}) \cup Contents(Unwritten) \cup Contents(buffers) \cup ToSet(current)
        \subseteq 1 .. appended
  BY DEF FlowInv
<1>3. ToSet(log) \subseteq 0 .. appended
  BY <1>1, <1>2 DEF Notice
<1>4. QED
  BY <1>1, <1>2, <1>3

(* Where nothing is appended, taken or written, the way stays as it is.    *)
LEMMA FlowStays ==
  ASSUME FlowInv,
         UNCHANGED <<current, buffers, appended, toWrite, written, dropped, log, lost>>
  PROVE  FlowInv'
BY DEF FlowInv, Unwritten

(* A new message comes behind all others.                                  *)
LEMMA FlowAppend ==
  ASSUME TypeInv, BackInv, FileInv, FlowInv, AppendMessage
  PROVE  FlowInv'
<1> DEFINE m == appended'
           L == ToSet(log)
           U == Contents(Unwritten)
           B == Contents(buffers)
           C == ToSet(current)
<1>1. /\ m = appended + 1 /\ m \in Messages
      /\ \/ /\ current' = current \o <<m>> /\ buffers' = buffers
         \/ /\ current' = <<m>> /\ buffers' = buffers \o <<current>>
  BY AppendDoes
<1>2. UNCHANGED <<log, lost, toWrite, written, dropped>>
  BY DEF AppendMessage, backVars, fileVars
<1>3. /\ ToSet(log)' = L /\ Contents(Unwritten)' = U
      /\ Ascending(log)' /\ InOrder(Unwritten)'
  BY <1>2 DEF FlowInv, Unwritten
<1>4. /\ appended \in Nat /\ L \subseteq 0 .. appended /\ U \subseteq 1 .. appended
      /\ B \subseteq 1 .. appended /\ C \subseteq 1 .. appended
  BY FlowBounds
<1>5. /\ Behind(L, U \cup B \cup C) /\ Behind(U, B \cup C) /\ Behind(B, C)
      /\ (L \ {Notice}) \cup U \cup B \cup C = (1 .. appended) \ (dropped \cup lost)
      /\ dropped \cup lost \subseteq 0 .. appended
      /\ InOrder(buffers) /\ Ascending(current)
  BY DEF FlowInv
<1>6. /\ current \in Buffer /\ current \in Seq(Lines) /\ buffers \in Seq(Buffer)
      /\ <<m>> \in Buffer /\ <<m>> \in Seq(Lines) /\ ToSet(<<m>>) = {m} /\ Ascending(<<m>>)
      /\ <<current>> \in Seq(Buffer) /\ Contents(<<current>>) = C /\ InOrder(<<current>>)
  BY <1>1, <1>5, OneBuffer, LinesAreNumbers DEF TypeInv
<1> HIDE DEF m, L, U, B, C
<1>7. \A k \in L \cup U \cup B \cup C : k < m
  BY <1>1, <1>4
<1>8. (L \ {Notice}) \cup U \cup B \cup C \cup {m} = (1 .. m) \ (dropped \cup lost)
  <2>1. m \notin dropped \cup lost /\ m \in Nat /\ m >= 1
    BY <1>1, <1>4, <1>5
  <2>2. 1 .. m = (1 .. appended) \cup {m}
    BY <1>1, <1>4
  <2>3. QED
    BY <1>5, <2>1, <2>2
<1>9. dropped' \cup lost' \subseteq 0 .. m
  BY <1>1, <1>2, <1>4, <1>5
<1>10. CASE current' = current \o <<m>> /\ buffers' = buffers
  <2>1. ToSet(current)' = C \cup {m} /\ Ascending(current)'
    <3>1. \A k \in ToSet(current), l \in ToSet(<<m>>) : l # Notice => k < l
      BY <1>6, <1>7 DEF C
    <3>2. /\ ToSet(current \o <<m>>) = ToSet(current) \cup ToSet(<<m>>)
          /\ Ascending(current \o <<m>>)
      BY <1>5, <1>6, <3>1, ConcatLines, ZenonT(30)
    <3>3. QED
      BY <1>6, <1>10, <3>2, Zenon DEF C
  <2>2. Contents(buffers)' = B /\ InOrder(buffers)'
    BY <1>5, <1>10 DEF B
  <2>3. Behind(L, U \cup B \cup (C \cup {m})) /\ Behind(U, B \cup (C \cup {m})) /\ Behind(B, C \cup {m})
    BY <1>5, <1>7 DEF Behind
  <2>4. (L \ {Notice}) \cup U \cup B \cup (C \cup {m}) = (1 .. m) \ (dropped' \cup lost')
    BY <1>2, <1>8
  <2>5. QED
    BY <1>3, <1>9, <2>1, <2>2, <2>3, <2>4 DEF FlowInv, m
<1>11. CASE current' = <<m>> /\ buffers' = buffers \o <<current>>
  <2>1. ToSet(current)' = {m} /\ Ascending(current)'
    BY <1>6, <1>11
  <2>2. Contents(buffers)' = B \cup C /\ InOrder(buffers)'
    BY <1>5, <1>6, <1>11, ConcatBatch DEF B
  <2>3. Behind(L, U \cup (B \cup C) \cup {m}) /\ Behind(U, (B \cup C) \cup {m}) /\ Behind(B \cup C, {m})
    BY <1>5, <1>7 DEF Behind
  <2>4. (L \ {Notice}) \cup U \cup (B \cup C) \cup {m} = (1 .. m) \ (dropped' \cup lost')
    BY <1>2, <1>8
  <2>5. QED
    BY <1>3, <1>9, <2>1, <2>2, <2>3, <2>4 DEF FlowInv, m
<1>12. QED
  BY <1>1, <1>10, <1>11

(* The thread takes the full buffers and the current one as they are.      *)
LEMMA FlowSwap ==
  ASSUME TypeInv, BackInv, FlowInv, pc \in {"lock", "waiting", "woken"}, Swap
  PROVE  FlowInv'
<1> DEFINE L == ToSet(log)
           B == Contents(buffers)
           C == ToSet(current)
<1>1. /\ toWrite' = buffers \o <<current>> /\ toWrite' \in Seq(Buffer)
      /\ buffers' = <<>> /\ current' = <<>>
      /\ written = 0 /\ toWrite = <<>>
      /\ UNCHANGED <<appended, written, dropped, log, lost>>
  BY SwapDoes DEF fileVars
<1>2. Unwritten = <<>>
  BY <1>1, EmptySeq, SubSeqEmpty DEF Unwritten
<1>3. Unwritten' = buffers \o <<current>>
  BY <1>1, SubSeqFull DEF Unwritten
<1>4. /\ Behind(L, B \cup C) /\ Behind(B, C)
      /\ (L \ {Notice}) \cup B \cup C = (1 .. appended) \ (dropped \cup lost)
      /\ dropped \cup lost \subseteq 0 .. appended
      /\ Ascending(log) /\ InOrder(buffers) /\ Ascending(current)
  BY <1>2, OneBuffer DEF FlowInv
<1>5. /\ buffers \in Seq(Buffer) /\ <<current>> \in Seq(Buffer)
      /\ Contents(<<current>>) = C /\ InOrder(<<current>>)
  BY <1>4, OneBuffer DEF TypeInv
<1>6. Contents(Unwritten)' = B \cup C /\ InOrder(Unwritten)'
  BY <1>3, <1>4, <1>5, ConcatBatch
<1>7. /\ ToSet(current)' = {} /\ Ascending(current)'
      /\ Contents(buffers)' = {} /\ InOrder(buffers)'
  BY <1>1, OneBuffer
<1>8. ToSet(log)' = L /\ Ascending(log)'
  BY <1>1, <1>4
<1> HIDE DEF L, B, C
<1>9. Behind(L, (B \cup C) \cup {} \cup {}) /\ Behind(B \cup C, {} \cup {}) /\ Behind({}, {})
  BY <1>4 DEF Behind
<1>10. /\ (L \ {Notice}) \cup (B \cup C) \cup {} \cup {} = (1 .. appended') \ (dropped' \cup lost')
       /\ dropped' \cup lost' \subseteq 0 .. appended'
  BY <1>1, <1>4
<1>11. QED
  BY <1>6, <1>7, <1>8, <1>9, <1>10 DEF FlowInv

(* The first two buffers stay, the others are dropped; the notice goes     *)
(* into the log, or is lost.                                               *)
LEMMA FlowDrop ==
  ASSUME TypeInv, BackInv, FileInv, FlowInv, DropOverload
  PROVE  FlowInv'
<1>1. /\ written = 0 /\ UNCHANGED <<current, buffers, appended, written>>
      /\ \/ /\ 2 \in 0 .. Len(toWrite) /\ toWrite' = SubSeq(toWrite, 1, 2)
            /\ toWrite' \in Seq(Buffer)
            /\ dropped' = dropped \cup UNION {ToSet(toWrite[i]) : i \in 3 .. Len(toWrite)}
            /\ File!AppendTo(<<Notice>>)
         \/ UNCHANGED <<toWrite, dropped, fileVars>>
  BY DropDoes DEF frontVars
<1>2. CASE UNCHANGED <<toWrite, dropped, fileVars>>
  BY <1>1, <1>2, FlowStays DEF fileVars
<1>3. CASE /\ 2 \in 0 .. Len(toWrite) /\ toWrite' = SubSeq(toWrite, 1, 2)
           /\ toWrite' \in Seq(Buffer)
           /\ dropped' = dropped \cup UNION {ToSet(toWrite[i]) : i \in 3 .. Len(toWrite)}
           /\ File!AppendTo(<<Notice>>)
  <2> DEFINE L == ToSet(log)
             X == Contents(SubSeq(toWrite, 1, 2))
             Y == Contents(SubSeq(toWrite, 3, Len(toWrite)))
             B == Contents(buffers)
             C == ToSet(current)
  <2>1. toWrite \in Seq(Buffer) /\ 2 + 1 = 3
    BY DEF TypeInv
  <2>2. Unwritten = toWrite /\ Unwritten' = toWrite'
    BY <1>1, <1>3, <2>1, SubSeqFull DEF Unwritten
  <2>3. /\ Contents(toWrite) = X \cup Y
        /\ Y = UNION {ToSet(toWrite[i]) : i \in 3 .. Len(toWrite)}
        /\ InOrder(toWrite) => InOrder(SubSeq(toWrite, 1, 2)) /\ Behind(X, Y)
    BY <1>3, <2>1, SplitBatch
  <2>4. /\ Ascending(log) /\ InOrder(toWrite) /\ InOrder(buffers) /\ Ascending(current)
        /\ Behind(L, (X \cup Y) \cup B \cup C) /\ Behind(X \cup Y, B \cup C) /\ Behind(B, C)
        /\ (L \ {Notice}) \cup (X \cup Y) \cup B \cup C = (1 .. appended) \ (dropped \cup lost)
        /\ dropped \cup lost \subseteq 0 .. appended
    BY <2>2, <2>3 DEF FlowInv
  <2>5. <<Notice>> \in Seq(Lines) /\ ToSet(<<Notice>>) = {Notice} /\ Ascending(<<Notice>>)
    <3>1. <<Notice>> \in Seq(Lines) /\ DOMAIN <<Notice>> = {1} /\ <<Notice>>[1] = Notice
      BY DEF Lines
    <3>2. QED
      BY <3>1 DEF ToSet, Ascending
  <2>6. \A k \in L, m \in ToSet(<<Notice>>) : m # Notice => k < m
    BY <2>5
  <2>7. /\ Ascending(log')
        /\ \E there, gone \in SUBSET Lines :
             /\ ToSet(<<Notice>>) = there \cup gone
             /\ ToSet(log') = ToSet(log) \cup there
             /\ lost' = lost \cup gone
    <3>1. File!Write(<<Notice>>)
      BY <1>3 DEF File!AppendTo
    <3>2. QED
      BY <2>4, <2>5, <2>6, <3>1, LogGrows, ZenonT(60)
  <2>8. PICK there, gone \in SUBSET Lines : /\ ToSet(<<Notice>>) = there \cup gone
                                            /\ ToSet(log') = ToSet(log) \cup there
                                            /\ lost' = lost \cup gone
    BY <2>7, Zenon
  <2>9. /\ appended \in Nat /\ L \subseteq 0 .. appended /\ X \cup Y \subseteq 1 .. appended
        /\ B \subseteq 1 .. appended /\ C \subseteq 1 .. appended
    BY <2>2, <2>3, FlowBounds
  <2>10. ToSet(log') = L \cup there /\ lost' = lost \cup gone /\ there \cup gone = {Notice}
    BY <2>5, <2>8
  <2>11. dropped' = dropped \cup Y
    BY <1>3, <2>3
  <2>12. Contents(Unwritten)' = X /\ InOrder(Unwritten)'
    BY <1>3, <2>2, <2>3, <2>4
  <2> HIDE DEF L, X, Y, B, C
  <2>13. Behind(L \cup there, X \cup B \cup C) /\ Behind(X, B \cup C)
    <3>1. \A k \in there : k = 0
      BY <2>10 DEF Notice
    <3>2. \A m \in 1 .. appended : 0 < m
      BY <2>9
    <3>3. \A k \in there, m \in X \cup B \cup C : k < m
      BY <2>9, <3>1, <3>2
    <3>4. QED
      BY <2>4, <3>3 DEF Behind
  <2>14. \A k \in Y : k \notin L \cup X \cup B \cup C
    <3>1. \A k \in Y, m \in L \cup X \cup B \cup C : k < m \/ m < k
      BY <2>3, <2>4 DEF Behind
    <3>2. \A k \in Y : k \in Nat
      BY <2>9
    <3>3. QED
      BY <3>1, <3>2
  <2>15. ((L \cup there) \ {Notice}) \cup X \cup B \cup C
           = (1 .. appended) \ ((dropped \cup Y) \cup (lost \cup gone))
    <3>1. (L \cup there) \ {Notice} = L \ {Notice}
      BY <2>10
    <3>2. Notice \notin 1 .. appended
      BY DEF Notice
    <3>3. (L \ {Notice}) \cup X \cup B \cup C = ((1 .. appended) \ (dropped \cup lost)) \ Y
      BY <2>4, <2>14
    <3>4. QED
      BY <2>10, <3>1, <3>2, <3>3
  <2>16. (dropped \cup Y) \cup (lost \cup gone) \subseteq 0 .. appended
    <3>1. gone \subseteq 0 .. appended
      BY <2>9, <2>10 DEF Notice
    <3>2. \A k \in 1 .. appended : k \in 0 .. appended
      BY <2>9
    <3>3. Y \subseteq 0 .. appended
      BY <2>9, <3>2
    <3>4. QED
      BY <2>4, <3>1, <3>3
  <2>17. /\ Ascending(log)' /\ InOrder(buffers)' /\ Ascending(current)'
         /\ Contents(buffers)' = B /\ ToSet(current)' = C /\ appended' = appended
    BY <1>1, <2>4, <2>7 DEF B, C
  <2>18. QED
    BY <2>4, <2>10, <2>11, <2>12, <2>13, <2>15, <2>16, <2>17 DEF FlowInv
<1>4. QED
  BY <1>1, <1>2, <1>3

(* The first of the batch goes into the log, or is lost.                   *)
LEMMA FlowWrite ==
  ASSUME TypeInv, BackInv, FileInv, FlowInv, WriteBuffer
  PROVE  FlowInv'
<1> DEFINE L == ToSet(log)
           first == toWrite[written + 1]
           F == ToSet(first)
           rest == SubSeq(toWrite, written + 2, Len(toWrite))
           R == Contents(rest)
           B == Contents(buffers)
           C == ToSet(current)
<1>1. /\ written < Len(toWrite) /\ written' = written + 1
      /\ File!Write(first)
      /\ UNCHANGED <<current, buffers, appended, toWrite, dropped>>
  BY DEF WriteBuffer, File!AppendTo, frontVars
<1>2. toWrite \in Seq(Buffer) /\ written \in 0 .. Len(toWrite)
  BY DEF TypeInv
<1>3. /\ first \in Buffer
      /\ Contents(Unwritten) = F \cup R
      /\ InOrder(Unwritten) => Ascending(first) /\ InOrder(rest) /\ Behind(F, R)
  BY <1>1, <1>2, NextOfBatch DEF Unwritten
<1>4. Unwritten' = rest
  <2>1. written + 1 + 1 = written + 2
    BY <1>2, LenProperties
  <2>2. QED
    BY <1>1, <2>1 DEF Unwritten
<1>5. /\ Ascending(log) /\ InOrder(buffers) /\ Ascending(current)
      /\ Ascending(first) /\ InOrder(rest) /\ Behind(F, R)
      /\ Behind(L, (F \cup R) \cup B \cup C) /\ Behind(F \cup R, B \cup C) /\ Behind(B, C)
      /\ (L \ {Notice}) \cup (F \cup R) \cup B \cup C = (1 .. appended) \ (dropped \cup lost)
      /\ dropped \cup lost \subseteq 0 .. appended
  BY <1>3 DEF FlowInv
<1>6. first \in Seq(Lines)
  BY <1>3, LinesAreNumbers
<1>7. \A k \in L, m \in F : m # Notice => k < m
  BY <1>5 DEF Behind
<1>8. /\ Ascending(log')
      /\ \E there, gone \in SUBSET Lines :
           /\ ToSet(first) = there \cup gone
           /\ ToSet(log') = ToSet(log) \cup there
           /\ lost' = lost \cup gone
           /\ \A k \in ToSet(log'), m \in gone : m # Notice => k < m
  BY <1>1, <1>5, <1>6, <1>7, LogGrows, Zenon
<1>9. PICK there, gone \in SUBSET Lines :
             /\ ToSet(first) = there \cup gone
             /\ ToSet(log') = ToSet(log) \cup there
             /\ lost' = lost \cup gone
             /\ \A k \in ToSet(log'), m \in gone : m # Notice => k < m
  BY <1>8, Zenon
<1>10. /\ appended \in Nat /\ L \subseteq 0 .. appended /\ F \cup R \subseteq 1 .. appended
       /\ B \subseteq 1 .. appended /\ C \subseteq 1 .. appended
  BY <1>3, FlowBounds
<1>11. /\ F = there \cup gone /\ ToSet(log') = L \cup there /\ lost' = lost \cup gone
       /\ \A k \in L \cup there, m \in gone : m # Notice => k < m
  BY <1>9
<1>12. Contents(Unwritten)' = R /\ InOrder(Unwritten)'
  BY <1>4, <1>5
<1> HIDE DEF L, first, F, rest, R, B, C
<1> DEFINE Others == R \cup B \cup C
<1>13. /\ L \in SUBSET Nat /\ there \in SUBSET Nat /\ gone \in SUBSET Nat /\ Others \in SUBSET Nat
       /\ 0 \notin there \cup gone \cup Others
  <2>1. \A k \in 0 .. appended : k \in Nat
    BY <1>10
  <2>2. \A k \in 1 .. appended : k \in Nat /\ k # 0
    BY <1>10
  <2>3. L \in SUBSET Nat
    BY <1>10, <2>1
  <2>4. there \cup gone \subseteq 1 .. appended /\ Others \subseteq 1 .. appended
    BY <1>10, <1>11
  <2> HIDE DEF Others
  <2>5. QED
    BY <2>2, <2>3, <2>4
<1>14. Behind(L, (there \cup gone) \cup Others) /\ Behind(there \cup gone, Others)
  BY <1>5, <1>11 DEF Behind
<1>15. (L \ {Notice}) \cup (there \cup gone) \cup Others = (1 .. appended) \ (dropped \cup lost)
  BY <1>5, <1>11
<1> HIDE DEF Others
<1>16. /\ Behind(L \cup there, Others)
       /\ ((L \cup there) \ {Notice}) \cup Others = ((1 .. appended) \ (dropped \cup lost)) \ gone
  <2>1. Behind(L \cup there, Others) /\ Behind(gone, Others)
    BY <1>14 DEF Behind
  <2>2. ASSUME NEW k \in gone PROVE k \notin L \cup there \cup Others
    <3>1. k \in Nat /\ k # Notice /\ ~(k < k)
      BY <1>13 DEF Notice
    <3>2. QED
      BY <1>11, <2>1, <3>1 DEF Behind
  <2>3. Notice \notin there
    BY <1>13 DEF Notice
  <2>4. ((L \cup there) \ {Notice}) \cup Others
          = ((L \ {Notice}) \cup (there \cup gone) \cup Others) \ gone
    BY <2>2, <2>3
  <2>5. QED
    BY <1>15, <2>1, <2>4
<1>17. /\ Behind(L \cup there, R \cup B \cup C) /\ Behind(R, B \cup C)
       /\ ((L \cup there) \ {Notice}) \cup R \cup B \cup C
            = (1 .. appended) \ (dropped \cup (lost \cup gone))
  <2>1. Behind(R, B \cup C)
    BY <1>5 DEF Behind
  <2>2. QED
    BY <1>16, <2>1 DEF Others
<1>18. dropped \cup (lost \cup gone) \subseteq 0 .. appended
  <2>1. gone \subseteq 0 .. appended
    BY <1>10, <1>11
  <2>2. QED
    BY <1>5, <2>1
<1>19. /\ Ascending(log)' /\ InOrder(buffers)' /\ Ascending(current)'
       /\ Contents(buffers)' = B /\ ToSet(current)' = C
       /\ appended' = appended /\ dropped' = dropped
  BY <1>1, <1>5, <1>8 DEF B, C
<1>20. QED
  BY <1>5, <1>11, <1>12, <1>17, <1>18, <1>19 DEF FlowInv

(* All of the batch is written when its buffers are taken back.            *)
LEMMA FlowRecycle ==
  ASSUME TypeInv, BackInv, FlowInv, Recycle
  PROVE  FlowInv'
<1>1. /\ written = Len(toWrite) /\ toWrite' = <<>> /\ written' = 0
      /\ UNCHANGED <<current, buffers, appended, dropped, log, lost>>
  BY RecycleDoes DEF File!Flush, frontVars
<1>2. Len(toWrite) \in Nat /\ Len(<<>>) = 0
  BY EmptySeq, LenProperties DEF TypeInv
<1>3. Unwritten = <<>>
  <2>1. Len(toWrite) + 1 \in Int /\ Len(toWrite) \in Int /\ Len(toWrite) < Len(toWrite) + 1
    BY <1>2
  <2>2. QED
    BY <1>1, <2>1, SubSeqEmpty DEF Unwritten
<1>4. Unwritten' = <<>>
  BY <1>1, <1>2, SubSeqEmpty DEF Unwritten
<1>5. Unwritten' = Unwritten
  BY <1>3, <1>4
<1>6. QED
  BY <1>1, <1>5 DEF FlowInv
-----------------------------------------------------------------------------
(* A step of the program, whichever it is, leaves the file as FileInv says.*)
LEMMA FileStep ==
  ASSUME TypeInv, FileInv, [Next]_vars
  PROVE  FileInv'
<1>1. /\ now \in 1 .. MaxTime /\ lastRoll \in 0 .. now /\ lastFlush \in 0 .. now
      /\ startOfPeriod = File!Day(lastRoll) /\ count \in 0 .. CheckEveryN - 1
      /\ writtenBytes \in Nat /\ log \in Seq(Lines) /\ onDisk \in 0 .. Len(log) /\ late \in 0 .. count
      /\ File!Day(now) = startOfPeriod => late = 0
      /\ faults \in 0 .. MaxFaults /\ lost \in SUBSET Lines
      /\ CheckEveryN \in Nat \ {0} /\ MaxTime \in Nat \ {0} /\ Len(log) \in Nat
  BY LoggingAssumption, LenProperties DEF FileInv
<1>2. CASE Start
  <2>1. UNCHANGED <<log, now, count, faults, lost>> /\ File!RollFile(0)
    BY <1>2 DEF Start
  <2>2. CASE File!MayRoll
    <3>1. /\ lastRoll' = now /\ lastFlush' = now /\ startOfPeriod' = File!Day(now)
          /\ writtenBytes' = 0 /\ onDisk' = Len(log') /\ late' = 0
      BY <2>1, <2>2 DEF File!RollFile
    <3>2. QED
      BY <1>1, <2>1, <3>1 DEF FileInv, File!Day
  <2>3. CASE ~File!MayRoll
    <3>1. writtenBytes' = 0 /\ UNCHANGED <<lastRoll, lastFlush, startOfPeriod, onDisk, late>>
      BY <2>1, <2>3 DEF File!RollFile
    <3>2. QED
      BY <1>1, <2>1, <3>1 DEF FileInv, File!Day
  <2>4. QED
    BY <2>2, <2>3
<1>3. CASE UNCHANGED fileVars
  BY <1>1, <1>3 DEF FileInv, File!Day, fileVars
<1>4. CASE DropOverload
  <2>1. <<Notice>> \in Seq(Lines)
    BY DEF Lines
  <2>2. CASE File!AppendTo(<<Notice>>)
    BY <2>1, <2>2, FileKeeps
  <2>3. QED
    BY <1>3, <1>4, <2>2 DEF DropOverload
<1>5. CASE WriteBuffer
  <2>1. toWrite \in Seq(Buffer) /\ written + 1 \in 1 .. Len(toWrite) /\ File!AppendTo(toWrite[written + 1])
    BY <1>5, LenProperties DEF TypeInv, WriteBuffer
  <2>2. toWrite[written + 1] \in Seq(Lines)
    BY <2>1, ElementOfSeq, LinesAreNumbers
  <2>3. QED
    BY <2>1, <2>2, FileKeeps
<1>6. CASE Recycle \/ Finish
  <2>1. onDisk' = Len(log) /\ UNCHANGED <<now, lastRoll, lastFlush, startOfPeriod, count, writtenBytes,
                                          log, late, faults, lost>>
    BY <1>6 DEF Recycle, FlushBatch, Finish, File!Flush
  <2>2. QED
    BY <1>1, <2>1 DEF FileInv, File!Day
<1>7. CASE Tick
  <2>1. /\ now < MaxTime /\ now' = now + 1
        /\ UNCHANGED <<lastRoll, lastFlush, startOfPeriod, count, writtenBytes, log, onDisk, late, faults, lost>>
    BY <1>7 DEF Tick, File!Tick, File!fileVars
  <2>2. now' \in 1 .. MaxTime /\ lastRoll \in 0 .. now' /\ lastFlush \in 0 .. now'
    BY <1>1, <2>1
  <2>3. File!Day(now') = startOfPeriod => late = 0
    <3>1. now \in Nat /\ now + 1 \in Nat /\ lastRoll \in Nat /\ lastRoll <= now /\ now <= now + 1
      BY <1>1
    <3>2. /\ File!Day(lastRoll) \in Nat /\ File!Day(now) \in Nat
          /\ File!Day(lastRoll) <= File!Day(now) /\ File!Day(now) <= File!Day(now + 1)
      BY <3>1, DaysPass
    <3>3. File!Day(now + 1) = startOfPeriod => File!Day(now) = startOfPeriod
      BY <1>1, <3>2
    <3>4. QED
      BY <1>1, <2>1, <3>3
  <2>4. QED
    BY <1>1, <2>1, <2>2, <2>3 DEF FileInv, File!Day
<1>8. CASE \/ AppendMessage \/ Stop \/ StopNotify \/ Join
           \/ TestRunning \/ SwapAtOnce \/ Wait \/ SwapAfterWait \/ UNCHANGED vars
  <2>1. UNCHANGED fileVars
    BY <1>8 DEF AppendMessage, Stop, StopNotify, Join, TestRunning, SwapAtOnce, Wait, SwapAfterWait, Swap, vars
  <2>2. QED
    BY <1>3, <2>1
<1>9. QED
  BY <1>2, <1>4, <1>5, <1>6, <1>7, <1>8 DEF Next, LoggingThread

(* No step overtakes a message, repeats it or forgets it.                  *)
LEMMA FlowStep ==
  ASSUME TypeInv, BackInv, FileInv, FlowInv, [Next]_vars
  PROVE  FlowInv'
<1>1. CASE AppendMessage
  BY <1>1, FlowAppend
<1>2. CASE SwapAtOnce \/ SwapAfterWait
  <2>1. pc \in {"lock", "waiting", "woken"} /\ Swap
    BY <1>2 DEF SwapAtOnce, SwapAfterWait, WaitEnds, TimesOut
  <2>2. QED
    BY <2>1, FlowSwap
<1>3. CASE DropOverload
  BY <1>3, FlowDrop
<1>4. CASE WriteBuffer
  BY <1>4, FlowWrite
<1>5. CASE Recycle
  BY <1>5, FlowRecycle
<1>6. CASE \/ Start \/ Stop \/ StopNotify \/ Join \/ TestRunning \/ Wait \/ Finish \/ Tick
           \/ UNCHANGED vars
  <2>1. UNCHANGED <<current, buffers, appended, toWrite, written, dropped, log, lost>>
    BY <1>6 DEF Start, Stop, StopNotify, Join, TestRunning, Wait, Finish, Tick, vars,
                frontVars, backVars, fileVars, File!Flush, File!Tick, File!fileVars
  <2>2. QED
    BY <2>1, FlowStays
<1>7. QED
  BY <1>1, <1>2, <1>3, <1>4, <1>5, <1>6 DEF Next, LoggingThread

\* Before the thread is started there is nothing on the way.
LEMMA LoggingInit == Init => LoggingInv
<1> SUFFICES ASSUME Init PROVE LoggingInv
  OBVIOUS
<1>1. <<>> \in Buffer /\ <<>> \in Seq(Buffer) /\ <<>> \in Seq(Lines) /\ Len(<<>>) = 0 /\ <<>> # Null
  BY OneBuffer, EmptySeq DEF Null
<1>2. /\ running = FALSE /\ current = <<>> /\ next = <<>> /\ buffers = <<>>
      /\ spare1 = Null /\ spare2 = Null /\ toWrite = <<>> /\ written = 0
      /\ pc = "unstarted" /\ stopping = "no" /\ appended = 0 /\ dropped = {}
  BY DEF Init
<1>3. /\ now = 1 /\ lastRoll = 0 /\ lastFlush = 0 /\ startOfPeriod = 0
      /\ count = 0 /\ writtenBytes = 0
      /\ log = <<>> /\ onDisk = 0 /\ late = 0 /\ faults = 0 /\ lost = {}
  BY DEF Init, File!Init
<1>4. TypeInv
  <2>1. running \in BOOLEAN /\ pc \in {"unstarted"} /\ stopping \in {"no"}
    BY <1>2
  <2>2. written \in 0 .. Len(toWrite) /\ appended \in 0 .. MaxMessages /\ dropped \in SUBSET Messages
    <3>1. 0 \in 0 .. 0 /\ 0 \in 0 .. MaxMessages
      BY LinesAreNumbers
    <3>2. Len(toWrite) = 0
      BY <1>1, <1>2
    <3>3. QED
      BY <1>2, <3>1, <3>2
  <2>3. QED
    BY <1>1, <1>2, <2>1, <2>2 DEF TypeInv
<1>5. BackInv
  BY <1>1, <1>2 DEF BackInv
<1>6. FileInv
  <2>1. SecondsPerDay \in Nat \ {0} /\ CheckEveryN \in Nat \ {0} /\ MaxTime \in Nat \ {0} /\ MaxFaults \in Nat
    BY LoggingAssumption
  <2>2. 0 \div SecondsPerDay = 0
    BY <2>1
  <2>3. startOfPeriod = File!Day(lastRoll)
    BY <1>3, <2>2 DEF File!Day
  <2>4. QED
    BY <1>1, <1>3, <2>1, <2>3 DEF FileInv
<1>7. FlowInv
  <2>1. Unwritten = <<>>
    BY <1>1, <1>2, SubSeqEmpty DEF Unwritten
  <2>2. 1 .. appended = {}
    BY <1>2
  <2>3. QED
    BY <1>2, <1>3, <2>1, <2>2, OneBuffer DEF FlowInv, Behind
<1>8. QED
  BY <1>4, <1>5, <1>6, <1>7 DEF LoggingInv

(* The invariant of the logger: its buffers, its file and the way of a     *)
(* message from append() to the file.                                      *)
LEMMA LoggingInvariant == Spec => []LoggingInv
<1>1. LoggingInv /\ [Next]_vars => LoggingInv'
  BY BuffersGoRound, FileStep, FlowStep DEF LoggingInv
<1>2. QED
  BY LoggingInit, <1>1, PTL DEF Spec
-----------------------------------------------------------------------------
(* A message is never lost, repeated or overtaken on its way through the   *)
(* buffers to the file (AsyncLogging::append and threadFunc), except those *)
(* dropped for overload and those of a failed write; and the thread has    *)
(* its two spare buffers whenever it comes back to its loop.               *)
THEOREM LogIsInOrder == Spec => []InOrderOnce
<1>1. LoggingInv => InOrderOnce
  <2> SUFFICES ASSUME TypeInv, BackInv, FileInv, FlowInv PROVE InOrderOnce
    BY DEF LoggingInv
  <2> DEFINE L == ToSet(log)
             U == Contents(Unwritten)
             B == Contents(buffers)
             C == ToSet(current)
  <2>1. /\ toWrite \in Seq(Buffer) /\ written \in 0 .. Len(toWrite)
        /\ buffers \in Seq(Buffer) /\ current \in Buffer
    BY DEF TypeInv
  <2>2. Unwritten \in Seq(Buffer)
    BY <2>1, SplitBatch DEF Unwritten
  <2>3. /\ Ascending(log) /\ InOrder(Unwritten) /\ InOrder(buffers) /\ Ascending(current)
        /\ Behind(L, U \cup B \cup C) /\ Behind(U, B \cup C) /\ Behind(B, C)
        /\ (L \ {Notice}) \cup U \cup B \cup C = (1 .. appended) \ (dropped \cup lost)
    BY DEF FlowInv
  <2>4. <<current>> \in Seq(Buffer) /\ Contents(<<current>>) = C /\ InOrder(<<current>>)
    BY <2>1, <2>3, OneBuffer
  <2> HIDE DEF L, C
  <2>5. Behind(U, B) /\ Behind(U \cup B, C)
    BY <2>3 DEF Behind
  <2>6. /\ Unwritten \o buffers \in Seq(Buffer) /\ Contents(Unwritten \o buffers) = U \cup B
        /\ InOrder(Unwritten \o buffers)
    BY <2>1, <2>2, <2>3, <2>5, ConcatBatch
  <2>7. InFlight = (Unwritten \o buffers) \o <<current>>
    BY DEF InFlight, Unwritten
  <2>8. Contents(InFlight) = U \cup B \cup C /\ InOrder(InFlight)
    BY <2>4, <2>5, <2>6, <2>7, ConcatBatch
  <2>9. \A m \in L, n \in Contents(InFlight) : m < n
    BY <2>3, <2>8 DEF Behind
  <2>10. (L \ {Notice}) \cup Contents(InFlight) = (1 .. appended) \ (dropped \cup lost)
    BY <2>3, <2>8
  <2>11. SparesReady
    <3>1. {next, spare1, spare2} \subseteq Buffer \cup {Null}
      BY OneBuffer DEF BackInv
    <3>2. startOfPeriod \in Nat /\ late \in Nat
      <4>1. lastRoll \in Nat /\ lastRoll <= lastRoll /\ count \in Nat
        BY LoggingAssumption DEF FileInv
      <4>2. QED
        BY <4>1, DaysPass DEF FileInv
    <3>3. TypeOK
      BY <3>1, <3>2 DEF TypeOK, TypeInv, FileInv, Lines
    <3>4. QED
      BY <3>3 DEF SparesReady, BackInv
  <2>12. QED
    BY <2>3, <2>8, <2>9, <2>10, <2>11 DEF InOrderOnce, L
<1>2. QED
  BY LoggingInvariant, <1>1, PTL

(* A log file takes at most checkEveryN_ appends once its day is over      *)
(* (LogFile::append looks at the clock only then), however long the days   *)
(* are and whenever the file was last rolled.                              *)
THEOREM FileRolls == Spec => []RollsOnTime
<1>1. LoggingInv => RollsOnTime
  <2>1. CheckEveryN \in Nat \ {0}
    BY LoggingAssumption
  <2>2. QED
    BY <2>1 DEF LoggingInv, FileInv, RollsOnTime
<1>2. QED
  BY LoggingInvariant, <1>1, PTL

-----------------------------------------------------------------------------
(* Years, days and their numbers *)

\* The year y is that of the given cycles of 400, 100 and 4 years.
IsYear(y, q, c, k, j) ==
    /\ y \in Int /\ q \in Int /\ c \in 0 .. 3 /\ k \in 0 .. 24 /\ j \in 0 .. 3
    /\ y = 400 * q + 100 * c + 4 * k + j

(* Every year is that of some cycles.                                      *)
LEMMA YearIs ==
  ASSUME NEW y \in Int
  PROVE  \E q \in Int, c \in 0 .. 3, k \in 0 .. 24, j \in 0 .. 3 : IsYear(y, q, c, k, j)
<1> DEFINE q == y \div 400
           h == y % 400
           c == h \div 100
           g == h % 100
           k == g \div 4
           j == g % 4
<1>1. q \in Int /\ h \in 0 .. 399 /\ y = 400 * q + h
  BY Z3
<1> HIDE DEF q, h
<1>2. c \in 0 .. 3 /\ g \in 0 .. 99 /\ h = 100 * c + g
  BY <1>1, Z3
<1> HIDE DEF c, g
<1>3. k \in 0 .. 24 /\ j \in 0 .. 3 /\ g = 4 * k + j
  BY <1>2, Z3
<1> HIDE DEF k, j
<1>4. y = 400 * q + 100 * c + 4 * k + j
  BY <1>1, <1>2, <1>3
<1>5. QED
  BY <1>1, <1>2, <1>3, <1>4 DEF IsYear

(* Which years are leap years, by the cycles of the year before.           *)
LEMMA LeapCycle ==
  ASSUME NEW y, NEW q, NEW c, NEW k, NEW j, IsYear(y, q, c, k, j)
  PROVE  IsLeap(y + 1) <=> j = 3 /\ (k = 24 => c = 3)
<1>1. y \in Int /\ q \in Int /\ c \in 0 .. 3 /\ k \in 0 .. 24 /\ j \in 0 .. 3
      /\ y = 400 * q + 100 * c + 4 * k + j
  BY DEF IsYear
<1>2. ((y + 1) % 4 = 0) <=> (j = 3)
  BY <1>1, Z3
<1>3. ((y + 1) % 100 = 0) <=> (j = 3 /\ k = 24)
  BY <1>1, Z3
<1>4. ((y + 1) % 400 = 0) <=> (j = 3 /\ k = 24 /\ c = 3)
  BY <1>1, Z3
<1>5. QED
  BY <1>2, <1>3, <1>4 DEF IsLeap

\* The days of the years, of 365 or 366 days and beginning in March, before year y.
DaysBefore(y) == y * 365 + (y \div 4) - (y \div 100) + (y \div 400)

\* The days before a month, in a year that begins in March.
DaysBeforeMonth(m) == (153 * m + 2) \div 5

(* YearMonthDay finds the month of a day of such a year.                   *)
LEMMA MonthIs ==
  ASSUME NEW m \in 0 .. 11, NEW n \in Int, n >= 0, DaysBeforeMonth(m) + n < DaysBeforeMonth(m + 1)
  PROVE  (5 * (DaysBeforeMonth(m) + n) + 2) \div 153 = m
  BY Z3 DEF DaysBeforeMonth

\* The year and the month, from March on, in which a month falls, with 0 for March.
YearOf(year, month) == year + 4800 - (IF month > 2 THEN 0 ELSE 1)
MonthOf(month) == IF month > 2 THEN month - 3 ELSE month + 9

\* The day within a year that begins in March, with 0 for the first of it.
DayOf(month, n) == DaysBeforeMonth(MonthOf(month)) + n - 1

(* MonthDays, as the distance of the first days of two months.             *)
LEMMA MonthFits ==
  ASSUME NEW year \in Int, NEW month \in 1 .. 12, NEW n \in 1 .. MonthDays(year, month)
  PROVE  /\ MonthOf(month) \in 0 .. 11 /\ YearOf(year, month) \in Int /\ n \in Int
         /\ DayOf(month, n) \in 0 .. 365
         /\ DayOf(month, n) < DaysBeforeMonth(MonthOf(month) + 1)
         /\ DayOf(month, n) = 365 => IsLeap(YearOf(year, month) + 1)
<1>1. MonthDays(year, month) \in {28, 29, 30, 31}
  BY DEF MonthDays
<1>2. n \in Int /\ n >= 1 /\ n <= MonthDays(year, month)
  BY <1>1
<1>3. CASE month = 2
  <2>1. MonthOf(month) = 11 /\ YearOf(year, month) = year + 4799
    BY <1>3 DEF MonthOf, YearOf
  <2>2. DaysBeforeMonth(11) = 337 /\ DaysBeforeMonth(12) = 367
    BY Z3 DEF DaysBeforeMonth
  <2>3. DayOf(month, n) = 336 + n
    BY <1>2, <2>1, <2>2 DEF DayOf
  <2>4. n \in 1 .. 29
    BY <1>2, <1>3 DEF MonthDays
  <2>5. n = 29 => IsLeap(year)
    BY <1>2, <1>3 DEF MonthDays
  <2>6. IsLeap(year) => IsLeap(year + 4800)
    <3>1. /\ (year + 4800) % 4 = year % 4
          /\ (year + 4800) % 100 = year % 100
          /\ (year + 4800) % 400 = year % 400
      BY Z3
    <3>2. QED
      BY <3>1 DEF IsLeap
  <2>7. year + 4799 + 1 = year + 4800
    OBVIOUS
  <2>8. QED
    BY <1>2, <2>1, <2>2, <2>3, <2>4, <2>5, <2>6, <2>7
<1>4. CASE month \in {4, 6, 9, 11}
  <2>1. n <= 30
    BY <1>2, <1>4 DEF MonthDays
  <2>2. QED
    BY <1>2, <1>4, <2>1, Z3 DEF MonthOf, YearOf, DayOf, DaysBeforeMonth
<1>5. CASE month \in {1, 3, 5, 7, 8, 10, 12}
  <2>1. n <= 31
    BY <1>2, <1>5 DEF MonthDays
  <2>2. QED
    BY <1>2, <1>5, <2>1, Z3 DEF MonthOf, YearOf, DayOf, DaysBeforeMonth
<1>6. QED
  BY <1>3, <1>4, <1>5

(* JulianDayNumber, step by step.                                          *)
LEMMA NumberIs ==
  ASSUME NEW year \in Int, NEW month \in 1 .. 12, NEW n \in Int
  PROVE  JulianDayNumber(year, month, n) = DaysBefore(YearOf(year, month)) + DayOf(month, n) - 32044
<1> DEFINE a == (14 - month) \div 12
<1>1. a = IF month > 2 THEN 0 ELSE 1
  BY Z3
<1>2. month + 12 * a - 3 = MonthOf(month) /\ year + 4800 - a = YearOf(year, month)
  BY <1>1 DEF MonthOf, YearOf
<1>3. MonthOf(month) \in Int /\ YearOf(year, month) \in Int
  BY DEF MonthOf, YearOf
<1>4. JulianDayNumber(year, month, n) =
        n + ((153 * MonthOf(month) + 2) \div 5) + YearOf(year, month) * 365 + (YearOf(year, month) \div 4)
          - (YearOf(year, month) \div 100) + (YearOf(year, month) \div 400) - 32045
  BY <1>2 DEF JulianDayNumber
<1> DEFINE y == YearOf(year, month)
           before == DaysBeforeMonth(MonthOf(month))
<1>5. y \div 4 \in Int /\ y \div 100 \in Int /\ y \div 400 \in Int /\ y \in Int
  BY <1>3, Z3
<1>6. before \in Int
  BY <1>3, Z3 DEF DaysBeforeMonth
<1>7. JulianDayNumber(year, month, n) =
        n + before + y * 365 + (y \div 4) - (y \div 100) + (y \div 400) - 32045
  BY <1>4 DEF DaysBeforeMonth
<1> HIDE DEF y, before
<1>8. JulianDayNumber(year, month, n) =
        (y * 365 + (y \div 4) - (y \div 100) + (y \div 400)) + (before + n - 1) - 32044
  BY <1>5, <1>6, <1>7, SMTT(30)
<1>9. QED
  BY <1>8 DEF DayOf, DaysBefore, y, before

\* The date of a day within a year that begins in March.
DateOf(y, m, n) ==
    [year |-> y - 4800 + (m \div 10), month |-> m + 3 - 12 * (m \div 10), day |-> n]

\* The numbers that YearMonthDay computes, one after the other.
Computes(n, a, b, c, d, e, m) ==
    /\ n \in Int /\ a \in Int /\ b \in Int /\ c \in Int /\ d \in Int /\ e \in Int /\ m \in Int
    /\ a = n + 32044 /\ b = (4 * a + 3) \div 146097 /\ c = a - ((b * 146097) \div 4)
    /\ d = (4 * c + 3) \div 1461 /\ e = c - ((1461 * d) \div 4) /\ m = (5 * e + 2) \div 153

\* The date YearMonthDay makes of them.
DateFrom(b, d, e, m) ==
    [year |-> b * 100 + d - 4800 + (m \div 10), month |-> m + 3 - 12 * (m \div 10),
     day |-> e - ((153 * m + 2) \div 5) + 1]

(* The definition of YearMonthDay.                                         *)
LEMMA YearMonthDayIs ==
  ASSUME NEW n, NEW a, NEW b, NEW c, NEW d, NEW e, NEW m, Computes(n, a, b, c, d, e, m)
  PROVE  YearMonthDay(n) = DateFrom(b, d, e, m)
  BY DEF YearMonthDay, Computes, DateFrom

\* The day n is the e-th of the year y, in its month m; years begin in March.
Falls(n, y, e, m) ==
    /\ n \in Int /\ y \in Int /\ e \in 0 .. 365 /\ m \in 0 .. 11
    /\ n = DaysBefore(y) + e - 32044
    /\ e = 365 => IsLeap(y + 1)
    /\ DaysBeforeMonth(m) <= e /\ e < DaysBeforeMonth(m + 1)

(* What YearMonthDay returns for it.                                       *)
LEMMA DateIs ==
  ASSUME NEW n \in Int, NEW y \in Int, NEW e \in 0 .. 365, NEW m \in 0 .. 11, Falls(n, y, e, m)
  PROVE  YearMonthDay(n) = DateOf(y, m, e - DaysBeforeMonth(m) + 1)
<1>0. /\ n = DaysBefore(y) + e - 32044
      /\ e = 365 => IsLeap(y + 1)
      /\ DaysBeforeMonth(m) <= e /\ e < DaysBeforeMonth(m + 1)
  BY DEF Falls
<1>1. PICK q \in Int, c \in 0 .. 3, k \in 0 .. 24, j \in 0 .. 3 : IsYear(y, q, c, k, j)
  BY YearIs
<1>2. e = 365 => j = 3 /\ (k = 24 => c = 3)
  <2>1. IsLeap(y + 1) <=> j = 3 /\ (k = 24 => c = 3)
    BY <1>1, LeapCycle
  <2>2. QED
    BY <2>1, <1>0
<1>3. PICK a \in Int : a = n + 32044
  OBVIOUS
<1>4. y = 400 * q + 100 * c + 4 * k + j
  BY <1>1 DEF IsYear
<1>5. /\ y \div 4 = 100 * q + 25 * c + k
      /\ y \div 100 = 4 * q + c
      /\ y \div 400 = q
  BY <1>4, Z3
<1>6. a = 146097 * q + 36524 * c + 1461 * k + 365 * j + e
  BY <1>0, <1>3, <1>4, <1>5, SMT DEF DaysBefore
<1>7. PICK b \in Int : b = 4 * q + c
  OBVIOUS
<1>8. PICK r \in Int : r = 1461 * k + 365 * j + e
  OBVIOUS
<1>9. PICK d \in Int : d = 4 * k + j
  OBVIOUS
<1>10. b = (4 * a + 3) \div 146097
  BY <1>2, <1>6, <1>7, Z3
<1>11. r = a - ((b * 146097) \div 4)
  <2>1. (b * 146097) \div 4 = 146097 * q + 36524 * c
    BY <1>7, Z3
  <2>2. QED
    BY <2>1, <1>6, <1>8
<1>12. d = (4 * r + 3) \div 1461
  BY <1>2, <1>8, <1>9, Z3
<1>13. e = r - ((1461 * d) \div 4)
  <2>1. (1461 * d) \div 4 = 1461 * k + 365 * j
    BY <1>9, Z3
  <2>2. QED
    BY <2>1, <1>8
<1>14. m = (5 * e + 2) \div 153
  <2>1. DaysBeforeMonth(m) \in Int
    BY Z3 DEF DaysBeforeMonth
  <2>2. PICK f \in Int : f = e - DaysBeforeMonth(m)
    BY <2>1
  <2>3. f >= 0 /\ DaysBeforeMonth(m) + f = e /\ DaysBeforeMonth(m) + f < DaysBeforeMonth(m + 1)
    BY <1>0, <2>1, <2>2
  <2>4. QED
    BY <2>2, <2>3, MonthIs
<1>15. YearMonthDay(n) = DateFrom(b, d, e, m)
  <2>1. Computes(n, a, b, r, d, e, m)
    <3>1. n \in Int /\ e \in Int /\ m \in Int
      BY <1>0
    <3>2. a \in Int /\ b \in Int /\ r \in Int /\ d \in Int
      OBVIOUS
    <3>3. a = n + 32044 /\ b = (4 * a + 3) \div 146097 /\ r = a - ((b * 146097) \div 4)
      BY <1>3, <1>10, <1>11
    <3>4. d = (4 * r + 3) \div 1461 /\ e = r - ((1461 * d) \div 4) /\ m = (5 * e + 2) \div 153
      BY <1>12, <1>13, <1>14
    <3>5. QED
      BY <3>1, <3>2, <3>3, <3>4, SMTT(30) DEF Computes
  <2>2. QED
    BY <2>1, YearMonthDayIs, ZenonT(60)
<1>16. b * 100 + d = y
  BY <1>4, <1>7, <1>9
<1>17. DateFrom(b, d, e, m) = DateOf(y, m, e - DaysBeforeMonth(m) + 1)
  BY <1>16 DEF DateFrom, DateOf, DaysBeforeMonth
<1>18. QED
  BY <1>15, <1>17

(* YearMonthDay undoes JulianDayNumber.                                    *)
LEMMA DateReturns ==
  ASSUME NEW year \in Int, NEW month \in 1 .. 12, NEW n \in 1 .. MonthDays(year, month)
  PROVE  YearMonthDay(JulianDayNumber(year, month, n)) = [year |-> year, month |-> month, day |-> n]
<1>1. /\ MonthOf(month) \in 0 .. 11 /\ YearOf(year, month) \in Int /\ n \in Int
      /\ DayOf(month, n) \in 0 .. 365
      /\ DayOf(month, n) < DaysBeforeMonth(MonthOf(month) + 1)
      /\ DayOf(month, n) = 365 => IsLeap(YearOf(year, month) + 1)
  BY MonthFits
<1>2. PICK y \in Int : y = YearOf(year, month)
  BY <1>1
<1>3. PICK m \in 0 .. 11 : m = MonthOf(month)
  BY <1>1
<1>4. PICK e \in 0 .. 365 : e = DayOf(month, n)
  BY <1>1
<1>5. e < DaysBeforeMonth(m + 1) /\ (e = 365 => IsLeap(y + 1))
  BY <1>1, <1>2, <1>3, <1>4
<1>6. DaysBeforeMonth(m) \in Int /\ e = DaysBeforeMonth(m) + n - 1
  <2>1. DaysBeforeMonth(m) \in Int
    BY Z3 DEF DaysBeforeMonth
  <2>2. QED
    BY <2>1, <1>3, <1>4 DEF DayOf
<1>7. n \in Int /\ n >= 1
  BY <1>1
<1>8. DaysBeforeMonth(m) <= e /\ e - DaysBeforeMonth(m) + 1 = n
  BY <1>6, <1>7
<1>9. PICK f \in Int : f = DaysBefore(y) + e - 32044
  BY Z3 DEF DaysBefore
<1>10. JulianDayNumber(year, month, n) = DaysBefore(y) + e - 32044
  BY <1>1, <1>2, <1>4, NumberIs
<1>11. YearMonthDay(JulianDayNumber(year, month, n)) = DateOf(y, m, n)
  <2>1. YearMonthDay(f) = DateOf(y, m, e - DaysBeforeMonth(m) + 1)
    <3>1. Falls(f, y, e, m)
      BY <1>5, <1>8, <1>9 DEF Falls
    <3>2. QED
      BY <3>1, DateIs, ZenonT(60)
  <2>2. QED
    BY <2>1, <1>8, <1>9, <1>10
<1>12. /\ y - 4800 + (m \div 10) = year
       /\ m + 3 - 12 * (m \div 10) = month
  BY <1>2, <1>3, Z3 DEF YearOf, MonthOf
<1>13. QED
  BY <1>11, <1>12 DEF DateOf

(* Every day falls somewhere.                                              *)
LEMMA DayFalls ==
  ASSUME NEW n \in Int
  PROVE  \E y \in Int, e \in 0 .. 365, m \in 0 .. 11 : Falls(n, y, e, m)
<1> DEFINE a == n + 32044
           q == a \div 146097
           r == a % 146097
           c == IF r < 36524 THEN 0 ELSE IF r < 73048 THEN 1 ELSE IF r < 109572 THEN 2 ELSE 3
           s == r - 36524 * c
           k == s \div 1461
           t == s % 1461
           j == IF t < 365 THEN 0 ELSE IF t < 730 THEN 1 ELSE IF t < 1095 THEN 2 ELSE 3
           e == t - 365 * j
           m == (5 * e + 2) \div 153
           y == 400 * q + 100 * c + 4 * k + j
<1>1. a \in Int /\ n = a - 32044
  BY SMT
<1> HIDE DEF a
<1>2. q \in Int /\ r \in Int /\ 0 <= r /\ r < 146097 /\ a = 146097 * q + r
  BY <1>1, Z3
<1> HIDE DEF q, r
<1>3. c \in 0 .. 3 /\ s \in Int /\ 0 <= s /\ s <= 36524 /\ r = 36524 * c + s /\ (s = 36524 => c = 3)
  BY <1>2, SMT
<1> HIDE DEF c, s
<1>4. k \in 0 .. 24 /\ t \in Int /\ 0 <= t /\ t <= 1460 /\ s = 1461 * k + t /\ (k = 24 /\ t = 1460 => s = 36524)
  BY <1>3, Z3
<1> HIDE DEF k, t
<1>5. j \in 0 .. 3 /\ e \in 0 .. 365 /\ t = 365 * j + e /\ (e = 365 => j = 3)
  BY <1>4, SMT
<1> HIDE DEF j, e
<1>6. y \in Int
  BY <1>2, <1>3, <1>4, <1>5, SMT
<1>7. IsYear(y, q, c, k, j)
  BY <1>2, <1>3, <1>4, <1>5, <1>6, SMT DEF IsYear
<1>8. e = 365 => j = 3 /\ (k = 24 => c = 3)
  BY <1>3, <1>4, <1>5, SMT
<1>9. /\ y \div 4 = 100 * q + 25 * c + k
      /\ y \div 100 = 4 * q + c
      /\ y \div 400 = q
  BY <1>2, <1>3, <1>4, <1>5, Z3
<1>10. DaysBefore(y) \in Int /\ DaysBefore(y) = y * 365 + (100 * q + 25 * c + k) - (4 * q + c) + q
  BY <1>2, <1>3, <1>4, <1>5, <1>6, <1>9, SMT DEF DaysBefore
<1>11. a = DaysBefore(y) + e
  BY <1>2, <1>3, <1>4, <1>5, <1>10, SMT
<1> HIDE DEF y
<1>12. e = 365 => IsLeap(y + 1)
  <2>1. IsLeap(y + 1) <=> j = 3 /\ (k = 24 => c = 3)
    BY <1>7, LeapCycle
  <2>2. QED
    BY <2>1, <1>8
<1>13. m \in 0 .. 11 /\ DaysBeforeMonth(m) <= e /\ e < DaysBeforeMonth(m + 1)
  BY <1>5, Z3 DEF DaysBeforeMonth
<1> HIDE DEF m
<1>14. n = DaysBefore(y) + e - 32044
  BY <1>1, <1>5, <1>10, <1>11, SMT
<1>15. Falls(n, y, e, m)
  BY <1>5, <1>6, <1>12, <1>13, <1>14, SMT DEF Falls
<1>16. QED
  BY <1>5, <1>6, <1>13, <1>15, Zenon

(* JulianDayNumber undoes YearMonthDay.                                    *)
LEMMA NumberReturns ==
  ASSUME NEW n \in Int, NEW d, d = YearMonthDay(n)
  PROVE  /\ DOMAIN d = {"year", "month", "day"}
         /\ d.year \in Int /\ d.month \in 1 .. 12 /\ d.day \in Int
         /\ JulianDayNumber(d.year, d.month, d.day) = n
<1>1. PICK y \in Int, e \in 0 .. 365, m \in 0 .. 11 : Falls(n, y, e, m)
  BY DayFalls, Zenon
<1>2. d = DateOf(y, m, e - DaysBeforeMonth(m) + 1)
  BY <1>1, DateIs, ZenonT(60)
<1>3. PICK f \in Int : f = DaysBeforeMonth(m)
  BY Z3 DEF DaysBeforeMonth
<1>4. /\ DOMAIN d = {"year", "month", "day"}
      /\ d.year = y - 4800 + (m \div 10)
      /\ d.month = m + 3 - 12 * (m \div 10)
      /\ d.day = e - f + 1
  BY <1>2, <1>3, SMT DEF DateOf
<1>5. m \div 10 = IF m < 10 THEN 0 ELSE 1
  BY Z3
<1>6. d.year \in Int /\ d.month \in 1 .. 12 /\ d.day \in Int
  BY <1>4, <1>5, SMT
<1>7. YearOf(d.year, d.month) = y /\ MonthOf(d.month) = m
  BY <1>4, <1>5, SMT DEF YearOf, MonthOf
<1>8. DayOf(d.month, d.day) = e
  BY <1>3, <1>4, <1>7, SMT DEF DayOf
<1>9. JulianDayNumber(d.year, d.month, d.day) = DaysBefore(y) + e - 32044
  BY <1>6, <1>7, <1>8, NumberIs, SMT
<1>10. QED
  BY <1>1, <1>4, <1>6, <1>9, SMT DEF Falls

(* The length of a year that begins in March.                              *)
LEMMA YearLength ==
  ASSUME NEW y \in Int
  PROVE  DaysBefore(y) \in Int /\ DaysBefore(y + 1) = DaysBefore(y) + (IF IsLeap(y + 1) THEN 366 ELSE 365)
<1>1. PICK q \in Int, c \in 0 .. 3, k \in 0 .. 24, j \in 0 .. 3 : IsYear(y, q, c, k, j)
  BY YearIs, SMT
<1>2. IsLeap(y + 1) <=> j = 3 /\ (k = 24 => c = 3)
  BY <1>1, LeapCycle, SMT
<1>3. y = 400 * q + 100 * c + 4 * k + j
  BY <1>1, SMT DEF IsYear
<1>4. /\ y \div 4 = 100 * q + 25 * c + k
      /\ y \div 100 = 4 * q + c
      /\ y \div 400 = q
  BY <1>3, Z3
<1>5. (y + 1) \div 4 = 100 * q + 25 * c + k + (IF j = 3 THEN 1 ELSE 0)
  BY <1>3, Z3
<1>6. (y + 1) \div 100 = 4 * q + c + (IF j = 3 /\ k = 24 THEN 1 ELSE 0)
  BY <1>3, Z3
<1>7. (y + 1) \div 400 = q + (IF j = 3 /\ k = 24 /\ c = 3 THEN 1 ELSE 0)
  BY <1>3, Z3
<1>8. DaysBefore(y) = 146097 * q + 36524 * c + 1461 * k + 365 * j
  BY <1>3, <1>4, SMT DEF DaysBefore
<1>9. DaysBefore(y + 1) = DaysBefore(y) + (IF j = 3 /\ (k = 24 => c = 3) THEN 366 ELSE 365)
  BY <1>3, <1>5, <1>6, <1>7, <1>8, SMT DEF DaysBefore
<1>10. QED
  BY <1>2, <1>8, <1>9, SMT

\* The date after that day.
NextNumber(year, month, n) == JulianDayNumber(year, month, n) + 1

(* The calendar and the numbering go on together.                          *)
LEMMA NumberOfNextDay ==
  ASSUME NEW year \in Int, NEW month \in 1 .. 12, NEW n \in Int
  PROVE  JulianDayNumber(year, month, n + 1) = NextNumber(year, month, n)
<1>1. YearOf(year, month) \in Int /\ MonthOf(month) \in 0 .. 11
  BY DEF YearOf, MonthOf
<1>2. PICK b \in Int : b = DaysBefore(YearOf(year, month))
  BY <1>1, YearLength
<1>3. PICK f \in Int : f = DaysBeforeMonth(MonthOf(month))
  BY <1>1, Z3 DEF DaysBeforeMonth
<1>4. DayOf(month, n + 1) = f + n /\ DayOf(month, n) = f + n - 1
  BY <1>3 DEF DayOf
<1>5. JulianDayNumber(year, month, n + 1) = b + (f + n) - 32044
  BY <1>2, <1>4, NumberIs
<1>6. JulianDayNumber(year, month, n) = b + (f + n - 1) - 32044
  BY <1>2, <1>4, NumberIs
<1>7. QED
  BY <1>5, <1>6, SMT DEF NextNumber

(* The same at the end of a month, of February in a leap year too.         *)
LEMMA NumberOfNextMonth ==
  ASSUME NEW year \in Int, NEW month \in 1 .. 11
  PROVE  JulianDayNumber(year, month + 1, 1) = NextNumber(year, month, MonthDays(year, month))
<1>1. /\ YearOf(year, month) \in Int /\ MonthOf(month) \in 0 .. 11
      /\ YearOf(year, month + 1) \in Int /\ MonthOf(month + 1) \in 0 .. 11
  BY DEF YearOf, MonthOf
<1>2. PICK b \in Int : b = DaysBefore(YearOf(year, month))
  BY <1>1, YearLength
<1>3. PICK f \in Int : f = DaysBeforeMonth(MonthOf(month))
  BY <1>1, Z3 DEF DaysBeforeMonth
<1>4. PICK d \in 28 .. 31 : d = MonthDays(year, month)
  BY DEF MonthDays
<1>5. DayOf(month, d) = f + d - 1
  BY <1>3 DEF DayOf
<1>6. JulianDayNumber(year, month, d) = b + (f + d - 1) - 32044
  BY <1>2, <1>5, NumberIs
<1>7. PICK c \in Int : c = DaysBefore(YearOf(year, month + 1))
  BY <1>1, YearLength
<1>8. PICK g \in Int : g = DaysBeforeMonth(MonthOf(month + 1))
  BY <1>1, Z3 DEF DaysBeforeMonth
<1>9. DayOf(month + 1, 1) = g
  BY <1>8 DEF DayOf
<1>10. month + 1 \in 1 .. 12
  OBVIOUS
<1>11. JulianDayNumber(year, month + 1, 1) = c + g - 32044
  BY <1>7, <1>9, <1>10, NumberIs
<1>12. c + g = b + f + d
  <2>1. CASE month = 2
    <3>1. PICK y \in Int : y = year + 4799
      OBVIOUS
    <3>2. YearOf(year, month) = y /\ YearOf(year, month + 1) = y + 1
      BY <2>1, <3>1 DEF YearOf
    <3>3. f = 337 /\ g = 0
      BY <2>1, <1>3, <1>8, Z3 DEF MonthOf, DaysBeforeMonth
    <3>4. c = b + (IF IsLeap(y + 1) THEN 366 ELSE 365)
      BY <3>2, <1>2, <1>7, YearLength
    <3>5. IsLeap(y + 1) <=> IsLeap(year)
      <4>1. /\ (y + 1) % 4 = year % 4
            /\ (y + 1) % 100 = year % 100
            /\ (y + 1) % 400 = year % 400
        BY <3>1, Z3
      <4>2. QED
        BY <4>1 DEF IsLeap
    <3>6. d = IF IsLeap(year) THEN 29 ELSE 28
      BY <2>1, <1>4 DEF MonthDays
    <3>7. QED
      BY <3>3, <3>4, <3>5, <3>6
  <2>2. CASE month # 2
    <3>1. YearOf(year, month) = YearOf(year, month + 1)
      BY <2>2 DEF YearOf
    <3>2. b = c
      BY <3>1, <1>2, <1>7
    <3>3. d = IF month \in {4, 6, 9, 11} THEN 30 ELSE 31
      BY <2>2, <1>4 DEF MonthDays
    <3>4. g = f + d
      BY <2>2, <3>3, <1>3, <1>8, Z3 DEF MonthOf, DaysBeforeMonth
    <3>5. QED
      BY <3>2, <3>4
  <2>3. QED
    BY <2>1, <2>2
<1>13. QED
  BY <1>4, <1>6, <1>11, <1>12, SMT DEF NextNumber

(* The same at the end of a year.                                          *)
LEMMA NumberOfNextYear ==
  ASSUME NEW year \in Int
  PROVE  JulianDayNumber(year + 1, 1, 1) = NextNumber(year, 12, MonthDays(year, 12))
<1>1. PICK y \in Int : y = year + 4800
  OBVIOUS
<1>2. YearOf(year, 12) = y /\ YearOf(year + 1, 1) = y /\ MonthOf(12) = 9 /\ MonthOf(1) = 10
  BY <1>1 DEF YearOf, MonthOf
<1>3. DaysBeforeMonth(9) = 275 /\ DaysBeforeMonth(10) = 306
  BY Z3 DEF DaysBeforeMonth
<1>4. MonthDays(year, 12) = 31
  BY DEF MonthDays
<1>5. DayOf(12, 31) = 305 /\ DayOf(1, 1) = 306
  BY <1>2, <1>3 DEF DayOf
<1>6. PICK b \in Int : b = DaysBefore(y)
  BY YearLength
<1>7. year + 1 \in Int /\ 1 \in 1 .. 12 /\ 12 \in 1 .. 12 /\ 31 \in Int
  OBVIOUS
<1>8. JulianDayNumber(year, 12, 31) = b + 305 - 32044
  BY <1>2, <1>5, <1>6, <1>7, NumberIs
<1>9. JulianDayNumber(year + 1, 1, 1) = b + 306 - 32044
  BY <1>2, <1>5, <1>6, <1>7, NumberIs
<1>10. QED
  BY <1>4, <1>8, <1>9, SMT DEF NextNumber

\* Leap years from the year 0 to a year.
LeapsTo(x) == (x \div 4) - (x \div 100) + (x \div 400)

MultiplesIn(m, a, b) == {y \in a .. b : y % m = 0}

(* How many multiples of m there are in an interval.                       *)
LEMMA CountMultiples ==
  ASSUME NEW m \in Nat \ {0}, NEW a \in Int, NEW b \in Int, a <= b + 1
  PROVE  /\ IsFiniteSet(MultiplesIn(m, a, b))
         /\ Cardinality(MultiplesIn(m, a, b)) = (b \div m) - ((a - 1) \div m)
<1>1. PICK l \in Int : l = (a - 1) \div m
  BY Z3
<1>2. PICK h \in Int : h = b \div m
  BY Z3
<1>3. m * l <= a - 1 /\ a - 1 < m * l + m
  BY <1>1, Z3
<1>4. m * h <= b /\ b < m * h + m
  BY <1>2, Z3
<1>5. l <= h
  <2>1. m * l < m * h + m
    BY <1>3, <1>4, Z3
  <2>2. QED
    BY <2>1, Z3
<1> DEFINE I == l + 1 .. h
           S == MultiplesIn(m, a, b)
           f == [k \in I |-> m * k]
<1>6. ASSUME NEW k \in I PROVE m * k \in S
  <2>1. m * k \in Int
    BY Z3
  <2>2. m * k >= m * l + m /\ m * k <= m * h
    <3>1. m * (k - (l + 1)) >= 0 /\ m * (h - k) >= 0
      BY Z3
    <3>2. QED
      BY <3>1, Z3
  <2>3. m * k \in a .. b
    BY <1>3, <1>4, <2>1, <2>2, Z3
  <2>4. (m * k) % m = 0
    BY Z3
  <2>5. QED
    BY <2>3, <2>4 DEF MultiplesIn
<1>7. f \in [I -> S]
  BY <1>6
<1>8. \A i, k \in I : f[i] = f[k] => i = k
  BY Z3
<1>9. ASSUME NEW y \in S PROVE \E k \in I : f[k] = y
  <2>1. y \in a .. b /\ y % m = 0
    BY DEF MultiplesIn
  <2>2. PICK k \in Int : k = y \div m
    BY <2>1, Z3
  <2>3. y = m * k
    BY <2>1, <2>2, Z3
  <2>4. k > l /\ k <= h
    <3>1. m * k > m * l + m - m
      BY <2>1, <2>3, <1>3, Z3
    <3>2. m * k < m * (h + 1)
      BY <2>1, <2>3, <1>4, Z3
    <3>3. QED
      BY <3>1, <3>2, Z3
  <2>5. k \in I
    BY <2>4
  <2>6. QED
    BY <2>3, <2>5
<1> HIDE DEF f
<1>10. f \in Bijection(I, S)
  BY <1>7, <1>8, <1>9, Fun_IsBij
<1>11. ExistsBijection(I, S)
  BY <1>10 DEF ExistsBijection
<1>12. IsFiniteSet(I) /\ Cardinality(I) = h - l
  <2>1. PICK k \in Int : k = l + 1
    OBVIOUS
  <2>2. IsFiniteSet(k .. h) /\ Cardinality(k .. h) = IF k > h THEN 0 ELSE h - k + 1
    BY FS_Interval
  <2>3. QED
    BY <1>5, <2>1, <2>2
<1>13. IsFiniteSet(S) /\ Cardinality(S) = h - l
  BY <1>11, <1>12, FS_Bijection
<1>14. QED
  BY <1>1, <1>2, <1>13

(* How many leap years there are in an interval.                           *)
LEMMA CountLeapYears ==
  ASSUME NEW a \in Int, NEW b \in Int, a <= b
  PROVE  LeapYears(a, b) = LeapsTo(b - 1) - LeapsTo(a - 1)
<1>1. PICK e \in Int : e = b - 1
  OBVIOUS
<1> DEFINE F == MultiplesIn(4, a, e)
           H == MultiplesIn(100, a, e)
           Q == MultiplesIn(400, a, e)
           L == {y \in a .. b - 1 : IsLeap(y)}
<1>2. a <= e + 1
  BY <1>1
<1>3. /\ IsFiniteSet(F) /\ IsFiniteSet(H) /\ IsFiniteSet(Q)
      /\ Cardinality(F) = (e \div 4) - ((a - 1) \div 4)
      /\ Cardinality(H) = (e \div 100) - ((a - 1) \div 100)
      /\ Cardinality(Q) = (e \div 400) - ((a - 1) \div 400)
  <2>1. ASSUME NEW m \in {4, 100, 400}
        PROVE  /\ IsFiniteSet(MultiplesIn(m, a, e))
               /\ Cardinality(MultiplesIn(m, a, e)) = (e \div m) - ((a - 1) \div m)
    <3>1. m \in Nat \ {0}
      BY SMT
    <3>2. QED
      BY <1>2, <3>1, CountMultiples, ZenonT(60)
  <2>2. QED
    BY <2>1
<1>4. L = (F \ H) \cup Q
  <2>1. \A y \in Int : y % 400 = 0 => y % 4 = 0 /\ y % 100 = 0
    BY Z3
  <2>2. ASSUME NEW y \in a .. e
        PROVE  IsLeap(y) <=> (y % 4 = 0 /\ ~(y % 100 = 0)) \/ y % 400 = 0
    <3>1. y \in Int
      BY SMT
    <3>2. QED
      BY <2>1, <3>1, ZenonT(60) DEF IsLeap
  <2>3. a .. b - 1 = a .. e
    BY <1>1
  <2>4. QED
    BY <2>2, <2>3 DEF MultiplesIn
<1>5. F \cap H = H
  <2>1. \A y \in Int : y % 100 = 0 => y % 4 = 0
    BY Z3
  <2>2. QED
    BY <2>1 DEF MultiplesIn
<1>6. (F \ H) \cap Q = {}
  <2>1. \A y \in Int : y % 400 = 0 => y % 100 = 0
    BY Z3
  <2>2. QED
    BY <2>1 DEF MultiplesIn
<1> HIDE DEF F, H, Q, L
<1>7. IsFiniteSet(F \ H) /\ Cardinality(F \ H) = Cardinality(F) - Cardinality(H)
  <2>0. IsFiniteSet(F)
    BY <1>3
  <2>1. IsFiniteSet(F \ H) /\ Cardinality(F \ H) = Cardinality(F) - Cardinality(F \cap H)
    BY <2>0, FS_Difference, Zenon
  <2>2. QED
    BY <1>5, <2>1, Zenon
<1>8. Cardinality((F \ H) \cup Q) = Cardinality(F \ H) + Cardinality(Q) - Cardinality({})
  BY <1>3, <1>6, <1>7, FS_Union
<1>9. Cardinality({}) = 0
  BY FS_EmptySet
<1>10. Cardinality(F) \in Nat /\ Cardinality(H) \in Nat /\ Cardinality(Q) \in Nat
  BY <1>3, FS_CardinalityType
<1>11. Cardinality(L) = Cardinality(F) - Cardinality(H) + Cardinality(Q)
  BY <1>4, <1>7, <1>8, <1>9, <1>10
<1>12. LeapsTo(e) = (e \div 4) - (e \div 100) + (e \div 400)
  BY DEF LeapsTo
<1>13. LeapsTo(a - 1) = ((a - 1) \div 4) - ((a - 1) \div 100) + ((a - 1) \div 400)
  BY DEF LeapsTo
<1>14. e \div 4 \in Int /\ e \div 100 \in Int /\ e \div 400 \in Int
  BY Z3
<1>15. (a - 1) \div 4 \in Int /\ (a - 1) \div 100 \in Int /\ (a - 1) \div 400 \in Int
  BY Z3
<1>16. Cardinality(L) = LeapsTo(e) - LeapsTo(a - 1)
  BY <1>3, <1>11, <1>12, <1>13, <1>14, <1>15
<1>17. QED
  BY <1>1, <1>16 DEF LeapYears, L

(* The first day of a year, by the calendar and by its number.             *)
LEMMA NumberOfNewYear ==
  ASSUME NEW year \in Nat
  PROVE  /\ DaysTo(year) \in Int /\ JulianDayOf1970_01_01 = 2440588
         /\ JulianDayNumber(year, 1, 1) = DaysTo(year) + 2440588
<1>1. PICK x \in Int : x = year - 1
  OBVIOUS
<1>2. PICK l \in Int : l = LeapsTo(x)
  BY Z3 DEF LeapsTo
<1>3. LeapsTo(1969) = 477
  BY Z3 DEF LeapsTo
<1>4. DaysTo(year) = 365 * (year - 1970) + l - 477
  <2>1. CASE year >= 1970
    <3>1. LeapYears(1970, year) = l - 477
      BY <2>1, <1>1, <1>2, <1>3, CountLeapYears
    <3>2. LeapYears(year, 1970) = 0
      <4>1. {y \in year .. 1970 - 1 : IsLeap(y)} = {}
        BY <2>1, SMT
      <4>2. QED
        BY <4>1, FS_EmptySet, SMT DEF LeapYears
    <3>3. QED
      BY <3>1, <3>2, SMT DEF DaysTo
  <2>2. CASE year < 1970
    <3>1. LeapYears(year, 1970) = 477 - l
      BY <2>2, <1>1, <1>2, <1>3, CountLeapYears
    <3>2. LeapYears(1970, year) = 0
      <4>1. {y \in 1970 .. year - 1 : IsLeap(y)} = {}
        BY <2>2, SMT
      <4>2. QED
        BY <4>1, FS_EmptySet, SMT DEF LeapYears
    <3>3. QED
      BY <3>1, <3>2, SMT DEF DaysTo
  <2>3. QED
    BY <2>1, <2>2, SMT
<1>5. YearOf(year, 1) = x + 4800 /\ MonthOf(1) = 10
  BY <1>1, SMT DEF YearOf, MonthOf
<1>6. DaysBeforeMonth(10) = 306
  BY Z3 DEF DaysBeforeMonth
<1>7. DayOf(1, 1) = 306
  BY <1>5, <1>6, SMT DEF DayOf
<1>8. PICK y \in Int : y = x + 4800
  BY SMT
<1>9. /\ y \div 4 = (x \div 4) + 1200
      /\ y \div 100 = (x \div 100) + 48
      /\ y \div 400 = (x \div 400) + 12
  BY <1>8, Z3
<1>10. x \div 4 \in Int /\ x \div 100 \in Int /\ x \div 400 \in Int
  BY Z3
<1>11. DaysBefore(y) = 365 * (x + 4800) + l + 1164
  BY <1>2, <1>8, <1>9, <1>10, SMT DEF DaysBefore, LeapsTo
<1>12. JulianDayNumber(year, 1, 1) = 365 * (x + 4800) + l + 1164 + 306 - 32044
  BY <1>5, <1>7, <1>8, <1>11, NumberIs, SMT
<1>13. JulianDayOf1970_01_01 = 2440588
  <2>1. (14 - 1) \div 12 = 1 /\ (153 * (1 + 12 * 1 - 3) + 2) \div 5 = 306
        /\ (1970 + 4800 - 1) \div 4 = 1692 /\ (1970 + 4800 - 1) \div 100 = 67 /\ (1970 + 4800 - 1) \div 400 = 16
    BY Z3
  <2>2. QED
    BY <2>1, SMT DEF JulianDayOf1970_01_01, JulianDayNumber
<1>14. QED
  BY <1>1, <1>4, <1>12, <1>13, SMT

(* The lengths of the units are positive.                                  *)
LEMMA Lengths ==
  /\ SecondsPerMinute \in Nat \ {0} /\ MinutesPerHour \in Nat \ {0} /\ HoursPerDay \in Nat \ {0}
  /\ SecondsPerHour \in Nat \ {0} /\ kSecondsPerDay \in Nat \ {0}
<1>1. SecondsPerMinute \in Nat \ {0} /\ MinutesPerHour \in Nat \ {0} /\ HoursPerDay \in Nat \ {0}
  BY TimeAssumption
<1>2. SecondsPerMinute * MinutesPerHour \in Nat \ {0}
  BY <1>1, Z3
<1>3. SecondsPerHour \in Nat \ {0}
  BY <1>2 DEF SecondsPerHour
<1>4. SecondsPerHour * HoursPerDay \in Nat \ {0}
  BY <1>1, <1>3, Z3
<1>5. QED
  BY <1>1, <1>3, <1>4 DEF kSecondsPerDay

(* A second of a day has an hour, a minute and a second, and is told by    *)
(* them.                                                                   *)
LEMMA ClockReturns ==
  ASSUME NEW s \in SecondsOfDay
  PROVE  LET minutes == s \div SecondsPerMinute
             sec == s % SecondsPerMinute
             min == minutes % MinutesPerHour
             hour == minutes \div MinutesPerHour
         IN  /\ sec \in 0 .. SecondsPerMinute - 1 /\ min \in 0 .. MinutesPerHour - 1
             /\ hour \in 0 .. HoursPerDay - 1
             /\ hour * SecondsPerHour + min * SecondsPerMinute + sec = s
<1>1. PICK a \in Nat \ {0} : a = SecondsPerMinute
  BY Lengths
<1>2. PICK b \in Nat \ {0} : b = MinutesPerHour
  BY Lengths
<1>3. PICK c \in Nat \ {0} : c = HoursPerDay
  BY Lengths
<1>4. SecondsPerHour = a * b /\ kSecondsPerDay = (a * b) * c
  BY <1>1, <1>2, <1>3 DEF SecondsPerHour, kSecondsPerDay
<1>5. s \in Int /\ 0 <= s /\ s < (a * b) * c
  <2>1. (a * b) * c \in Int
    BY Z3
  <2>2. QED
    BY <1>4, <2>1 DEF SecondsOfDay
<1>6. PICK m \in Int : m = s \div a
  BY <1>5, Z3
<1>7. PICK r \in Int : r = s % a
  BY <1>5, Z3
<1>8. 0 <= r /\ r < a /\ s = a * m + r
  BY <1>5, <1>6, <1>7, Z3
<1>9. PICK h \in Int : h = m \div b
  BY Z3
<1>10. PICK n \in Int : n = m % b
  BY Z3
<1>11. 0 <= n /\ n < b /\ m = b * h + n
  BY <1>9, <1>10, Z3
<1>12. 0 <= m
  <2>1. a * (m + 1) > 0
    BY <1>5, <1>8, Z3
  <2>2. QED
    BY <2>1, Z3
<1>13. m < b * c
  <2>1. a * m <= s
    BY <1>8, Z3
  <2>2. a * m < a * (b * c)
    BY <1>5, <2>1, Z3
  <2>3. b * c \in Int
    BY Z3
  <2>4. QED
    BY <2>2, <2>3, Z3
<1>14. 0 <= h
  <2>1. b * (h + 1) > 0
    BY <1>11, <1>12, Z3
  <2>2. QED
    BY <2>1, Z3
<1>15. h < c
  <2>1. b * h < b * c
    BY <1>11, <1>13, Z3
  <2>2. QED
    BY <2>1, Z3
<1>16. h * (a * b) + n * a + r = s
  BY <1>8, <1>11, Z3
<1>17. r \in 0 .. a - 1 /\ n \in 0 .. b - 1 /\ h \in 0 .. c - 1
  BY <1>8, <1>11, <1>14, <1>15
<1>18. QED
  BY <1>1, <1>2, <1>3, <1>4, <1>6, <1>7, <1>9, <1>10, <1>16, <1>17

\* What ToUtcTime makes of a second of a day.
UtcTimeOf(d, s) ==
    LET j == d + JulianDayOf1970_01_01
        ymd == YearMonthDay(j)
        minutes == s \div SecondsPerMinute
    IN  [tm_sec |-> s % SecondsPerMinute,
         tm_min |-> minutes % MinutesPerHour,
         tm_hour |-> minutes \div MinutesPerHour,
         tm_year |-> ymd.year - 1900, tm_mon |-> ymd.month - 1, tm_mday |-> ymd.day,
         tm_wday |-> WeekDay(j), tm_yday |-> j - JulianDayNumber(ymd.year, 1, 1),
         tm_isdst |-> FALSE]

\* The division of C and what ToUtcTime makes of it.
SplitsInto(x, days, rest, d, s) ==
    /\ rest = Remainder(x, kSecondsPerDay) /\ days = Quotient(x, kSecondsPerDay)
    /\ s = IF rest < 0 THEN rest + kSecondsPerDay ELSE rest
    /\ d = IF rest < 0 THEN days - 1 ELSE days

\* What a broken down time is put together from.
Together(tm, j, s) ==
    /\ JulianDayNumber(tm.tm_year + 1900, tm.tm_mon + 1, tm.tm_mday) = j
    /\ tm.tm_hour * SecondsPerHour + tm.tm_min * SecondsPerMinute + tm.tm_sec = s

(* ToUtcTime by the day and the second of it.                              *)
LEMMA UtcTimeWhen ==
  ASSUME NEW x, NEW days, NEW rest, NEW d, NEW s, SplitsInto(x, days, rest, d, s)
  PROVE  ToUtcTime(x) = UtcTimeOf(d, s)
  BY DEF ToUtcTime, UtcTimeOf, SplitsInto

(* The day and the second of the day are found also before the epoch, where*)
(* the division of C rounds towards zero.                                  *)
LEMMA UtcTimeIs ==
  ASSUME NEW d \in Int, NEW s \in SecondsOfDay
  PROVE  ToUtcTime(d * kSecondsPerDay + s) = UtcTimeOf(d, s)
<1>1. PICK S \in Nat \ {0} : S = kSecondsPerDay
  BY Lengths
<1>2. s \in Int /\ 0 <= s /\ s < S
  BY <1>1 DEF SecondsOfDay
<1>3. PICK x \in Int : x = d * S + s
  BY <1>2, Z3
<1>4. x \div S = d /\ x % S = s
  BY <1>2, <1>3, Z3
<1> DEFINE days == Quotient(x, S)
           rest == Remainder(x, S)
<1>5. days = IF x < 0 /\ s # 0 THEN d + 1 ELSE d
  BY <1>4 DEF Quotient
<1>6. rest = IF x < 0 /\ s # 0 THEN s - S ELSE s
  <2>1. rest = x - S * days
    BY DEF Remainder
  <2>2. CASE x < 0 /\ s # 0
    <3>1. days = d + 1
      BY <2>2, <1>5
    <3>2. x - S * (d + 1) = s - S
      BY <1>2, <1>3, Z3
    <3>3. QED
      BY <2>1, <2>2, <3>1, <3>2, Zenon
  <2>3. CASE ~(x < 0 /\ s # 0)
    <3>1. days = d
      BY <2>3, <1>5
    <3>2. x - S * d = s
      BY <1>2, <1>3, Z3
    <3>3. QED
      BY <2>1, <2>3, <3>1, <3>2, Zenon
  <2>4. QED
    BY <2>2, <2>3
<1> HIDE DEF days, rest
<1>7. (IF rest < 0 THEN rest + S ELSE rest) = s
  BY <1>2, <1>6
<1>8. (IF rest < 0 THEN days - 1 ELSE days) = d
  BY <1>2, <1>5, <1>6
<1>9. SplitsInto(x, days, rest, d, s)
  BY <1>1, <1>7, <1>8, Zenon DEF SplitsInto, days, rest
<1>10. ToUtcTime(x) = UtcTimeOf(d, s)
  BY <1>9, UtcTimeWhen
<1>11. QED
  BY <1>1, <1>3, <1>10

(* FromUtcTime by the number of the day and the second of it.              *)
LEMMA TogetherWhen ==
  ASSUME NEW tm, NEW j, NEW s, Together(tm, j, s)
  PROVE  FromUtcTime(tm) = (j - JulianDayOf1970_01_01) * kSecondsPerDay + s
  BY DEF FromUtcTime, Together

(* A broken down time is put together to the second it came from.          *)
LEMMA SecondsReturn ==
  ASSUME NEW d \in Int, NEW s \in SecondsOfDay, NEW tm,
         tm.tm_year = UtcTimeOf(d, s).tm_year, tm.tm_mon = UtcTimeOf(d, s).tm_mon,
         tm.tm_mday = UtcTimeOf(d, s).tm_mday, tm.tm_hour = UtcTimeOf(d, s).tm_hour,
         tm.tm_min = UtcTimeOf(d, s).tm_min, tm.tm_sec = UtcTimeOf(d, s).tm_sec
  PROVE  FromUtcTime(tm) = d * kSecondsPerDay + s
<1>1. PICK j \in Int : j = d + JulianDayOf1970_01_01
  <2>1. JulianDayOf1970_01_01 \in Int
    BY NumberOfNewYear, SMT
  <2>2. QED
    BY <2>1
<1> DEFINE ymd == YearMonthDay(j)
<1>2. /\ ymd.year \in Int /\ ymd.month \in 1 .. 12 /\ ymd.day \in Int
      /\ JulianDayNumber(ymd.year, ymd.month, ymd.day) = j
  BY NumberReturns
<1>3. /\ tm.tm_year = ymd.year - 1900 /\ tm.tm_mon = ymd.month - 1 /\ tm.tm_mday = ymd.day
  BY <1>1 DEF UtcTimeOf
<1> HIDE DEF ymd
<1>4. tm.tm_year + 1900 = ymd.year /\ tm.tm_mon + 1 = ymd.month
  BY <1>2, <1>3
<1>5. /\ tm.tm_sec = s % SecondsPerMinute
      /\ tm.tm_min = (s \div SecondsPerMinute) % MinutesPerHour
      /\ tm.tm_hour = (s \div SecondsPerMinute) \div MinutesPerHour
  BY DEF UtcTimeOf
<1>6. tm.tm_hour * SecondsPerHour + tm.tm_min * SecondsPerMinute + tm.tm_sec = s
  BY <1>5, ClockReturns, Zenon
<1>7. FromUtcTime(tm) = (j - JulianDayOf1970_01_01) * kSecondsPerDay + s
  <2>1. JulianDayNumber(tm.tm_year + 1900, tm.tm_mon + 1, tm.tm_mday) = j
    BY <1>2, <1>3, <1>4
  <2>2. Together(tm, j, s)
    BY <1>6, <2>1 DEF Together
  <2>3. QED
    BY <2>2, TogetherWhen, Zenon
<1>8. j - JulianDayOf1970_01_01 = d
  <2>1. JulianDayOf1970_01_01 \in Int
    BY NumberOfNewYear, SMT
  <2>2. QED
    BY <1>1, <2>1
<1>9. QED
  BY <1>7, <1>8

(* A second is a second of a day.                                          *)
LEMMA DayAndSecond ==
  ASSUME NEW x \in Int
  PROVE  \E d \in Int, s \in SecondsOfDay : x = d * kSecondsPerDay + s
<1>1. PICK S \in Nat \ {0} : S = kSecondsPerDay
  BY Lengths
<1> DEFINE d == x \div S
           s == x % S
<1>2. d \in Int /\ s \in Int /\ 0 <= s /\ s < S /\ x = d * S + s
  BY Z3
<1> HIDE DEF d, s
<1>3. s \in SecondsOfDay
  BY <1>1, <1>2 DEF SecondsOfDay
<1>4. QED
  BY <1>1, <1>2, <1>3, Zenon

(* FromUtcTime undoes ToUtcTime, which divides as C does (TimeZone.cc:334- *)
(* 376): whatever the number of seconds, before the epoch and after it,    *)
(* and however long minutes, hours and days are.  Numbers are those of     *)
(* mathematics: in C, int ends the range after some million years, and     *)
(* before the year -4800 Date.cc would divide numbers below 0.             *)
THEOREM UtcReturns ==
  ASSUME NEW x \in Int
  PROVE  FromUtcTime(ToUtcTime(x)) = x
<1>1. PICK d \in Int, s \in SecondsOfDay : x = d * kSecondsPerDay + s
  BY DayAndSecond
<1>2. ToUtcTime(x) = UtcTimeOf(d, s)
  BY <1>1, UtcTimeIs
<1>3. FromUtcTime(UtcTimeOf(d, s)) = d * kSecondsPerDay + s
  BY SecondsReturn
<1>4. QED
  BY <1>1, <1>2, <1>3

-----------------------------------------------------------------------------
\* The days are counted as the calendar goes.
CalendarInv ==
    /\ date \in [year : Int, month : 1 .. 12, day : 1 .. 31]
    /\ date.day <= MonthDays(date.year, date.month)
    /\ day \in Int
    /\ JulianDayNumber(date.year, date.month, date.day) = day + JulianDayOf1970_01_01
    /\ yday = day + JulianDayOf1970_01_01 - JulianDayNumber(date.year, 1, 1)

(* A walk begins with the first of January of a year.                      *)
LEMMA CalendarBegins ==
  ASSUME ZoneInit
  PROVE  CalendarInv
<1>1. walk.first \in Nat
  BY TimeAssumption DEF ZoneInit
<1>2. PICK first \in Nat : first = walk.first
  BY <1>1
<1>3. PICK j \in Int : j = JulianDayOf1970_01_01
  BY <1>2, NumberOfNewYear, SMT
<1>4. DaysTo(first) \in Int /\ JulianDayNumber(first, 1, 1) = DaysTo(first) + j
  BY <1>2, <1>3, NumberOfNewYear
<1>5. date = [year |-> first, month |-> 1, day |-> 1] /\ day = DaysTo(first) /\ yday = 0
  BY <1>2 DEF ZoneInit
<1>6. 1 <= MonthDays(first, 1)
  BY DEF MonthDays
<1>7. yday = day + j - JulianDayNumber(first, 1, 1)
  BY <1>4, <1>5
<1>8. /\ date.year = first /\ date.month = 1 /\ date.day = 1
      /\ date \in [year : Int, month : 1 .. 12, day : 1 .. 31]
  BY <1>5
<1>9. QED
  BY <1>3, <1>4, <1>5, <1>6, <1>7, <1>8, Zenon DEF CalendarInv

(* The number of a day is a number.                                        *)
LEMMA NumberIsInt ==
  ASSUME NEW y \in Int, NEW m \in 1 .. 12, NEW n \in Int
  PROVE  JulianDayNumber(y, m, n) \in Int
<1>1. YearOf(y, m) \in Int /\ MonthOf(m) \in 0 .. 11
  BY DEF YearOf, MonthOf
<1>2. PICK b \in Int : b = DaysBefore(YearOf(y, m))
  BY <1>1, YearLength
<1>3. PICK f \in Int : f = DaysBeforeMonth(MonthOf(m))
  BY <1>1, Z3 DEF DaysBeforeMonth
<1>4. DayOf(m, n) = f + n - 1
  BY <1>3 DEF DayOf
<1>5. JulianDayNumber(y, m, n) = b + (f + n - 1) - 32044
  BY <1>2, <1>4, NumberIs
<1>6. QED
  BY <1>5, SMT

(* And a day that goes by leaves day, date and yday in step.               *)
LEMMA CalendarGoesOn ==
  ASSUME CalendarInv, NextDay
  PROVE  CalendarInv'
<1>1. PICK y \in Int, m \in 1 .. 12, n \in 1 .. 31 : date = [year |-> y, month |-> m, day |-> n]
  BY DEF CalendarInv
<1>2. date.year = y /\ date.month = m /\ date.day = n
  BY <1>1
<1>3. PICK j \in Int : j = JulianDayOf1970_01_01
  BY NumberOfNewYear, SMT
<1>4. /\ n <= MonthDays(y, m) /\ day \in Int
      /\ JulianDayNumber(y, m, n) = day + j
      /\ yday = day + j - JulianDayNumber(y, 1, 1)
  BY <1>2, <1>3, Zenon DEF CalendarInv
<1>5. date' = NextDate(date) /\ day' = day + 1 /\ yday' = IF date'.year = date.year THEN yday + 1 ELSE 0
  BY DEF NextDay
<1>6. MonthDays(y, m) \in 28 .. 31
  BY DEF MonthDays
<1>7. PICK l \in Int : l = JulianDayNumber(y, 1, 1)
  BY NumberIsInt
<1>8. SUFFICES \E z \in Int, p \in 1 .. 12, r \in 1 .. 31 :
                  /\ date' = [year |-> z, month |-> p, day |-> r] /\ r <= MonthDays(z, p)
                  /\ JulianDayNumber(z, p, r) = day' + j
                  /\ yday' = day' + j - JulianDayNumber(z, 1, 1)
  <2>1. PICK z \in Int, p \in 1 .. 12, r \in 1 .. 31 :
           /\ date' = [year |-> z, month |-> p, day |-> r] /\ r <= MonthDays(z, p)
           /\ JulianDayNumber(z, p, r) = day' + j
           /\ yday' = day' + j - JulianDayNumber(z, 1, 1)
    BY <1>8, Zenon
  <2>2. /\ date'.year = z /\ date'.month = p /\ date'.day = r
        /\ date' \in [year : Int, month : 1 .. 12, day : 1 .. 31]
    BY <2>1
  <2>3. day' \in Int
    BY <1>4, <1>5
  <2>4. QED
    BY <2>1, <2>2, <2>3, <1>3, Zenon DEF CalendarInv
<1>9. CASE n < MonthDays(y, m)
  <2>1. NextDate(date) = [date EXCEPT !.day = @ + 1]
    BY <1>2, <1>9 DEF NextDate
  <2>2. date' = [year |-> y, month |-> m, day |-> n + 1]
    BY <2>1, <1>1, <1>5
  <2>3. n + 1 \in 1 .. 31 /\ n + 1 <= MonthDays(y, m)
    BY <1>6, <1>9
  <2>4. JulianDayNumber(y, m, n + 1) = day' + j
    <3>1. JulianDayNumber(y, m, n + 1) = JulianDayNumber(y, m, n) + 1
      BY NumberOfNextDay DEF NextNumber
    <3>2. QED
      BY <3>1, <1>4, <1>5
  <2>5. yday' = day' + j - JulianDayNumber(y, 1, 1)
    <3>1. date'.year = date.year
      BY <2>2, <1>2
    <3>2. QED
      BY <3>1, <1>4, <1>5, <1>7
  <2>6. QED
    BY <2>2, <2>3, <2>4, <2>5, Zenon
<1>10. CASE ~(n < MonthDays(y, m)) /\ m < 12
  <2>1. NextDate(date) = [date EXCEPT !.month = @ + 1, !.day = 1]
    BY <1>2, <1>10 DEF NextDate
  <2>2. date' = [year |-> y, month |-> m + 1, day |-> 1]
    BY <2>1, <1>1, <1>5
  <2>3. m \in 1 .. 11 /\ m + 1 \in 1 .. 12 /\ 1 \in 1 .. 31 /\ n = MonthDays(y, m)
    BY <1>4, <1>6, <1>10
  <2>4. 1 <= MonthDays(y, m + 1)
    BY DEF MonthDays
  <2>5. JulianDayNumber(y, m + 1, 1) = day' + j
    <3>1. JulianDayNumber(y, m + 1, 1) = JulianDayNumber(y, m, n) + 1
      BY <2>3, NumberOfNextMonth DEF NextNumber
    <3>2. QED
      BY <3>1, <1>4, <1>5
  <2>6. yday' = day' + j - JulianDayNumber(y, 1, 1)
    <3>1. date'.year = date.year
      BY <2>2, <1>2
    <3>2. QED
      BY <3>1, <1>4, <1>5, <1>7
  <2>7. QED
    BY <2>2, <2>3, <2>4, <2>5, <2>6, Zenon
<1>11. CASE ~(n < MonthDays(y, m)) /\ m = 12
  <2>1. NextDate(date) = [year |-> date.year + 1, month |-> 1, day |-> 1]
    BY <1>2, <1>11 DEF NextDate
  <2>2. date' = [year |-> y + 1, month |-> 1, day |-> 1]
    BY <2>1, <1>2, <1>5
  <2>3. n = MonthDays(y, 12)
    BY <1>4, <1>6, <1>11
  <2>4. 1 <= MonthDays(y + 1, 1)
    BY DEF MonthDays
  <2>5. JulianDayNumber(y + 1, 1, 1) = day' + j
    <3>1. JulianDayNumber(y + 1, 1, 1) = JulianDayNumber(y, m, n) + 1
      BY <2>3, <1>11, NumberOfNextYear DEF NextNumber
    <3>2. QED
      BY <3>1, <1>4, <1>5
  <2>6. yday' = day' + j - JulianDayNumber(y + 1, 1, 1)
    <3>1. date'.year # date.year
      BY <2>2, <1>2
    <3>2. QED
      BY <3>1, <2>5, <1>3, <1>4, <1>5
  <2>7. y + 1 \in Int /\ 1 \in 1 .. 12 /\ 1 \in 1 .. 31
    OBVIOUS
  <2>8. QED
    BY <2>2, <2>4, <2>5, <2>6, <2>7, Zenon
<1>12. m < 12 \/ m = 12
  BY <1>4
<1>13. QED
  BY <1>9, <1>10, <1>11, <1>12, Zenon

\* What CalendarAgrees says of a second of the day.
AtSecond(tm, s) ==
    /\ tm.tm_year + 1900 = date.year /\ tm.tm_mon + 1 = date.month /\ tm.tm_mday = date.day
    /\ tm.tm_wday = (4 + day) % 7 /\ tm.tm_yday = yday
    /\ tm.tm_hour \in 0 .. HoursPerDay - 1 /\ tm.tm_min \in 0 .. MinutesPerHour - 1
    /\ tm.tm_sec \in 0 .. SecondsPerMinute - 1
    /\ FromUtcTime(tm) = day * kSecondsPerDay + s

(* What the calendar says of each second of the day.                       *)
LEMMA CalendarImplies ==
  ASSUME CalendarInv
  PROVE  CalendarAgrees
<1>1. PICK y \in Int, m \in 1 .. 12, n \in 1 .. 31 : date = [year |-> y, month |-> m, day |-> n]
  BY DEF CalendarInv
<1>2. date.year = y /\ date.month = m /\ date.day = n
  BY <1>1
<1>3. JulianDayOf1970_01_01 = 2440588
  BY NumberOfNewYear, SMT
<1>4. PICK d \in Int : d = day
  BY DEF CalendarInv
<1>5. PICK j \in Int : j = day + JulianDayOf1970_01_01
  BY <1>3, <1>4, SMT
<1>6. JulianDayNumber(y, m, n) = j /\ n <= MonthDays(y, m) /\ yday = j - JulianDayNumber(y, 1, 1)
  <2>1. JulianDayNumber(y, m, n) = day + JulianDayOf1970_01_01 /\ n <= MonthDays(y, m)
    BY <1>2 DEF CalendarInv
  <2>2. yday = day + JulianDayOf1970_01_01 - JulianDayNumber(y, 1, 1)
    BY <1>2 DEF CalendarInv
  <2>3. yday = j - JulianDayNumber(y, 1, 1)
    <3>1. PICK l \in Int : l = JulianDayNumber(y, 1, 1)
      BY NumberIsInt
    <3>2. PICK e \in Int : e = JulianDayOf1970_01_01
      BY <1>3
    <3>3. yday = day + e - l
      BY <2>2, <3>1, <3>2
    <3>4. j = day + e
      BY <1>5, <3>2
    <3>5. yday = j - l
      BY <3>3, <3>4, <1>4
    <3>6. QED
      BY <3>1, <3>5
  <2>4. JulianDayNumber(y, m, n) = j
    BY <2>1, <1>5
  <2>5. QED
    BY <2>1, <2>3, <2>4
<1>7. YearMonthDay(j) = date
  <2>1. MonthDays(y, m) \in 28 .. 31
    BY DEF MonthDays
  <2>2. n \in 1 .. MonthDays(y, m)
    BY <2>1, <1>6
  <2>3. QED
    BY <2>2, <1>1, <1>6, DateReturns
<1>8. ASSUME NEW s \in SecondsOfDay
      PROVE  AtSecond(ToUtcTime(day * kSecondsPerDay + s), s)
  <2>1. ToUtcTime(day * kSecondsPerDay + s) = UtcTimeOf(d, s)
    BY <1>4, UtcTimeIs
  <2> DEFINE tm == UtcTimeOf(d, s)
  <2>2. /\ tm.tm_year = y - 1900 /\ tm.tm_mon = m - 1 /\ tm.tm_mday = n
        /\ tm.tm_wday = WeekDay(j) /\ tm.tm_yday = j - JulianDayNumber(y, 1, 1)
    BY <1>2, <1>4, <1>5, <1>7 DEF UtcTimeOf
  <2>3. tm.tm_year + 1900 = y /\ tm.tm_mon + 1 = m
    BY <2>2
  <2>4. WeekDay(j) = (4 + day) % 7
    <3>1. (d + 2440588 + 1) % 7 = (4 + d) % 7
      BY Z3
    <3>2. QED
      BY <3>1, <1>3, <1>4, <1>5, SMT DEF WeekDay
  <2>5. /\ tm.tm_hour \in 0 .. HoursPerDay - 1 /\ tm.tm_min \in 0 .. MinutesPerHour - 1
        /\ tm.tm_sec \in 0 .. SecondsPerMinute - 1
    <3>1. /\ tm.tm_sec = s % SecondsPerMinute
          /\ tm.tm_min = (s \div SecondsPerMinute) % MinutesPerHour
          /\ tm.tm_hour = (s \div SecondsPerMinute) \div MinutesPerHour
      BY DEF UtcTimeOf
    <3>2. QED
      BY <3>1, ClockReturns, Zenon
  <2>6. FromUtcTime(tm) = d * kSecondsPerDay + s
    BY SecondsReturn
  <2> HIDE DEF tm
  <2>7. PICK t : t = tm
    OBVIOUS
  <2>8. t.tm_year + 1900 = date.year /\ t.tm_mon + 1 = date.month /\ t.tm_mday = date.day
    BY <2>2, <2>3, <2>7, <1>2
  <2>9. t.tm_wday = (4 + day) % 7 /\ t.tm_yday = yday
    <3>1. yday = j - JulianDayNumber(y, 1, 1)
      BY <1>6
    <3>2. QED
      BY <2>2, <2>4, <2>7, <3>1
  <2>10. FromUtcTime(t) = day * kSecondsPerDay + s
    BY <2>6, <2>7, <1>4 DEF tm
  <2>11. /\ t.tm_hour \in 0 .. HoursPerDay - 1 /\ t.tm_min \in 0 .. MinutesPerHour - 1
         /\ t.tm_sec \in 0 .. SecondsPerMinute - 1
    BY <2>5, <2>7
  <2>12. AtSecond(t, s)
    BY <2>8, <2>9, <2>10, <2>11 DEF AtSecond
  <2>13. QED
    BY <2>1, <2>7, <2>12, Zenon DEF tm
<1>9. JulianDayNumber(date.year, date.month, date.day) = day + JulianDayOf1970_01_01
  BY DEF CalendarInv
<1>10. YearMonthDay(day + JulianDayOf1970_01_01) = date
  BY <1>5, <1>7
<1>11. QED
  BY <1>8, <1>9, <1>10, Zenon DEF CalendarAgrees, AtSecond

(* The calendar goes by only in PassDay.                                   *)
LEMMA CalendarInvariant == LogSpec => []CalendarInv
<1>1. LogInit => CalendarInv
  BY CalendarBegins DEF LogInit
<1>2. CalendarInv /\ UNCHANGED zoneVars => CalendarInv'
  BY DEF CalendarInv, zoneVars
<1>3. CalendarInv /\ [LogNext]_allVars => CalendarInv'
  <2> SUFFICES ASSUME CalendarInv, [LogNext]_allVars
               PROVE  CalendarInv'
    OBVIOUS
  <2>1. CASE UNCHANGED allVars
    BY <2>1, <1>2 DEF allVars
  <2>2. CASE PassDay
    BY <2>2, CalendarGoesOn DEF PassDay
  <2>3. CASE SecondsPass \/ SetTimeZone \/ SetLogLevel
    BY <2>3, <1>2 DEF SecondsPass, SetTimeZone, SetLogLevel
  <2>4. ASSUME NEW t \in Loggers, (\E m \in walk.messages : LogLine(t, m)) \/ Stream(t) \/ Destroy(t) \/ Fork(t)
        PROVE  CalendarInv'
    BY <2>4, <1>2 DEF LogLine, Stream, Destroy, Fork
  <2>5. QED
    BY <2>1, <2>2, <2>3, <2>4 DEF LogNext
<1>4. QED
  BY <1>1, <1>3, PTL DEF LogSpec

(* The number of the day, its date and every second of it, broken down and *)
(* put together again (Date.cc:17-60, TimeZone.cc:334-376), are those of a *)
(* calendar that counts the days, from the first of January of any year on *)
(* and for however long, whatever the threads that log do.                 *)
THEOREM DaysAreRight == LogSpec => []CalendarAgrees
BY CalendarInvariant, CalendarImplies, PTL

-----------------------------------------------------------------------------
(* Zones *)

\* A zone file: its changes are in order, as std::lower_bound counts on, and each leads to one
\* of its types, of which the first can be read.
ZoneFile(file) ==
    /\ file.types \in Seq([gmtOffset : Int, isDst : BOOLEAN])
    /\ file.typesRead \in 1 .. Len(file.types)
    /\ file.times \in Seq(Int) /\ file.index \in [DOMAIN file.times -> DOMAIN file.types]
    /\ \A i, j \in DOMAIN file.times : i < j => file.times[i] < file.times[j]

\* How many of n numbers are less than x.
IsCount(f, n, x, k) ==
    /\ k \in 0 .. n
    /\ \A i \in 1 .. n : f[i] < x <=> i <= k

(* What std::lower_bound counts, when the numbers are in order.            *)
LEMMA CountBelow ==
  ASSUME NEW n \in Nat, NEW f \in [1 .. n -> Int], NEW x \in Int,
         \A i, j \in 1 .. n : i < j => f[i] < f[j]
  PROVE  IsCount(f, n, x, Cardinality({i \in 1 .. n : f[i] < x}))
<1> DEFINE P == {i \in 1 .. n : f[i] < x}
<1>1. IsFiniteSet(1 .. n) /\ Cardinality(1 .. n) = n
  BY FS_Interval
<1>2. IsFiniteSet(P) /\ Cardinality(P) <= n
  <2>1. P \in SUBSET (1 .. n)
    OBVIOUS
  <2> HIDE DEF P
  <2>2. IsFiniteSet(P) /\ Cardinality(P) <= Cardinality(1 .. n)
    BY <1>1, <2>1, FS_Subset, Zenon
  <2>3. QED
    BY <1>1, <2>2, Zenon
<1>3. PICK k \in Nat : k = Cardinality(P)
  <2> HIDE DEF P
  <2>1. QED
    BY <1>2, FS_CardinalityType
<1>4. ASSUME NEW i \in P PROVE i <= k
  <2>1. i \in 1 .. n /\ f[i] < x
    OBVIOUS
  <2>2. \A j \in 1 .. i : j \in P
    BY <2>1
  <2>3. 1 .. i \in SUBSET P
    BY <2>2
  <2> HIDE DEF P
  <2>4. Cardinality(1 .. i) <= Cardinality(P)
    BY <1>2, <2>3, FS_Subset
  <2>5. Cardinality(1 .. i) = i
    BY <2>1, FS_Interval
  <2>6. QED
    BY <2>4, <2>5, <1>3
<1>5. P \in SUBSET (1 .. k)
  BY <1>4
<1>6. P = 1 .. k
  <2> HIDE DEF P
  <2>1. IsFiniteSet(1 .. k) /\ Cardinality(1 .. k) = k
    BY FS_Interval
  <2>2. QED
    BY <1>3, <1>5, <2>1, FS_Subset
<1>7. \A i \in 1 .. n : f[i] < x <=> i <= k
  BY <1>6
<1> HIDE DEF P
<1>8. IsCount(f, n, x, k)
  BY <1>2, <1>3, <1>7 DEF IsCount
<1>9. QED
  BY <1>3, <1>8 DEF P

\* The last one that is not greater than x, by how many are less.
LastIs(f, n, x, k) == IF k + 1 <= n /\ f[k + 1] = x THEN k + 1 ELSE k

\* As far as r the numbers are not greater than x.
LastTill(f, n, x, r) ==
    /\ r \in 0 .. n
    /\ \A i \in 1 .. n : f[i] <= x <=> i <= r

(* The last of the numbers that is not greater, if there is one.           *)
LEMMA LastChange ==
  ASSUME NEW n \in Nat, NEW f \in [1 .. n -> Int], NEW x \in Int, NEW k, IsCount(f, n, x, k),
         \A i, j \in 1 .. n : i < j => f[i] < f[j]
  PROVE  LastTill(f, n, x, LastIs(f, n, x, k))
<1>1. k \in 0 .. n /\ \A i \in 1 .. n : f[i] < x <=> i <= k
  BY DEF IsCount
<1>2. \A i \in 1 .. n : f[i] \in Int
  OBVIOUS
<1>3. CASE k + 1 <= n /\ f[k + 1] = x
  <2>1. LastIs(f, n, x, k) = k + 1
    BY <1>3 DEF LastIs
  <2>2. k + 1 \in 1 .. n
    BY <1>1, <1>3
  <2>3. ASSUME NEW i \in 1 .. n PROVE f[i] <= x <=> i <= k + 1
    <3>1. CASE i > k + 1
      <4>1. f[k + 1] < f[i]
        BY <2>2, <3>1
      <4>2. QED
        BY <1>1, <1>2, <1>3, <2>2, <3>1, <4>1
    <3>2. CASE i <= k
      BY <1>1, <1>2, <3>2
    <3>3. CASE i = k + 1
      BY <1>1, <1>3, <3>3
    <3>4. QED
      BY <1>1, <3>1, <3>2, <3>3
  <2>4. QED
    BY <1>1, <1>3, <2>1, <2>2, <2>3 DEF LastTill
<1>4. CASE ~(k + 1 <= n /\ f[k + 1] = x)
  <2>1. LastIs(f, n, x, k) = k
    BY <1>4 DEF LastIs
  <2>2. ASSUME NEW i \in 1 .. n PROVE f[i] <= x <=> i <= k
    <3>1. CASE i = k + 1
      <4>1. f[i] # x /\ ~(f[i] < x)
        BY <1>1, <1>4, <3>1
      <4>2. QED
        BY <1>1, <1>2, <3>1, <4>1
    <3>2. CASE i > k + 1
      <4>1. k + 1 \in 1 .. n /\ f[k + 1] < f[i]
        BY <1>1, <3>2
      <4>2. ~(f[k + 1] < x)
        BY <1>1, <4>1
      <4>3. QED
        BY <1>1, <1>2, <3>2, <4>1, <4>2
    <3>3. CASE i <= k
      BY <1>1, <1>2, <3>3
    <3>4. QED
      BY <1>1, <3>1, <3>2, <3>3
  <2>3. QED
    BY <1>1, <2>1, <2>2 DEF LastTill
<1>5. QED
  BY <1>3, <1>4

(* InForce by what std::lower_bound returns.                               *)
LEMMA InForceIs ==
  ASSUME NEW tr, NEW x, NEW byGmt, NEW at, LowerBound(tr, x, byGmt) = at
  PROVE  InForce(tr, x, byGmt) = IF at <= Len(tr) /\ Key(tr[at], byGmt) = x THEN at ELSE at - 1
  BY DEF InForce

\* The r-th change leads to this type; before the first it is the first of the file.
TypeNo(file, r) == IF r = 0 THEN file.types[1] ELSE file.types[file.index[r]]

LocalOf(file, i) == file.times[i] + TypeNo(file, i).gmtOffset

\* What the changes are found by.
KeysAre(file, byGmt, n, f) ==
    /\ n = Len(file.times) /\ f \in [1 .. n -> Int]
    /\ \A i \in 1 .. n : f[i] = IF byGmt THEN file.times[i] ELSE LocalOf(file, i)
    /\ \A i, j \in 1 .. n : i < j => f[i] < f[j]

TimeTypes == [gmtOffset : Int, isDst : BOOLEAN]

(* The sequences of a zone file.                                           *)
LEMMA ZoneFileIs ==
  ASSUME NEW file, ZoneFile(file)
  PROVE  /\ Len(file.times) \in Nat /\ DOMAIN file.times = 1 .. Len(file.times)
         /\ file.times \in [1 .. Len(file.times) -> Int]
         /\ file.types \in Seq(TimeTypes) /\ file.typesRead \in 1 .. Len(file.types)
         /\ \A r \in 0 .. Len(file.times) : TypeNo(file, r) \in TimeTypes
<1>1. file.times \in Seq(Int)
  BY DEF ZoneFile
<1>2. PICK n \in Nat : n = Len(file.times) /\ DOMAIN file.times = 1 .. n /\ file.times \in [1 .. n -> Int]
  BY <1>1
<1>3. file.types \in Seq(TimeTypes) /\ file.typesRead \in 1 .. Len(file.types)
  BY DEF ZoneFile, TimeTypes
<1>4. file.index \in [1 .. n -> DOMAIN file.types]
  BY <1>2 DEF ZoneFile
<1>5. \A i \in DOMAIN file.types : file.types[i] \in TimeTypes
  <2>1. file.types \in [1 .. Len(file.types) -> TimeTypes]
    BY <1>3, LenProperties, Zenon
  <2>2. QED
    BY <2>1, Zenon
<1>6. 1 \in DOMAIN file.types
  BY <1>3
<1>7. ASSUME NEW r \in 0 .. n PROVE TypeNo(file, r) \in TimeTypes
  <2>1. r # 0 => r \in 1 .. n
    OBVIOUS
  <2>2. QED
    BY <1>4, <1>5, <1>6, <2>1, Zenon DEF TypeNo
<1>8. QED
  BY <1>2, <1>3, <1>7

(* What findLocaltime finds, by the second or by the local time: the type  *)
(* to which the last change before it leads.                               *)
LEMMA FindsByKey ==
  ASSUME NEW file, ZoneFile(file), file.typesRead = Len(file.types), NEW x \in Int,
         NEW byGmt \in BOOLEAN, NEW n, NEW f, KeysAre(file, byGmt, n, f)
  PROVE  \E r \in 0 .. n : /\ LastTill(f, n, x, r)
                           /\ FindLocaltime(ReadTimeZoneFile(file), x, byGmt) = TypeNo(file, r)
<1> DEFINE zone == ReadTimeZoneFile(file)
<1>1. /\ n \in Nat /\ DOMAIN file.times = 1 .. n /\ f \in [1 .. n -> Int]
      /\ \A i \in 1 .. n : f[i] = IF byGmt THEN file.times[i] ELSE LocalOf(file, i)
      /\ \A i, j \in 1 .. n : i < j => f[i] < f[j]
  BY ZoneFileIs DEF KeysAre
<1>2. file.types \in Seq(TimeTypes) /\ file.typesRead \in 1 .. Len(file.types)
  BY ZoneFileIs
<1>3. zone.localtimes = file.types
  BY <1>2 DEF ReadTimeZoneFile
<1>4. PICK tr : /\ tr = zone.transitions /\ tr = [i \in 1 .. n |-> tr[i]]
                /\ \A i \in 1 .. n : Key(tr[i], byGmt) = f[i] /\ tr[i].localtimeIdx = file.index[i]
  <2>1. zone.transitions = [i \in 1 .. n |->
                              [gmttime |-> file.times[i],
                               localtime |-> file.times[i] + file.types[file.index[i]].gmtOffset,
                               localtimeIdx |-> file.index[i]]]
    BY <1>1, <1>2 DEF ReadTimeZoneFile
  <2>2. PICK tr : tr = zone.transitions
    OBVIOUS
  <2>3. tr = [i \in 1 .. n |-> tr[i]]
    BY <2>1, <2>2
  <2>4. ASSUME NEW i \in 1 .. n
        PROVE  Key(tr[i], byGmt) = f[i] /\ tr[i].localtimeIdx = file.index[i]
    <3>1. /\ tr[i].gmttime = file.times[i] /\ tr[i].localtimeIdx = file.index[i]
          /\ tr[i].localtime = file.times[i] + file.types[file.index[i]].gmtOffset
      BY <2>1, <2>2
    <3>2. TypeNo(file, i) = file.types[file.index[i]]
      BY <1>1 DEF TypeNo
    <3>3. QED
      BY <1>1, <3>1, <3>2 DEF Key, LocalOf
  <2>5. QED
    BY <2>2, <2>3, <2>4
<1>5. DOMAIN tr = 1 .. n /\ tr \in Seq({tr[i] : i \in 1 .. n}) /\ Len(tr) = n
  <2>1. n \in Nat /\ tr = [i \in 1 .. n |-> tr[i]]
    BY <1>1, <1>4
  <2>2. QED
    BY <2>1
<1>6. (tr = <<>>) <=> n = 0
  BY <1>1, <1>5
<1>7. PICK k : k = Cardinality({i \in 1 .. n : f[i] < x})
  OBVIOUS
<1>8. IsCount(f, n, x, k)
  BY <1>1, <1>7, CountBelow
<1>9. PICK r : r = LastIs(f, n, x, k)
  OBVIOUS
<1>10. LastTill(f, n, x, r)
  BY <1>1, <1>8, <1>9, LastChange
<1>11. r \in 0 .. n /\ \A i \in 1 .. n : f[i] <= x <=> i <= r
  BY <1>10 DEF LastTill
<1>12. CASE tr = <<>> \/ x < Key(tr[1], byGmt)
  <2>1. FindLocaltime(zone, x, byGmt) = file.types[1]
    BY <1>3, <1>4, <1>12 DEF FindLocaltime
  <2>2. r = 0
    <3>1. CASE n = 0
      BY <1>11, <3>1
    <3>2. CASE n # 0
      <4>1. 1 \in 1 .. n
        BY <1>1, <3>2
      <4>2. x < f[1] /\ f[1] \in Int
        BY <1>1, <1>4, <1>6, <1>12, <3>2, <4>1
      <4>3. ~(1 <= r)
        BY <1>11, <4>1, <4>2
      <4>4. QED
        BY <1>1, <1>11, <4>3
    <3>3. QED
      BY <3>1, <3>2
  <2>3. QED
    BY <1>10, <1>11, <2>1, <2>2 DEF TypeNo
<1>13. CASE ~(tr = <<>> \/ x < Key(tr[1], byGmt))
  <2>1. InForce(tr, x, byGmt) = r
    <3>1. LowerBound(tr, x, byGmt) = 1 + k
      <4>1. {i \in DOMAIN tr : Key(tr[i], byGmt) < x} = {i \in 1 .. n : f[i] < x}
        BY <1>4, <1>5
      <4>2. QED
        BY <1>7, <4>1 DEF LowerBound
    <3>2. k \in 0 .. n
      BY <1>8 DEF IsCount
    <3>3. (k + 1) - 1 = k /\ 1 + k = k + 1
      BY <1>1, <3>2
    <3>4. LowerBound(tr, x, byGmt) = k + 1
      BY <3>1, <3>3, Zenon
    <3>5. InForce(tr, x, byGmt) = IF k + 1 <= Len(tr) /\ Key(tr[k + 1], byGmt) = x
                                  THEN k + 1 ELSE (k + 1) - 1
      <4>1. PICK at : at = k + 1
        OBVIOUS
      <4>2. LowerBound(tr, x, byGmt) = at
        BY <3>4, <4>1
      <4>3. InForce(tr, x, byGmt) = IF at <= Len(tr) /\ Key(tr[at], byGmt) = x THEN at ELSE at - 1
        BY <4>2, InForceIs
      <4>4. QED
        BY <4>1, <4>3
    <3>6. InForce(tr, x, byGmt) = IF k + 1 <= n /\ Key(tr[k + 1], byGmt) = x THEN k + 1 ELSE k
      <4>1. Len(tr) = n
        BY <1>5
      <4>2. QED
        BY <3>3, <3>5, <4>1, Zenon
    <3>7. k + 1 <= n => Key(tr[k + 1], byGmt) = f[k + 1]
      BY <1>1, <1>4, <3>2, SMTT(30)
    <3>8. QED
      BY <1>9, <3>6, <3>7 DEF LastIs
  <2>2. r \in 1 .. n
    <3>1. n # 0 /\ 1 \in 1 .. n
      BY <1>1, <1>6, <1>13
    <3>2. ~(x < f[1]) /\ f[1] \in Int
      BY <1>1, <1>4, <1>13, <3>1
    <3>3. 1 <= r
      BY <1>11, <3>1, <3>2
    <3>4. QED
      BY <1>1, <1>11, <3>3
  <2>3. FindLocaltime(zone, x, byGmt) = zone.localtimes[tr[r].localtimeIdx]
    BY <1>4, <1>13, <2>1 DEF FindLocaltime
  <2>4. FindLocaltime(zone, x, byGmt) = file.types[file.index[r]]
    BY <1>3, <1>4, <2>2, <2>3
  <2>5. TypeNo(file, r) = file.types[file.index[r]]
    BY <1>1, <2>2 DEF TypeNo
  <2>6. QED
    BY <1>10, <1>11, <2>4, <2>5
<1>14. QED
  BY <1>12, <1>13

(* What is in force, by the number of the last change.                     *)
LEMMA TypeAtIs ==
  ASSUME NEW file, ZoneFile(file), NEW x \in Int, NEW r,
         LastTill(file.times, Len(file.times), x, r)
  PROVE  TypeAt(file, x) = TypeNo(file, r)
<1> DEFINE past == {i \in DOMAIN file.times : file.times[i] <= x}
<1>1. PICK n \in Nat : n = Len(file.times) /\ DOMAIN file.times = 1 .. n
  BY ZoneFileIs
<1>2. r \in 0 .. n /\ \A i \in 1 .. n : file.times[i] <= x <=> i <= r
  BY <1>1 DEF LastTill
<1>3. past = 1 .. r
  BY <1>1, <1>2
<1>4. TypeAt(file, x) = IF past = {} THEN file.types[1]
                        ELSE file.types[file.index[CHOOSE q \in past : \A i \in past : i <= q]]
  BY Zenon DEF TypeAt
<1> HIDE DEF past
<1>6. CASE r = 0
  <2>1. past = {}
    BY <1>3, <1>6
  <2>2. QED
    BY <1>4, <1>6, <2>1 DEF TypeNo
<1>7. CASE r # 0
  <2>1. r \in past /\ \A i \in past : i <= r
    BY <1>2, <1>3, <1>7
  <2>2. \A q \in past : (\A i \in past : i <= q) => q = r
    BY <1>2, <1>3, <2>1
  <2>3. (CHOOSE q \in past : \A i \in past : i <= q) = r
    BY <2>1, <2>2
  <2>4. past # {}
    BY <2>1
  <2>5. QED
    BY <1>4, <1>7, <2>3, <2>4 DEF TypeNo
<1>8. QED
  BY <1>6, <1>7

(* Of a file that ends among its types there is the first.                 *)
LEMMA CutOffIs ==
  ASSUME NEW file, ZoneFile(file), file.typesRead # Len(file.types), NEW x \in Int, NEW byGmt \in BOOLEAN
  PROVE  FindLocaltime(ReadTimeZoneFile(file), x, byGmt) = TypeNo(file, 0)
<1>1. /\ file.types \in Seq(TimeTypes) /\ file.typesRead \in 1 .. Len(file.types)
      /\ file.typesRead < Len(file.types)
  BY ZoneFileIs
<1>2. ReadTimeZoneFile(file).localtimes[1] = file.types[1] /\ ReadTimeZoneFile(file).transitions = <<>>
  BY <1>1 DEF ReadTimeZoneFile
<1>3. QED
  BY <1>1, <1>2 DEF FindLocaltime, TypeNo

(* The times of the changes are what they are found by.                    *)
LEMMA GmtKeys ==
  ASSUME NEW file, ZoneFile(file)
  PROVE  KeysAre(file, TRUE, Len(file.times), file.times)
  BY ZoneFileIs DEF KeysAre, ZoneFile

(* findLocaltime finds what is in force, of a file that was read to its    *)
(* end.                                                                    *)
LEMMA FindsType ==
  ASSUME NEW file, ZoneFile(file), ReadWhole(file), NEW x \in Int
  PROVE  /\ FindLocaltime(ReadTimeZoneFile(file), x, TRUE) = TypeAt(file, x)
         /\ TypeAt(file, x) \in TimeTypes
<1>1. PICK n : n = Len(file.times)
  OBVIOUS
<1>2. PICK r \in 0 .. n : /\ LastTill(file.times, n, x, r)
                          /\ FindLocaltime(ReadTimeZoneFile(file), x, TRUE) = TypeNo(file, r)
  <2>1. TRUE \in BOOLEAN /\ KeysAre(file, TRUE, n, file.times)
    BY <1>1, GmtKeys
  <2>2. QED
    BY <2>1, FindsByKey DEF ReadWhole
<1>3. TypeAt(file, x) = TypeNo(file, r)
  BY <1>1, <1>2, TypeAtIs
<1>4. TypeNo(file, r) \in TimeTypes
  BY <1>1, ZoneFileIs
<1>5. QED
  BY <1>2, <1>3, <1>4

-----------------------------------------------------------------------------
(* Local times *)

\* Local time goes back at a change only at the end of summer time, which is an hour ahead; the
\* changes are in order by local time too, and the hour that comes twice is over before the
\* next change.
HourAhead(file) ==
    \A i \in DOMAIN file.times :
        /\ \/ TypeNo(file, i - 1).gmtOffset <= TypeNo(file, i).gmtOffset
           \/ /\ TypeNo(file, i - 1).isDst /\ ~TypeNo(file, i).isDst
              /\ TypeNo(file, i - 1).gmtOffset = TypeNo(file, i).gmtOffset + SecondsPerHour
        /\ \A j \in DOMAIN file.times : i < j => LocalOf(file, i) < LocalOf(file, j)
        /\ i + 1 \in DOMAIN file.times =>
             /\ file.times[i] + SecondsPerHour <= file.times[i + 1]
             /\ file.times[i] + TypeNo(file, i - 1).gmtOffset <= LocalOf(file, i + 1)

\* A zone file as the code counts on; one that was not read to its end has no changes.
SummerZone(file) == ZoneFile(file) /\ (file.typesRead = Len(file.types) => HourAhead(file))

\* The fields that count of a broken down time.
BrokenDown(tm, x) ==
    \A f \in {"tm_year", "tm_mon", "tm_mday", "tm_hour", "tm_min", "tm_sec"} : tm[f] = ToUtcTime(x)[f]

(* They are put together to the second they came from.                     *)
LEMMA PutTogether ==
  ASSUME NEW x \in Int, NEW tm, BrokenDown(tm, x)
  PROVE  FromUtcTime(tm) = x
<1>1. PICK d \in Int, s \in SecondsOfDay : x = d * kSecondsPerDay + s
  BY DayAndSecond, Zenon
<1>2. ToUtcTime(x) = UtcTimeOf(d, s)
  BY <1>1, UtcTimeIs, Zenon
<1>3. PICK u : u = UtcTimeOf(d, s)
  OBVIOUS
<1>4. /\ tm.tm_year = u.tm_year /\ tm.tm_mon = u.tm_mon /\ tm.tm_mday = u.tm_mday
      /\ tm.tm_hour = u.tm_hour /\ tm.tm_min = u.tm_min /\ tm.tm_sec = u.tm_sec
  BY <1>2, <1>3, Zenon DEF BrokenDown
<1>5. FromUtcTime(tm) = d * kSecondsPerDay + s
  BY <1>3, <1>4, SecondsReturn, Zenon
<1>6. QED
  BY <1>1, <1>5, Zenon

(* What ToLocalTime makes of a second, by the type in force.               *)
LEMMA LocalTimeIs ==
  ASSUME NEW zone, NEW x \in Int, NEW type \in TimeTypes, FindLocaltime(zone, x, TRUE) = type
  PROVE  /\ BrokenDown(ToLocalTime(zone, x), x + type.gmtOffset)
         /\ FromUtcTime(ToLocalTime(zone, x)) = x + type.gmtOffset
         /\ ToLocalTime(zone, x).tm_isdst = type.isDst
<1>1. PICK l \in Int : l = x + type.gmtOffset
  BY DEF TimeTypes
<1>2. PICK tm : tm = ToLocalTime(zone, x)
  OBVIOUS
<1>3. tm = [ToUtcTime(l) EXCEPT !.tm_isdst = type.isDst]
  BY <1>1, <1>2 DEF ToLocalTime
<1>4. DOMAIN ToUtcTime(l) = {"tm_sec", "tm_min", "tm_hour", "tm_year", "tm_mon", "tm_mday", "tm_wday",
                             "tm_yday", "tm_isdst"}
  BY DEF ToUtcTime
<1>5. PICK u : u = ToUtcTime(l)
  OBVIOUS
<1>6. BrokenDown(tm, l) /\ tm.tm_isdst = type.isDst
  BY <1>3, <1>4, <1>5 DEF BrokenDown
<1>7. FromUtcTime(tm) = l
  BY <1>6, PutTogether
<1>8. QED
  BY <1>1, <1>2, <1>6, <1>7, Zenon

\* What FromLocalTime finds by a local time.
Tries(zone, tm, l, type, try) ==
    /\ l = FromUtcTime(tm) /\ type = FindLocaltime(zone, l, FALSE)
    /\ try = ToLocalTime(zone, l - type.gmtOffset)

\* What it makes of them.
Corrected(tm, l, type, try) ==
    l - (IF tm.tm_isdst /\ ~try.tm_isdst /\ SameClock(try, tm) THEN SecondsPerHour ELSE 0)
      - type.gmtOffset

(* FromLocalTime, step by step.                                            *)
LEMMA FromLocalTimeIs ==
  ASSUME NEW zone, NEW tm, NEW l, NEW type, NEW try, Tries(zone, tm, l, type, try)
  PROVE  FromLocalTime(zone, tm) = Corrected(tm, l, type, try)
  BY DEF FromLocalTime, Tries, Corrected

(* A local time leads back where its type is found by it,                  *)
LEMMA ReturnsBySame ==
  ASSUME NEW zone, NEW x \in Int, NEW type \in TimeTypes, FindLocaltime(zone, x, TRUE) = type,
         FindLocaltime(zone, x + type.gmtOffset, FALSE) = type
  PROVE  FromLocalTime(zone, ToLocalTime(zone, x)) = x
<1>1. PICK tm : tm = ToLocalTime(zone, x)
  OBVIOUS
<1>2. PICK l \in Int : l = x + type.gmtOffset
  BY DEF TimeTypes
<1>3. FromUtcTime(tm) = l
  BY <1>1, <1>2, LocalTimeIs, Zenon
<1>4. l - type.gmtOffset = x
  BY <1>2 DEF TimeTypes
<1>5. FromLocalTime(zone, tm) = Corrected(tm, l, type, tm)
  <2>1. Tries(zone, tm, l, type, tm)
    BY <1>1, <1>2, <1>3, <1>4 DEF Tries
  <2>2. QED
    BY <2>1, FromLocalTimeIs
<1>6. FromLocalTime(zone, tm) = l - 0 - type.gmtOffset
  BY <1>5 DEF Corrected
<1>7. QED
  BY <1>1, <1>2, <1>6 DEF TimeTypes

(* and in the hour that comes twice, where that of standard time is found. *)
LEMMA ReturnsByHour ==
  ASSUME NEW zone, NEW x \in Int, NEW type \in TimeTypes, FindLocaltime(zone, x, TRUE) = type,
         NEW other \in TimeTypes, FindLocaltime(zone, x + type.gmtOffset, FALSE) = other,
         type.isDst, ~other.isDst, type.gmtOffset = other.gmtOffset + SecondsPerHour,
         FindLocaltime(zone, x + SecondsPerHour, TRUE) = other
  PROVE  FromLocalTime(zone, ToLocalTime(zone, x)) = x
<1>1. PICK tm : tm = ToLocalTime(zone, x)
  OBVIOUS
<1>2. PICK l \in Int : l = x + type.gmtOffset
  BY DEF TimeTypes
<1>3. FromUtcTime(tm) = l /\ BrokenDown(tm, l) /\ tm.tm_isdst = type.isDst
  BY <1>1, <1>2, LocalTimeIs, Zenon
<1>4. PICK h \in Int : h = SecondsPerHour
  BY Lengths
<1>5. PICK y \in Int : y = x + h
  BY <1>4
<1>6. l - other.gmtOffset = y /\ l = y + other.gmtOffset
  BY <1>2, <1>4, <1>5 DEF TimeTypes
<1>7. PICK try : try = ToLocalTime(zone, y)
  OBVIOUS
<1>8. FindLocaltime(zone, y, TRUE) = other
  BY <1>4, <1>5
<1>9. BrokenDown(try, l) /\ try.tm_isdst = other.isDst
  BY <1>6, <1>7, <1>8, LocalTimeIs, Zenon
<1>10. SameClock(try, tm)
  BY <1>3, <1>9 DEF SameClock, BrokenDown
<1>11. FromLocalTime(zone, tm) = Corrected(tm, l, other, try)
  <2>1. Tries(zone, tm, l, other, try)
    BY <1>2, <1>3, <1>6, <1>7 DEF Tries
  <2>2. QED
    BY <2>1, FromLocalTimeIs
<1>12. FromLocalTime(zone, tm) = l - h - other.gmtOffset
  BY <1>3, <1>4, <1>9, <1>10, <1>11 DEF Corrected
<1>13. QED
  BY <1>1, <1>5, <1>6, <1>12 DEF TimeTypes

(* The changes by local time.                                              *)
LEMMA LocalKeys ==
  ASSUME NEW file, ZoneFile(file), HourAhead(file)
  PROVE  KeysAre(file, FALSE, Len(file.times), [i \in 1 .. Len(file.times) |-> LocalOf(file, i)])
<1>1. PICK n \in Nat : n = Len(file.times) /\ DOMAIN file.times = 1 .. n /\ file.times \in [1 .. n -> Int]
  BY ZoneFileIs
<1>2. \A i \in 1 .. n : TypeNo(file, i).gmtOffset \in Int /\ LocalOf(file, i) \in Int
  <2>1. ASSUME NEW i \in 1 .. n
        PROVE  TypeNo(file, i).gmtOffset \in Int /\ LocalOf(file, i) \in Int
    <3>1. TypeNo(file, i) \in TimeTypes
      <4>1. i \in 0 .. Len(file.times)
        BY <1>1
      <4>2. QED
        BY <4>1, ZoneFileIs, Zenon
    <3>2. TypeNo(file, i).gmtOffset \in Int
      BY <3>1 DEF TimeTypes
    <3>3. file.times[i] \in Int
      BY <1>1
    <3>4. QED
      BY <3>2, <3>3 DEF LocalOf
  <2>2. QED
    BY <2>1, Zenon
<1>3. \A i, j \in 1 .. n : i < j => LocalOf(file, i) < LocalOf(file, j)
  BY <1>1 DEF HourAhead
<1>4. QED
  BY <1>1, <1>2, <1>3 DEF KeysAre

(* Whatever the zone and the second, the local time leads back to it.      *)
LEMMA LocalReturns ==
  ASSUME NEW file, SummerZone(file), NEW x \in Int
  PROVE  FromLocalTime(ReadTimeZoneFile(file), ToLocalTime(ReadTimeZoneFile(file), x)) = x
<1>1. ZoneFile(file) /\ (file.typesRead = Len(file.types) => HourAhead(file))
  BY DEF SummerZone
<1>2. PICK n \in Nat : n = Len(file.times) /\ DOMAIN file.times = 1 .. n /\ file.times \in [1 .. n -> Int]
  BY <1>1, ZoneFileIs
<1>3. \A r \in 0 .. n : TypeNo(file, r) \in TimeTypes /\ TypeNo(file, r).gmtOffset \in Int
  BY <1>1, <1>2, ZoneFileIs DEF TimeTypes
<1> DEFINE zone == ReadTimeZoneFile(file)
<1>4. CASE file.typesRead # Len(file.types)
  <2>1. PICK type \in TimeTypes : type = TypeNo(file, 0)
    BY <1>2, <1>3
  <2>2. x + type.gmtOffset \in Int
    BY DEF TimeTypes
  <2>3. FindLocaltime(zone, x, TRUE) = type /\ FindLocaltime(zone, x + type.gmtOffset, FALSE) = type
    BY <1>1, <1>4, <2>1, <2>2, CutOffIs
  <2>4. QED
    BY <2>3, ReturnsBySame
<1>5. CASE file.typesRead = Len(file.types)
  <2>1. HourAhead(file)
    BY <1>1, <1>5
  <2>2. PICK h \in Nat \ {0} : h = SecondsPerHour
    BY Lengths
  <2>3. PICK f \in [1 .. n -> Int] : f = file.times
    BY <1>2
  <2>4. PICK off \in [0 .. n -> Int] : \A r \in 0 .. n : off[r] = TypeNo(file, r).gmtOffset
    <3>1. [r \in 0 .. n |-> TypeNo(file, r).gmtOffset] \in [0 .. n -> Int]
      BY <1>3
    <3>2. QED
      BY <3>1
  <2>5. PICK g : g = [i \in 1 .. n |-> LocalOf(file, i)]
    OBVIOUS
  <2>6. g \in [1 .. n -> Int] /\ \A i \in 1 .. n : g[i] = f[i] + off[i]
    <3>1. ASSUME NEW i \in 1 .. n
          PROVE  LocalOf(file, i) \in Int /\ LocalOf(file, i) = f[i] + off[i]
      <4>1. i \in 0 .. n
        OBVIOUS
      <4>2. off[i] = TypeNo(file, i).gmtOffset /\ f[i] \in Int /\ off[i] \in Int
        BY <2>4, <4>1
      <4>3. LocalOf(file, i) = f[i] + off[i]
        BY <2>3, <4>2, Zenon DEF LocalOf
      <4>4. QED
        BY <4>2, <4>3
    <3>2. QED
      BY <2>5, <3>1
  <2>7. KeysAre(file, FALSE, n, g) /\ KeysAre(file, TRUE, n, f)
    BY <1>1, <1>2, <2>1, <2>3, <2>5, LocalKeys, GmtKeys
  <2>8. ASSUME NEW i \in 1 .. n
        PROVE  /\ \/ off[i - 1] <= off[i]
                  \/ /\ TypeNo(file, i - 1).isDst /\ ~TypeNo(file, i).isDst /\ off[i - 1] = off[i] + h
               /\ i + 1 \in 1 .. n => f[i] + h <= f[i + 1] /\ f[i] + off[i - 1] <= g[i + 1]
    <3>1. i \in DOMAIN file.times /\ i - 1 \in 0 .. n /\ i \in 0 .. n
      BY <1>2
    <3>2. off[i - 1] = TypeNo(file, i - 1).gmtOffset /\ off[i] = TypeNo(file, i).gmtOffset
      BY <2>4, <3>1
    <3>3. /\ \/ TypeNo(file, i - 1).gmtOffset <= TypeNo(file, i).gmtOffset
             \/ /\ TypeNo(file, i - 1).isDst /\ ~TypeNo(file, i).isDst
                /\ TypeNo(file, i - 1).gmtOffset = TypeNo(file, i).gmtOffset + SecondsPerHour
          /\ i + 1 \in DOMAIN file.times =>
               /\ file.times[i] + SecondsPerHour <= file.times[i + 1]
               /\ file.times[i] + TypeNo(file, i - 1).gmtOffset <= LocalOf(file, i + 1)
      BY <2>1, <3>1 DEF HourAhead
    <3>4. i + 1 \in 1 .. n => g[i + 1] = LocalOf(file, i + 1)
      BY <2>5
    <3>5. QED
      BY <1>2, <2>2, <2>3, <3>2, <3>3, <3>4
  <2>9. PICK r \in 0 .. n : LastTill(f, n, x, r) /\ FindLocaltime(zone, x, TRUE) = TypeNo(file, r)
    BY <1>1, <1>5, <2>7, FindsByKey
  <2>10. r \in 0 .. n /\ \A i \in 1 .. n : f[i] <= x <=> i <= r
    BY <2>9 DEF LastTill
  <2>11. PICK l \in Int : l = x + off[r]
    BY <2>10
  <2>12. PICK q \in 0 .. n : LastTill(g, n, l, q) /\ FindLocaltime(zone, l, FALSE) = TypeNo(file, q)
    BY <1>1, <1>5, <2>7, FindsByKey, ZenonT(60)
  <2>13. q \in 0 .. n /\ \A i \in 1 .. n : g[i] <= l <=> i <= q
    BY <2>12 DEF LastTill
  <2>14. r <= q
    <3>1. CASE r >= 1
      <4>1. r \in 1 .. n /\ f[r] <= x /\ f[r] \in Int /\ off[r] \in Int
        BY <2>10, <3>1
      <4>2. g[r] <= l
        BY <2>6, <2>11, <4>1
      <4>3. QED
        BY <2>13, <4>1, <4>2
    <3>2. QED
      BY <2>10, <2>13, <3>1
  <2>15. q <= r + 1
    <3>1. CASE r + 2 <= n
      <4>1. PICK i \in 1 .. n : i = r + 1 /\ i - 1 = r /\ i + 1 = r + 2 /\ i + 1 \in 1 .. n
        BY <2>10, <3>1
      <4>2. ~(f[i] <= x) /\ f[i] \in Int /\ off[r] \in Int
        BY <2>10, <4>1
      <4>3. f[i] + off[r] <= g[i + 1] /\ g[i + 1] \in Int
        BY <2>6, <2>8, <4>1
      <4>4. ~(g[i + 1] <= l)
        BY <2>11, <4>2, <4>3, SMTT(30)
      <4>5. ~(r + 2 <= q)
        BY <2>13, <4>1, <4>4
      <4>6. QED
        BY <2>10, <2>13, <4>5
    <3>2. QED
      BY <2>10, <2>13, <3>1
  <2>16. TypeNo(file, r) \in TimeTypes /\ TypeNo(file, q) \in TimeTypes
    BY <1>3, <2>10, <2>13
  <2>17. PICK type \in TimeTypes : type = TypeNo(file, r) /\ type.gmtOffset = off[r]
    BY <2>4, <2>10, <2>16
  <2>18. CASE q = r
    BY <2>9, <2>11, <2>12, <2>17, <2>18, ReturnsBySame
  <2>19. CASE q = r + 1
    <3>1. PICK i \in 1 .. n : i = q /\ i - 1 = r /\ i = r + 1
      BY <2>10, <2>13, <2>19
    <3>2. PICK other \in TimeTypes : other = TypeNo(file, q) /\ other.gmtOffset = off[i]
      BY <2>4, <2>13, <2>16, <3>1
    <3>3. ~(f[i] <= x) /\ g[i] <= l /\ f[i] \in Int /\ off[r] \in Int /\ off[i] \in Int
      BY <2>10, <2>13, <3>1
    <3>4. f[i] + off[i] <= x + off[r]
      BY <2>6, <2>11, <3>3
    <3>5. off[i] < off[r]
      BY <3>3, <3>4
    <3>6. type.isDst /\ ~other.isDst /\ off[r] = off[i] + h
      <4>1. \/ off[r] <= off[i]
            \/ TypeNo(file, r).isDst /\ ~TypeNo(file, i).isDst /\ off[r] = off[i] + h
        BY <2>8, <3>1
      <4>2. ~(off[r] <= off[i])
        BY <3>3, <3>5
      <4>3. QED
        BY <2>17, <3>1, <3>2, <4>1, <4>2, Zenon
    <3>7. PICK y \in Int : y = x + h
      BY <2>2
    <3>8. f[i] <= y
      BY <3>3, <3>4, <3>6, <3>7, SMTT(30)
    <3>9. PICK p \in 0 .. n : LastTill(f, n, y, p) /\ FindLocaltime(zone, y, TRUE) = TypeNo(file, p)
      BY <1>1, <1>5, <2>7, FindsByKey, SMTT(30)
    <3>10. p \in 0 .. n /\ \A j \in 1 .. n : f[j] <= y <=> j <= p
      BY <3>9 DEF LastTill
    <3>11. i <= p
      BY <3>8, <3>10
    <3>12. p <= i
      <4>1. CASE i + 1 <= n
        <5>1. i + 1 \in 1 .. n
          BY <4>1
        <5>2. f[i] + h <= f[i + 1] /\ f[i + 1] \in Int
          BY <2>8, <5>1
        <5>3. ~(f[i + 1] <= y)
          BY <2>2, <3>3, <3>7, <5>2, SMTT(30)
        <5>4. ~(i + 1 <= p)
          BY <3>10, <5>1, <5>3
        <5>5. QED
          BY <3>10, <5>4
      <4>2. QED
        BY <3>10, <4>1
    <3>13. FindLocaltime(zone, y, TRUE) = other
      <4>1. p = q
        BY <3>1, <3>10, <3>11, <3>12
      <4>2. QED
        BY <3>2, <3>9, <4>1, Zenon
    <3>14. FindLocaltime(zone, x, TRUE) = type /\ FindLocaltime(zone, x + type.gmtOffset, FALSE) = other
      BY <2>9, <2>11, <2>12, <2>17, <3>2
    <3>15. FindLocaltime(zone, x + SecondsPerHour, TRUE) = other
      BY <2>2, <3>7, <3>13
    <3>16. type.gmtOffset = other.gmtOffset + SecondsPerHour
      BY <2>2, <2>17, <3>2, <3>6
    <3>17. QED
      BY <3>6, <3>14, <3>15, <3>16, ReturnsByHour
  <2>20. QED
    BY <2>10, <2>13, <2>14, <2>15, <2>18, <2>19
<1>6. QED
  BY <1>4, <1>5

\* The zone that is in use.
ZoneInv == walk \in Walks /\ data = ReadTimeZoneFile(walk.file)

(* It stays the same.                                                      *)
LEMMA ZoneInvariant == LogSpec => []ZoneInv
<1>1. LogInit => ZoneInv
  BY DEF LogInit, ZoneInit, ZoneInv
<1>2. ZoneInv /\ [LogNext]_allVars => ZoneInv'
  <2>1. [LogNext]_allVars => UNCHANGED <<walk, data>>
    BY DEF LogNext, PassDay, NextDay, SecondsPass, SetTimeZone, SetLogLevel, LogLine, Stream, Destroy, Fork,
           allVars, zoneVars
  <2>2. QED
    BY <2>1 DEF ZoneInv
<1>3. QED
  BY <1>1, <1>2, PTL DEF LogSpec

(* In every zone where summer time is an hour ahead, and at every second   *)
(* of every year: a local time leads back to its second, also in the hour  *)
(* that comes twice, and has the offset in force, from the second of a     *)
(* change on, when the zone's file was read to its end (TimeZone.cc:       *)
(* 217-332).                                                               *)
THEOREM LocalTimesReturn ==
  ASSUME \A w \in Walks : SummerZone(w.file)
  PROVE  LogSpec => []LocalTimeReturns
<1>1. ZoneInv /\ CalendarInv => LocalTimeReturns
  <2> SUFFICES ASSUME ZoneInv, CalendarInv
               PROVE  LocalTimeReturns
    OBVIOUS
  <2>1. PICK file : file = walk.file /\ SummerZone(file) /\ ZoneFile(file) /\ data = ReadTimeZoneFile(file)
    BY DEF ZoneInv, SummerZone
  <2>2. ASSUME NEW s \in SecondsOfDay, NEW x, x = day * kSecondsPerDay + s
        PROVE  /\ ReadWhole(walk.file) =>
                     /\ FromUtcTime(ToLocalTime(data, x)) = x + TypeAt(walk.file, x).gmtOffset
                     /\ ToLocalTime(data, x).tm_isdst = TypeAt(walk.file, x).isDst
               /\ FromLocalTime(data, ToLocalTime(data, x)) = x
    <3>1. x \in Int
      <4>1. PICK K \in Nat \ {0} : K = kSecondsPerDay
        BY Lengths
      <4>2. PICK d \in Int : d = day
        BY DEF CalendarInv
      <4>3. s \in Int /\ d * K \in Int
        BY <4>1, Z3 DEF SecondsOfDay
      <4>4. QED
        BY <2>2, <4>1, <4>2, <4>3
    <3>2. PICK tm : tm = ToLocalTime(data, x)
      OBVIOUS
    <3>3. ASSUME ReadWhole(file)
          PROVE  FromUtcTime(tm) = x + TypeAt(file, x).gmtOffset /\ tm.tm_isdst = TypeAt(file, x).isDst
      <4>1. PICK type \in TimeTypes : type = TypeAt(file, x) /\ FindLocaltime(data, x, TRUE) = type
        BY <2>1, <3>1, <3>3, FindsType
      <4>2. FromUtcTime(tm) = x + type.gmtOffset /\ tm.tm_isdst = type.isDst
        BY <3>1, <4>1, <3>2, LocalTimeIs, Zenon
      <4>3. QED
        BY <4>1, <4>2, Zenon
    <3>4. FromLocalTime(data, tm) = x
      BY <2>1, <3>1, <3>2, LocalReturns
    <3>5. QED
      BY <2>1, <3>2, <3>3, <3>4
  <2>3. QED
    BY <2>2, Zenon DEF LocalTimeReturns
<1>2. QED
  BY ZoneInvariant, CalendarInvariant, <1>1, PTL

-----------------------------------------------------------------------------
(* Stamps *)

(* What snprintf makes of a broken down time can be put together again.    *)
LEMMA StampIs ==
  ASSUME NEW x \in Int, NEW tm, BrokenDown(tm, x)
  PROVE  FromUtcTime(Stamp(tm)) = x
<1>1. BrokenDown(Stamp(tm), x)
  BY DEF BrokenDown, Stamp
<1>2. QED
  BY <1>1, PutTogether

\* The offset from UTC that a line is to have.
Offset(line) == IF line.utc THEN 0 ELSE TypeAt(walk.file, line.seconds).gmtOffset

LineFields == {"thread", "seconds", "zoneSet", "stamp", "utc", "tid", "level", "rest", "buffer"}

\* What StampsTrue says of a line.
LineIs(line) ==
    /\ DOMAIN line = LineFields
    /\ line.tid = line.thread
    /\ line.zoneSet = line.seconds \/ FromUtcTime(line.stamp) = line.seconds + Offset(line)

\* The clock and the zones; the code takes a thread's last second as 0 at first, which is
\* why a day with threads that log is none of the epoch.
ClockInv ==
    /\ walk \in Walks /\ data = ReadTimeZoneFile(walk.file)
    /\ day \in Int /\ second \in SecondsOfDay
    /\ logTimeZone \in BOOLEAN
    /\ zoneSet # None => zoneSet \in Int /\ zoneSet <= Now

\* The time kept by a thread is that of its last second, in the zone that is set: unless the
\* zone was set in that second or later.
CacheIs(t) ==
    lastSecond[t] # 0 =>
        /\ lastSecond[t] \in Int /\ lastSecond[t] <= Now
        /\ \/ zoneSet # None /\ lastSecond[t] <= zoneSet
           \/ FromUtcTime(time[t]) =
                lastSecond[t] + IF logTimeZone THEN TypeAt(walk.file, lastSecond[t]).gmtOffset ELSE 0

\* The number kept by a thread is its own, in this process.
TidInv ==
    /\ alive \subseteq walk.loggers
    /\ \A t \in alive : cachedTid[t] \in {NoTid, Tid(t)}

LineInv ==
    /\ DOMAIN cachedTid = Loggers /\ DOMAIN lastSecond = Loggers
    /\ DOMAIN time = Loggers /\ DOMAIN logger = Loggers
    /\ \A t \in Loggers : CacheIs(t) /\ (logger[t] # None => LineIs(logger[t]))
    /\ output # None => LineIs(output)

StampInv == ClockInv /\ TidInv /\ LineInv

\* Threads log after the epoch, with a zone whose file is in order and was read to its end.
ZonesInOrder ==
    /\ None \notin Int
    /\ \A w \in Walks : w.loggers # {} => w.day \in Nat \ {0} /\ ZoneFile(w.file) /\ ReadWhole(w.file)

(* The clock shows a number of seconds.                                    *)
LEMMA NowIs ==
  ASSUME day \in Int, second \in SecondsOfDay
  PROVE  Now \in Int /\ (day > 0 => Now > 0)
<1>1. PICK K \in Nat \ {0} : K = kSecondsPerDay
  BY Lengths
<1>2. second \in Int /\ second >= 0
  BY <1>1 DEF SecondsOfDay
<1>3. day * K \in Int /\ (day > 0 => day * K > 0)
  BY <1>1, Z3
<1>4. QED
  BY <1>1, <1>2, <1>3 DEF Now

(* A walk begins with nothing logged.                                      *)
LEMMA StampsBegin ==
  ASSUME ZonesInOrder, LogInit
  PROVE  StampInv
<1>1. walk \in Walks /\ data = ReadTimeZoneFile(walk.file) /\ day \in Int
  BY CalendarBegins DEF LogInit, ZoneInit, CalendarInv
<1>2. second \in SecondsOfDay
  BY Lengths DEF LogInit, SecondsOfDay
<1>3. ClockInv
  BY <1>1, <1>2 DEF LogInit, ClockInv
<1>4. walk.loggers \subseteq Loggers
  BY <1>1, LoggerAssumption
<1>5. TidInv
  BY <1>4 DEF LogInit, TidInv
<1>6. LineInv
  BY DEF LogInit, LineInv, CacheIs
<1>7. QED
  BY <1>3, <1>5, <1>6 DEF StampInv

(* A line that is begun has the time of its second, also when that was     *)
(* broken down for an earlier line.                                        *)
LEMMA FormattedTimeIs ==
  ASSUME ZonesInOrder, StampInv, NEW t \in Loggers, NEW m, LogLine(t, m)
  PROVE  /\ Now \in Int /\ Now # 0
         /\ \/ zoneSet = Now
            \/ FromUtcTime(FormattedTime(t)) =
                 Now + IF logTimeZone THEN TypeAt(walk.file, Now).gmtOffset ELSE 0
<1>1. walk \in Walks /\ data = ReadTimeZoneFile(walk.file) /\ logTimeZone \in BOOLEAN
  BY DEF StampInv, ClockInv
<1>2. walk.loggers # {} /\ day = walk.day
  BY DEF StampInv, TidInv, LogLine
<1>3. day \in Nat \ {0} /\ ZoneFile(walk.file) /\ ReadWhole(walk.file)
  BY <1>1, <1>2 DEF ZonesInOrder
<1>4. Now \in Int /\ Now # 0
  BY <1>3, NowIs DEF StampInv, ClockInv
<1>5. CASE Fresh(t) /\ ~logTimeZone
  <2>1. FromUtcTime(Stamp(ToUtcTime(Now))) = Now
    <3>1. BrokenDown(ToUtcTime(Now), Now)
      BY DEF BrokenDown
    <3>2. QED
      BY <1>4, <3>1, StampIs
  <2>2. FormattedTime(t) = Stamp(ToUtcTime(Now))
    BY <1>5 DEF FormattedTime
  <2>3. Now + 0 = Now
    BY <1>4
  <2>4. QED
    BY <1>4, <1>5, <2>1, <2>2, <2>3, Zenon
<1>6. CASE Fresh(t) /\ logTimeZone
  <2>1. PICK type \in TimeTypes :
          type = TypeAt(walk.file, Now) /\ type = FindLocaltime(data, Now, TRUE)
    BY <1>1, <1>3, <1>4, FindsType
  <2>2. PICK x \in Int : x = Now + type.gmtOffset
    BY <1>4 DEF TimeTypes
  <2>3. PICK tm : tm = ToLocalTime(data, Now)
    OBVIOUS
  <2>4. BrokenDown(tm, x)
    BY <1>4, <2>1, <2>2, <2>3, LocalTimeIs, Zenon
  <2>5. FromUtcTime(Stamp(tm)) = x
    BY <2>4, StampIs, Zenon
  <2>6. FormattedTime(t) = Stamp(tm)
    BY <1>6, <2>3 DEF FormattedTime
  <2>7. QED
    BY <1>4, <1>6, <2>1, <2>2, <2>5, <2>6, Zenon
<1>7. CASE ~Fresh(t)
  <2>1. lastSecond[t] = Now /\ FormattedTime(t) = time[t]
    BY <1>7 DEF Fresh, FormattedTime
  <2>2. CacheIs(t)
    BY DEF StampInv, LineInv
  <2>3. CASE zoneSet # None /\ Now <= zoneSet
    BY <1>4, <2>3 DEF StampInv, ClockInv
  <2>4. CASE ~(zoneSet # None /\ Now <= zoneSet)
    BY <1>4, <2>1, <2>2, <2>4, Zenon DEF CacheIs
  <2>5. QED
    BY <1>4, <2>3, <2>4
<1>8. QED
  BY <1>1, <1>5, <1>6, <1>7

(* A line is begun.                                                        *)
LEMMA StampsLogLine ==
  ASSUME ZonesInOrder, StampInv, NEW t \in Loggers, NEW m, LogLine(t, m)
  PROVE  StampInv'
<1> USE DEF StampInv
<1>1. /\ Now \in Int /\ Now # 0
      /\ \/ zoneSet = Now
         \/ FromUtcTime(FormattedTime(t)) = Now + IF logTimeZone THEN TypeAt(walk.file, Now).gmtOffset ELSE 0
  BY FormattedTimeIs
<1>2. /\ UNCHANGED <<walk, data, date, day, yday, second, logTimeZone, zoneSet, logLevel, settings, pid, alive>>
      /\ t \in alive /\ output' = output
  BY DEF LogLine, zoneVars, settingVars
<1>3. Now' = Now /\ \A u : Tid(u)' = Tid(u)
  BY <1>2 DEF Now, Tid
<1>4. ClockInv'
  BY <1>2, <1>3 DEF ClockInv
<1>5. cachedTid' = [cachedTid EXCEPT ![t] = CurrentTid(t)]
  BY DEF LogLine
<1>6. CurrentTid(t) = Tid(t)
  BY <1>2 DEF TidInv, CurrentTid
<1>7. TidInv'
  BY <1>2, <1>3, <1>5, <1>6 DEF TidInv, LineInv
<1>8. /\ lastSecond' = [lastSecond EXCEPT ![t] = Now]
      /\ time' = [time EXCEPT ![t] = FormattedTime(t)]
  BY DEF LogLine
<1>9. PICK line : /\ logger' = [logger EXCEPT ![t] = line]
                  /\ DOMAIN line = LineFields
                  /\ line.thread = Tid(t) /\ line.seconds = Now /\ line.zoneSet = zoneSet
                  /\ line.stamp = FormattedTime(t) /\ line.utc = ~logTimeZone /\ line.tid = CurrentTid(t)
  <2> DEFINE line == [thread |-> Tid(t), seconds |-> Now, zoneSet |-> zoneSet,
                      stamp |-> FormattedTime(t), utc |-> ~logTimeZone, tid |-> CurrentTid(t),
                      level |-> m.level, rest |-> m.pieces, buffer |-> Header(m.level, m.errno)]
  <2>1. logger' = [logger EXCEPT ![t] = line]
    BY DEF LogLine
  <2>2. /\ DOMAIN line = LineFields
        /\ line.thread = Tid(t) /\ line.seconds = Now /\ line.zoneSet = zoneSet
        /\ line.stamp = FormattedTime(t) /\ line.utc = ~logTimeZone /\ line.tid = CurrentTid(t)
    BY DEF LineFields
  <2> HIDE DEF line
  <2>3. QED
    BY <2>1, <2>2, Zenon
<1>10. LineIs(line)
  BY <1>1, <1>6, <1>9 DEF LineIs, Offset
<1>11. \A l : LineIs(l)' <=> LineIs(l)
  BY <1>2 DEF LineIs, Offset
<1>12. ASSUME NEW u \in Loggers PROVE (CacheIs(u) /\ (logger[u] # None => LineIs(logger[u])))'
  <2>1. CASE u = t
    <3>1. lastSecond'[u] = Now /\ time'[u] = FormattedTime(t) /\ logger'[u] = line
      BY <2>1, <1>8, <1>9 DEF LineInv
    <3>2. CacheIs(u)'
      <4>1. zoneSet = Now => zoneSet # None
        BY <1>1 DEF ZonesInOrder
      <4>2. QED
        BY <3>1, <4>1, <1>1, <1>2, <1>3 DEF CacheIs, ClockInv
    <3>3. QED
      BY <3>1, <3>2, <1>10, <1>11
  <2>2. CASE u # t
    <3>1. lastSecond'[u] = lastSecond[u] /\ time'[u] = time[u] /\ logger'[u] = logger[u]
      BY <2>2, <1>8, <1>9 DEF LineInv
    <3>2. CacheIs(u)' /\ (logger'[u] # None => LineIs(logger'[u]))
      BY <3>1, <1>2, <1>3 DEF LineInv, CacheIs
    <3>3. QED
      BY <3>1, <3>2, <1>11
  <2>3. QED
    BY <2>1, <2>2
<1>13. LineInv'
  BY <1>2, <1>5, <1>8, <1>9, <1>11, <1>12 DEF LineInv
<1>14. QED
  BY <1>4, <1>7, <1>13

(* A line goes on, or is given to g_output.                                *)
LEMMA StampsLine ==
  ASSUME StampInv, NEW t \in Loggers, Stream(t) \/ Destroy(t)
  PROVE  StampInv'
<1> USE DEF StampInv
<1>1. UNCHANGED <<walk, data, date, day, yday, second, logTimeZone, zoneSet, logLevel, settings, pid, alive,
                  cachedTid, lastSecond, time>>
  BY DEF Stream, Destroy, zoneVars, settingVars, cacheVars
<1>2. Now' = Now /\ (\A u : Tid(u)' = Tid(u)) /\ (\A u : CacheIs(u)' <=> CacheIs(u))
  BY <1>1 DEF Now, Tid, CacheIs
<1>3. ClockInv' /\ TidInv'
  BY <1>1, <1>2 DEF ClockInv, TidInv
<1>4. \A l : LineIs(l)' <=> LineIs(l)
  BY <1>1 DEF LineIs, Offset
<1>5. LineIs(logger[t])
  BY DEF Stream, Destroy, LineInv
<1>6. CASE Stream(t)
  <2>1. PICK piece : logger' = [logger EXCEPT ![t].buffer = @ ## piece, ![t].rest = Tail(@)]
    BY <1>6 DEF Stream
  <2>2. PICK b, r : logger' = [logger EXCEPT ![t] = [[logger[t] EXCEPT !.buffer = b] EXCEPT !.rest = r]]
    BY <2>1
  <2>3. PICK line : line = [[logger[t] EXCEPT !.buffer = b] EXCEPT !.rest = r]
    OBVIOUS
  <2>4. LineIs(line)
    BY <1>5, <2>3 DEF LineIs, Offset, LineFields
  <2>5. \A u \in Loggers : logger'[u] = line \/ logger'[u] = logger[u]
    BY <2>2, <2>3 DEF LineInv
  <2>6. DOMAIN logger' = Loggers /\ output' = output
    BY <1>6, <2>2 DEF LineInv, Stream
  <2>7. QED
    BY <1>1, <1>2, <1>3, <1>4, <2>4, <2>5, <2>6 DEF LineInv
<1>7. CASE Destroy(t)
  <2>1. /\ output' = [logger[t] EXCEPT !.buffer = Finished(@)]
        /\ logger' = [logger EXCEPT ![t] = None]
    BY <1>7 DEF Destroy
  <2>2. LineIs(output')
    BY <1>5, <2>1 DEF LineIs, Offset, LineFields
  <2>3. DOMAIN logger' = Loggers /\ \A u \in Loggers : logger'[u] = None \/ logger'[u] = logger[u]
    BY <2>1 DEF LineInv
  <2>4. QED
    BY <1>1, <1>2, <1>3, <1>4, <2>2, <2>3 DEF LineInv
<1>8. QED
  BY <1>6, <1>7

(* The settings: a time kept from before is that of the other zone in no   *)
(* second after that of SetTimeZone; the child of a fork has one thread,   *)
(* which has a new number.                                                 *)
LEMMA StampsSettings ==
  ASSUME ZonesInOrder, StampInv, SetTimeZone \/ SetLogLevel \/ \E t \in Loggers : Fork(t)
  PROVE  StampInv'
<1> USE DEF StampInv
<1>1. /\ UNCHANGED <<walk, data, date, day, yday, second, lastSecond, time, output>>
      /\ UNCHANGED <<logTimeZone, zoneSet>> \/ SetTimeZone
      /\ UNCHANGED <<pid, alive, cachedTid, logger>> \/ \E t \in Loggers : Fork(t)
  BY DEF SetTimeZone, SetLogLevel, Fork, zoneVars, cacheVars
<1>2. Now' = Now /\ Now \in Int
  BY <1>1, NowIs DEF Now, ClockInv
<1>3. \A l : LineIs(l)' <=> LineIs(l)
  BY <1>1 DEF LineIs, Offset
<1>4. ClockInv' /\ \A u \in Loggers : CacheIs(u)'
  <2>1. CASE UNCHANGED <<logTimeZone, zoneSet>>
    BY <1>1, <1>2, <2>1 DEF ClockInv, LineInv, CacheIs
  <2>2. CASE SetTimeZone
    <3>1. logTimeZone' \in BOOLEAN /\ zoneSet' = Now
      BY <2>2 DEF SetTimeZone
    <3>2. Now # None
      BY <1>2 DEF ZonesInOrder
    <3>3. ClockInv'
      BY <1>1, <1>2, <3>1 DEF ClockInv
    <3>4. ASSUME NEW u \in Loggers PROVE CacheIs(u)'
      BY <1>1, <1>2, <3>1, <3>2 DEF LineInv, CacheIs
    <3>5. QED
      BY <3>3, <3>4
  <2>3. QED
    BY <1>1, <2>1, <2>2
<1>5. TidInv' /\ LineInv'
  <2>1. CASE UNCHANGED <<pid, alive, cachedTid, logger>>
    BY <1>1, <1>3, <1>4, <2>1 DEF TidInv, LineInv, Tid
  <2>2. ASSUME NEW t \in Loggers, Fork(t)
        PROVE  TidInv' /\ LineInv'
    <3>1. /\ t \in alive /\ alive' = {t} /\ pid' = pid + 1
          /\ cachedTid' = [cachedTid EXCEPT ![t] = AfterFork(t)]
          /\ logger' = [u \in Loggers |-> None]
      BY <2>2 DEF Fork
    <3>2. cachedTid'[t] = Tid(t)' /\ DOMAIN cachedTid' = Loggers
      BY <3>1 DEF LineInv, AfterFork, Tid
    <3>3. TidInv'
      BY <1>1, <3>1, <3>2 DEF TidInv
    <3>4. LineInv'
      BY <1>1, <1>3, <1>4, <3>1, <3>2 DEF LineInv
    <3>5. QED
      BY <3>3, <3>4
  <2>3. QED
    BY <1>1, <2>1, <2>2
<1>6. QED
  BY <1>4, <1>5

(* The clock goes forward.                                                 *)
LEMMA StampsTime ==
  ASSUME StampInv, SecondsPass \/ PassDay
  PROVE  StampInv'
<1> USE DEF StampInv
<1>1. UNCHANGED <<walk, data, logTimeZone, zoneSet, pid, alive, cachedTid, lastSecond, time, logger, output>>
  BY DEF SecondsPass, PassDay, NextDay, zoneVars, settingVars, cacheVars, logVars
<1>2. day' \in Int /\ second' \in SecondsOfDay /\ Now \in Int /\ Now' \in Int /\ Now <= Now'
  <2>1. PICK d \in Int, s \in SecondsOfDay : d = day /\ s = second
    BY DEF ClockInv
  <2>2. PICK K \in Nat \ {0} : K = kSecondsPerDay
    BY Lengths
  <2>3. s \in Int /\ d * K \in Int /\ (d + 1) * K = d * K + K
    <3>1. s \in Int
      BY <2>2 DEF SecondsOfDay
    <3>2. QED
      BY <3>1, Z3
  <2>4. Now = d * K + s
    BY <2>1, <2>2 DEF Now
  <2>5. CASE SecondsPass
    <3>1. second' \in walk.seconds /\ second' > second /\ day' = day
      BY <2>5 DEF SecondsPass, zoneVars
    <3>2. second' \in SecondsOfDay
      BY <3>1, LoggerAssumption DEF ClockInv, SecondsOfDay
    <3>3. PICK r \in Int : r = second' /\ r > s
      BY <2>1, <2>2, <3>1, <3>2 DEF SecondsOfDay
    <3>4. Now' = d * K + r
      BY <2>1, <2>2, <3>1, <3>3 DEF Now
    <3>5. QED
      BY <2>1, <2>3, <2>4, <3>1, <3>2, <3>3, <3>4
  <2>6. CASE PassDay
    <3>1. day' = day + 1 /\ second' = second
      BY <2>6 DEF PassDay, NextDay, logVars
    <3>2. Now' = (d + 1) * K + s
      BY <2>1, <2>2, <3>1 DEF Now
    <3>3. QED
      BY <2>1, <2>2, <2>3, <2>4, <3>1, <3>2
  <2>7. QED
    BY <2>5, <2>6
<1>3. ClockInv'
  BY <1>1, <1>2 DEF ClockInv
<1>4. TidInv'
  BY <1>1 DEF TidInv, Tid
<1>5. \A u \in Loggers : CacheIs(u)'
  BY <1>1, <1>2 DEF LineInv, CacheIs
<1>6. \A l : LineIs(l)' <=> LineIs(l)
  BY <1>1 DEF LineIs, Offset
<1>7. LineInv'
  BY <1>1, <1>5, <1>6 DEF LineInv
<1>8. QED
  BY <1>3, <1>4, <1>7

(* A step where nothing changes.                                           *)
LEMMA StampsStay ==
  ASSUME StampInv, UNCHANGED allVars
  PROVE  StampInv'
<1>1. UNCHANGED <<walk, data, day, second, logTimeZone, zoneSet, pid, alive, cachedTid, lastSecond, time,
                  logger, output>>
  BY DEF allVars, zoneVars, logVars, settingVars, cacheVars
<1>2. Now' = Now /\ (\A u : Tid(u)' = Tid(u)) /\ (\A u : CacheIs(u)' <=> CacheIs(u))
  BY <1>1 DEF Now, Tid, CacheIs
<1>3. \A l : LineIs(l)' <=> LineIs(l)
  BY <1>1 DEF LineIs, Offset
<1>4. QED
  BY <1>1, <1>2, <1>3 DEF StampInv, ClockInv, TidInv, LineInv

(* Whatever the zone, the seconds and the order in which threads log, set  *)
(* the zone and fork: a line has the number of its thread and the time of  *)
(* its second (Logging.cc:65-93 and 110-171).                              *)
THEOREM StampsAreTrue ==
  ASSUME ZonesInOrder
  PROVE  LogSpec => []StampsTrue
<1>1. LogInit => StampInv
  BY StampsBegin
<1>2. StampInv /\ [LogNext]_allVars => StampInv'
  <2> SUFFICES ASSUME StampInv, [LogNext]_allVars
               PROVE  StampInv'
    OBVIOUS
  <2>1. CASE UNCHANGED allVars
    BY <2>1, StampsStay
  <2>2. CASE PassDay \/ SecondsPass
    BY <2>2, StampsTime
  <2>3. CASE SetTimeZone \/ SetLogLevel
    BY <2>3, StampsSettings
  <2>4. ASSUME NEW t \in Loggers, NEW m, LogLine(t, m)
        PROVE  StampInv'
    BY <2>4, StampsLogLine
  <2>5. ASSUME NEW t \in Loggers, Stream(t) \/ Destroy(t)
        PROVE  StampInv'
    BY <2>5, StampsLine
  <2>6. ASSUME NEW t \in Loggers, Fork(t)
        PROVE  StampInv'
    BY <2>6, StampsSettings
  <2>7. QED
    BY <2>1, <2>2, <2>3, <2>4, <2>5, <2>6 DEF LogNext
<1>3. StampInv => StampsTrue
  BY DEF StampInv, LineInv, LineIs, Offset, StampsTrue
<1>4. QED
  BY <1>1, <1>2, <1>3, PTL DEF LogSpec

-----------------------------------------------------------------------------
(* The room of a line *)

LinesLogged == UNION {w.messages : w \in Walks}
PiecesLogged == UNION {UNION ToSet(m.pieces) : m \in LinesLogged}

\* A number has less than kMaxNumericSize characters, so that the NUL behind it has room too.
IsPiece(piece) == piece.len \in Nat /\ (IsNumeric(piece) => piece.len < kMaxNumericSize)

\* What is logged, and that a line without text has room: the static_asserts of LogStream.cc
\* and the sizes of Logging.cc.
PiecesAreShort ==
    /\ \A m \in LinesLogged : /\ m.pieces \in Seq(SUBSET PiecesLogged)
                              /\ m.errno # 0 => IsPiece(Integer(m.errno))
    /\ \A piece \in PiecesLogged : IsPiece(piece)
    /\ IsPiece(Integer(SourceLine))
    /\ {kFormattedTime, kMicroseconds, kTidString, kLevelName, kStrerror, kBasename} \subseteq Nat
    /\ kFormattedTime + (kMicroseconds + 1) + kTidString + kLevelName < kSmallBuffer

IsSeq(s) == s \in Seq(ToSet(s))

HasRoom(buffer) ==
    /\ IsSeq(buffer.kept)
    /\ buffer.length \in 0 .. kSmallBuffer - 1
    /\ buffer.touched \in 0 .. kSmallBuffer

\* One buffer is the other with something behind it.
GrowsTo(buffer, other) == HasRoom(other) /\ KeptPieces(buffer) \subseteq KeptPieces(other)

\* What is in a sequence of pieces.
WhatIn(s) == {s[i].what : i \in DOMAIN s}

(* A sequence with one more element.                                       *)
LEMMA OneMore ==
  ASSUME NEW s, IsSeq(s), NEW e
  PROVE  IsSeq(Append(s, e)) /\ WhatIn(Append(s, e)) = WhatIn(s) \cup {e.what}
<1> DEFINE A == ToSet(s) \cup {e}
           r == Append(s, e)
<1>1. s \in Seq(A) /\ e \in A
  <2>1. s \in Seq(ToSet(s)) /\ ToSet(s) \subseteq A
    BY DEF IsSeq
  <2> HIDE DEF A
  <2>2. s \in Seq(A)
    BY <2>1
  <2>3. QED
    BY <2>2 DEF A
<1> HIDE DEF A
<1>2. PICK n \in Nat : n = Len(s) /\ DOMAIN s = 1 .. n
  BY <1>1
<1>3. /\ r \in Seq(A) /\ DOMAIN r = 1 .. n + 1
      /\ \A i \in 1 .. n : r[i] = s[i]
      /\ r[n + 1] = e
  BY <1>1, <1>2
<1> HIDE DEF r
<1>4. IsSeq(r)
  <2>1. r \in [1 .. Len(r) -> ToSet(r)] /\ Len(r) \in Nat
    BY <1>3 DEF ToSet
  <2>2. QED
    BY <2>1 DEF IsSeq
<1>5. WhatIn(r) = WhatIn(s) \cup {e.what}
  <2>1. 1 .. n + 1 = (1 .. n) \cup {n + 1}
    OBVIOUS
  <2>2. QED
    BY <1>2, <1>3, <2>1 DEF WhatIn
<1>6. QED
  BY <1>4, <1>5 DEF r

(* FixedBuffer takes a piece or leaves it out, and neither writes behind   *)
(* its end; of a piece that is no number it takes what is shorter than the *)
(* room.                                                                   *)
LEMMA PieceFits ==
  ASSUME kSmallBuffer \in Nat, NEW b, HasRoom(b), NEW p, IsPiece(p)
  PROVE  /\ GrowsTo(b, b ## p)
         /\ (b ## p).length <= b.length + p.len
         /\ ~IsNumeric(p) => p.what \in KeptPieces(b ## p) \/ ((b ## p).length = b.length /\ kSmallBuffer - b.length <= p.len)
<1>1. kMaxNumericSize \in Nat
  BY StreamAssumption
<1>2. /\ IsSeq(b.kept) /\ b.length \in Nat /\ b.length <= kSmallBuffer - 1
      /\ b.touched \in Nat /\ b.touched <= kSmallBuffer /\ p.len \in Nat
  BY DEF HasRoom, IsPiece
<1>3. CASE ~Fits(b, p)
  <2>1. b ## p = b
    BY <1>3 DEF ##, Appended
  <2>2. ~IsNumeric(p) => kSmallBuffer - b.length <= p.len
    BY <1>2, <1>3 DEF Fits, Avail
  <2>3. QED
    BY <1>2, <2>1, <2>2 DEF GrowsTo
<1>4. CASE Fits(b, p)
  <2>1. PICK nul \in {0, 1} : nul = IF IsNumeric(p) THEN 1 ELSE 0
    OBVIOUS
  <2>2. b ## p = Written(b, p, nul)
    BY <1>4, <2>1 DEF ##, Appended
  <2>3. b.length + p.len + nul <= kSmallBuffer /\ b.length + p.len <= kSmallBuffer - 1
    <3>1. CASE IsNumeric(p)
      <4>1. kSmallBuffer - b.length >= kMaxNumericSize /\ p.len < kMaxNumericSize /\ nul = 1
        BY <1>4, <2>1, <3>1 DEF Fits, Avail, IsPiece
      <4>2. QED
        BY <1>1, <1>2, <4>1
    <3>2. CASE ~IsNumeric(p)
      <4>1. kSmallBuffer - b.length > p.len /\ nul = 0
        BY <1>4, <2>1, <3>2 DEF Fits, Avail
      <4>2. QED
        BY <1>2, <4>1
    <3>3. QED
      BY <3>1, <3>2
  <2>4. PICK w : /\ w = b ## p /\ w.kept = Append(b.kept, p) /\ w.length = b.length + p.len
                 /\ w.touched = b.length + p.len + nul \/ w.touched = b.touched
    BY <2>2 DEF Written
  <2>5. /\ IsSeq(w.kept)
        /\ KeptPieces(w) = KeptPieces(b) \cup {p.what}
    <3>1. PICK s : s = b.kept /\ IsSeq(s)
      BY <1>2
    <3>2. w.kept = Append(s, p)
      BY <2>4, <3>1
    <3>3. IsSeq(Append(s, p))
      BY <3>1, OneMore, Zenon
    <3>4. WhatIn(Append(s, p)) = WhatIn(s) \cup {p.what}
      BY <3>1, OneMore, Zenon
    <3>5. KeptPieces(w) = WhatIn(w.kept) /\ KeptPieces(b) = WhatIn(b.kept)
      BY DEF KeptPieces, WhatIn
    <3>6. QED
      BY <3>1, <3>2, <3>3, <3>4, <3>5, Zenon
  <2>6. HasRoom(w)
    BY <1>2, <2>3, <2>4, <2>5, SMTT(30) DEF HasRoom
  <2>7. QED
    BY <1>2, <2>4, <2>5, <2>6 DEF GrowsTo
<1>5. QED
  BY <1>3, <1>4

\* The parts of a line that are always there.
HeaderPieces == {"time", "microseconds", "tid", "level"}

(* The header is there, and a line that goes on keeps what it has.         *)
LEMMA HeaderFits ==
  ASSUME PiecesAreShort, NEW level, NEW errno, errno # 0 => IsPiece(Integer(errno))
  PROVE  HasRoom(Header(level, errno)) /\ HeaderPieces \subseteq KeptPieces(Header(level, errno))
<1>1. /\ kFormattedTime \in Nat /\ kMicroseconds \in Nat /\ kTidString \in Nat /\ kLevelName \in Nat
      /\ kStrerror \in Nat /\ kSmallBuffer \in Nat
      /\ kFormattedTime + (kMicroseconds + 1) + kTidString + kLevelName < kSmallBuffer
  BY StreamAssumption DEF PiecesAreShort
<1>2. ASSUME NEW what \in HeaderPieces \cup {"strerror", " (errno=", ") "}, NEW len \in Nat
      PROVE  /\ IsPiece(Text(what, len)) /\ ~IsNumeric(Text(what, len))
             /\ Text(what, len).what = what /\ Text(what, len).len = len
  BY DEF IsPiece, IsNumeric, Text, HeaderPieces
<1>3. PICK k \in Nat : k = kMicroseconds + IF logTimeZone THEN 0 ELSE 1
  BY <1>1
<1>4. k <= kMicroseconds + 1
  BY <1>1, <1>3
<1> DEFINE b0 == EmptyBuffer
           b1 == b0 ## Text("time", kFormattedTime)
           b2 == b1 ## Text("microseconds", k)
           b3 == b2 ## Text("tid", kTidString)
           b4 == b3 ## Text("level", kLevelName)
<1>5. HasRoom(b0) /\ b0.length = 0
  <2>1. <<>> \in Seq(ToSet(<<>>))
    OBVIOUS
  <2>2. QED
    BY <1>1, <2>1 DEF EmptyBuffer, HasRoom, IsSeq
<1>6. /\ GrowsTo(b0, b1) /\ b1.length <= kFormattedTime /\ "time" \in KeptPieces(b1)
  <2>1. PICK p : p = Text("time", kFormattedTime)
    OBVIOUS
  <2>2. IsPiece(p) /\ ~IsNumeric(p) /\ p.what = "time" /\ p.len = kFormattedTime
    BY <1>1, <1>2, <2>1 DEF HeaderPieces
  <2>3. QED
    BY <1>1, <1>5, <2>1, <2>2, PieceFits
<1>7. b1.length \in Nat /\ HasRoom(b1)
  BY <1>6 DEF GrowsTo, HasRoom
<1> HIDE DEF b0, b1
<1>8. /\ GrowsTo(b1, b2) /\ b2.length <= kFormattedTime + (kMicroseconds + 1)
      /\ "microseconds" \in KeptPieces(b2)
  <2>1. PICK p : p = Text("microseconds", k)
    OBVIOUS
  <2>2. IsPiece(p) /\ ~IsNumeric(p) /\ p.what = "microseconds" /\ p.len = k
    BY <1>1, <1>2, <2>1 DEF HeaderPieces
  <2>3. GrowsTo(b1, b2) /\ b2.length <= b1.length + k
        /\ ("microseconds" \in KeptPieces(b2) \/ kSmallBuffer - b1.length <= k)
    BY <1>1, <1>7, <2>1, <2>2, PieceFits
  <2>4. b2.length \in Nat
    BY <2>3 DEF GrowsTo, HasRoom
  <2> HIDE DEF b2
  <2>5. QED
    BY <1>1, <1>4, <1>6, <1>7, <2>3, <2>4
<1>9. b2.length \in Nat /\ HasRoom(b2)
  BY <1>8 DEF GrowsTo, HasRoom
<1> HIDE DEF b2
<1>10. /\ GrowsTo(b2, b3) /\ b3.length <= kFormattedTime + (kMicroseconds + 1) + kTidString
       /\ "tid" \in KeptPieces(b3)
  <2>1. PICK p : p = Text("tid", kTidString)
    OBVIOUS
  <2>2. IsPiece(p) /\ ~IsNumeric(p) /\ p.what = "tid" /\ p.len = kTidString
    BY <1>1, <1>2, <2>1 DEF HeaderPieces
  <2>3. GrowsTo(b2, b3) /\ b3.length <= b2.length + kTidString
        /\ ("tid" \in KeptPieces(b3) \/ kSmallBuffer - b2.length <= kTidString)
    BY <1>1, <1>9, <2>1, <2>2, PieceFits
  <2>4. b3.length \in Nat
    BY <2>3 DEF GrowsTo, HasRoom
  <2> HIDE DEF b3
  <2>5. QED
    BY <1>1, <1>8, <1>9, <2>3, <2>4
<1>11. b3.length \in Nat /\ HasRoom(b3)
  BY <1>10 DEF GrowsTo, HasRoom
<1> HIDE DEF b3
<1>12. GrowsTo(b3, b4) /\ "level" \in KeptPieces(b4)
  <2>1. PICK p : p = Text("level", kLevelName)
    OBVIOUS
  <2>2. IsPiece(p) /\ ~IsNumeric(p) /\ p.what = "level" /\ p.len = kLevelName
    BY <1>1, <1>2, <2>1 DEF HeaderPieces
  <2>3. GrowsTo(b3, b4) /\ ("level" \in KeptPieces(b4) \/ kSmallBuffer - b3.length <= kLevelName)
    BY <1>1, <1>11, <2>1, <2>2, PieceFits
  <2> HIDE DEF b4
  <2>4. QED
    BY <1>1, <1>10, <1>11, <2>3
<1> HIDE DEF b4
<1>13. HasRoom(b4) /\ HeaderPieces \subseteq KeptPieces(b4)
  BY <1>6, <1>8, <1>10, <1>12 DEF GrowsTo, HeaderPieces
<1>14. CASE errno = 0
  <2>1. Header(level, errno) = b4
    BY <1>3, <1>14, Zenon DEF Header, b0, b1, b2, b3, b4
  <2>2. QED
    BY <1>13, <2>1
<1>15. CASE errno # 0
  <2> DEFINE p1 == Text("strerror", kStrerror)
             p2 == Text(" (errno=", 8)
             p3 == Integer(errno)
             p4 == Text(") ", 2)
  <2>1. IsPiece(p1) /\ IsPiece(p2) /\ IsPiece(p3) /\ IsPiece(p4)
    BY <1>1, <1>2, <1>15, ZenonT(60)
  <2>2. Header(level, errno) = (((b4 ## p1) ## p2) ## p3) ## p4
    BY <1>3, <1>15, Zenon DEF Header, b0, b1, b2, b3, b4
  <2> HIDE DEF p1, p2, p3, p4
  <2>3. GrowsTo(b4, b4 ## p1)
    BY <1>1, <1>13, <2>1, PieceFits
  <2>4. GrowsTo(b4 ## p1, (b4 ## p1) ## p2)
    BY <1>1, <2>1, <2>3, PieceFits DEF GrowsTo
  <2>5. GrowsTo((b4 ## p1) ## p2, ((b4 ## p1) ## p2) ## p3)
    BY <1>1, <2>1, <2>4, PieceFits DEF GrowsTo
  <2>6. GrowsTo(((b4 ## p1) ## p2) ## p3, (((b4 ## p1) ## p2) ## p3) ## p4)
    BY <1>1, <2>1, <2>5, PieceFits DEF GrowsTo
  <2>7. QED
    BY <1>13, <2>2, <2>3, <2>4, <2>5, <2>6 DEF GrowsTo
<1>16. QED
  BY <1>14, <1>15

\* A line that goes on, and one that was given away.
LineHasRoom(line) ==
    /\ DOMAIN line = LineFields
    /\ line.rest \in Seq(SUBSET PiecesLogged)
    /\ HasRoom(line.buffer) /\ HeaderPieces \subseteq KeptPieces(line.buffer)

Full(buffer) == "newline" \in KeptPieces(buffer) \/ buffer.length = kSmallBuffer - 1

RoomInv ==
    /\ walk \in Walks /\ DOMAIN logger = Loggers
    /\ \A t \in Loggers : logger[t] # None => LineHasRoom(logger[t])
    /\ output # None => LineHasRoom(output) /\ Full(output.buffer)

(* ~Logger ends the line with a newline, or the buffer is full.            *)
LEMMA TailFits ==
  ASSUME PiecesAreShort, NEW b, HasRoom(b)
  PROVE  GrowsTo(b, Finished(b)) /\ Full(Finished(b))
<1>1. kSmallBuffer \in Nat /\ kBasename \in Nat /\ IsPiece(Integer(SourceLine))
  BY StreamAssumption DEF PiecesAreShort
<1> DEFINE p1 == Text(" - ", 3)
           p2 == Text("basename", kBasename)
           p3 == Text(":", 1)
           p4 == Integer(SourceLine)
           p5 == Text("newline", 1)
           c == (((b ## p1) ## p2) ## p3) ## p4
<1>2. IsPiece(p1) /\ IsPiece(p2) /\ IsPiece(p3) /\ IsPiece(p4)
  BY <1>1 DEF IsPiece, IsNumeric, Text
<1>3. IsPiece(p5) /\ ~IsNumeric(p5) /\ p5.what = "newline" /\ p5.len = 1
  BY <1>1 DEF IsPiece, IsNumeric, Text
<1>4. Finished(b) = c ## p5
  BY DEF Finished
<1> HIDE DEF p1, p2, p3, p4, p5
<1>5. GrowsTo(b, b ## p1)
  BY <1>1, <1>2, PieceFits
<1>6. GrowsTo(b ## p1, (b ## p1) ## p2)
  BY <1>1, <1>2, <1>5, PieceFits DEF GrowsTo
<1>7. GrowsTo((b ## p1) ## p2, ((b ## p1) ## p2) ## p3)
  BY <1>1, <1>2, <1>6, PieceFits DEF GrowsTo
<1>8. GrowsTo(((b ## p1) ## p2) ## p3, c)
  BY <1>1, <1>2, <1>7, PieceFits DEF GrowsTo
<1> HIDE DEF c
<1>9. HasRoom(c) /\ KeptPieces(b) \subseteq KeptPieces(c)
  BY <1>5, <1>6, <1>7, <1>8 DEF GrowsTo
<1>10. /\ GrowsTo(c, c ## p5)
       /\ "newline" \in KeptPieces(c ## p5)
          \/ ((c ## p5).length = c.length /\ kSmallBuffer - c.length <= 1)
  BY <1>1, <1>3, <1>9, PieceFits
<1>11. c.length \in 0 .. kSmallBuffer - 1
  BY <1>9 DEF HasRoom
<1>12. Full(c ## p5)
  BY <1>1, <1>10, <1>11 DEF Full
<1>13. QED
  BY <1>4, <1>9, <1>10, <1>12 DEF GrowsTo

(* A line keeps its room in each step.                                     *)
LEMMA RoomStays ==
  ASSUME PiecesAreShort, RoomInv, [LogNext]_allVars
  PROVE  RoomInv'
<1>1. kSmallBuffer \in Nat
  BY StreamAssumption
<1>2. walk' = walk
  BY DEF LogNext, PassDay, NextDay, SecondsPass, SetTimeZone, SetLogLevel, LogLine, Stream, Destroy, Fork,
         allVars, zoneVars
<1>3. ASSUME UNCHANGED <<logger, output>>
      PROVE  RoomInv'
  BY <1>2, <1>3 DEF RoomInv
<1>4. CASE PassDay \/ SecondsPass \/ SetTimeZone \/ SetLogLevel \/ UNCHANGED allVars
  BY <1>3, <1>4 DEF PassDay, SecondsPass, SetTimeZone, SetLogLevel, allVars, logVars
<1>5. ASSUME NEW t \in Loggers, NEW m \in walk.messages, LogLine(t, m)
      PROVE  RoomInv'
  <2>1. m \in LinesLogged
    BY DEF RoomInv, LinesLogged
  <2>2. m.pieces \in Seq(SUBSET PiecesLogged) /\ (m.errno # 0 => IsPiece(Integer(m.errno)))
    BY <2>1 DEF PiecesAreShort
  <2> DEFINE line == [thread |-> Tid(t), seconds |-> Now, zoneSet |-> zoneSet,
                      stamp |-> FormattedTime(t), utc |-> ~logTimeZone, tid |-> CurrentTid(t),
                      level |-> m.level, rest |-> m.pieces, buffer |-> Header(m.level, m.errno)]
  <2>3. logger' = [logger EXCEPT ![t] = line] /\ output' = output
    BY <1>5 DEF LogLine
  <2>4. DOMAIN line = LineFields /\ line.rest = m.pieces /\ line.buffer = Header(m.level, m.errno)
    BY DEF LineFields
  <2> HIDE DEF line
  <2>5. LineHasRoom(line)
    BY <2>2, <2>4, HeaderFits, Zenon DEF LineHasRoom
  <2>6. QED
    BY <1>2, <2>3, <2>5 DEF RoomInv
<1>6. ASSUME NEW t \in Loggers, Stream(t)
      PROVE  RoomInv'
  <2>1. PICK old : old = logger[t] /\ LineHasRoom(old) /\ old.rest # <<>>
    BY <1>6 DEF Stream, RoomInv
  <2>2. PICK piece \in Head(old.rest) :
           logger' = [logger EXCEPT ![t].buffer = @ ## piece, ![t].rest = Tail(@)]
    BY <1>6, <2>1 DEF Stream
  <2>3. PICK b, r : /\ logger' = [logger EXCEPT ![t] = [[logger[t] EXCEPT !.buffer = b] EXCEPT !.rest = r]]
                    /\ b = logger[t].buffer ## piece /\ r = Tail(logger[t].rest)
    BY <2>1, <2>2 DEF LineHasRoom, LineFields
  <2>4. PICK line : line = [[old EXCEPT !.buffer = b] EXCEPT !.rest = r]
    OBVIOUS
  <2>5. /\ logger' = [logger EXCEPT ![t] = line] /\ output' = output
        /\ DOMAIN line = LineFields
        /\ line.rest = Tail(old.rest) /\ line.buffer = old.buffer ## piece
    BY <1>6, <2>1, <2>3, <2>4 DEF Stream, LineHasRoom, LineFields
  <2>6. Head(old.rest) \in SUBSET PiecesLogged /\ Tail(old.rest) \in Seq(SUBSET PiecesLogged)
    BY <2>1 DEF LineHasRoom
  <2>7. IsPiece(piece)
    BY <2>6 DEF PiecesAreShort
  <2>8. GrowsTo(old.buffer, line.buffer)
    BY <1>1, <2>1, <2>5, <2>7, PieceFits DEF LineHasRoom
  <2>9. LineHasRoom(line)
    BY <2>1, <2>5, <2>6, <2>8 DEF LineHasRoom, GrowsTo
  <2>10. QED
    BY <1>2, <2>5, <2>9 DEF RoomInv
<1>7. ASSUME NEW t \in Loggers, Destroy(t)
      PROVE  RoomInv'
  <2>1. PICK old : old = logger[t] /\ LineHasRoom(old)
    BY <1>7 DEF Destroy, RoomInv
  <2>2. PICK line : line = [old EXCEPT !.buffer = Finished(@)]
    OBVIOUS
  <2>3. logger' = [logger EXCEPT ![t] = None] /\ output' = line
    BY <1>7, <2>1, <2>2 DEF Destroy
  <2>4. DOMAIN line = LineFields /\ line.rest = old.rest /\ line.buffer = Finished(old.buffer)
    BY <2>1, <2>2 DEF LineHasRoom, LineFields
  <2>5. LineHasRoom(line) /\ Full(line.buffer)
    BY <2>1, <2>4, TailFits DEF LineHasRoom, GrowsTo
  <2>6. QED
    BY <1>2, <2>3, <2>5 DEF RoomInv
<1>8. ASSUME NEW t \in Loggers, Fork(t)
      PROVE  RoomInv'
  BY <1>2, <1>8 DEF Fork, RoomInv
<1>9. QED
  BY <1>4, <1>5, <1>6, <1>7, <1>8 DEF LogNext

(* Whatever is logged, and however long the parts of a line are: nothing   *)
(* is written behind the end of the buffer, the NUL behind a number        *)
(* included, the header is there, and a line without a newline fills the   *)
(* buffer (LogStream.h:32-44, LogStream.cc, Logging.cc:110-171).           *)
THEOREM LinesFit ==
  ASSUME PiecesAreShort
  PROVE  LogSpec => []LineFits
<1>1. LogInit => RoomInv
  BY DEF LogInit, ZoneInit, RoomInv
<1>2. RoomInv /\ [LogNext]_allVars => RoomInv'
  BY RoomStays
<1>3. RoomInv => LineFits
  <2>1. kSmallBuffer \in Nat
    BY StreamAssumption
  <2>2. \A b : HasRoom(b) => b.touched <= kSmallBuffer
    BY <2>1 DEF HasRoom
  <2>3. QED
    BY <2>2 DEF RoomInv, LineHasRoom, HeaderPieces, Full, LineFits
<1>4. QED
  BY <1>1, <1>2, <1>3, PTL DEF LogSpec

-----------------------------------------------------------------------------
(* The text of numbers *)

(* A set of natural numbers has a least one.                               *)
LEMMA LeastNumber ==
  ASSUME NEW S \in SUBSET Nat, S # {}
  PROVE  \E m \in S : \A n \in S : m <= n
<1> DEFINE R == OpToRel(<, Nat)
<1>1. IsWellFoundedOn(R, Nat)
  BY NatLessThanWellFounded, Zenon
<1>2. \A m \in Nat, n \in Nat : <<n, m>> \in R <=> n < m
  BY DEF OpToRel
<1> HIDE DEF R
<1>3. PICK m \in S : \A n \in S : <<n, m>> \notin R
  BY <1>1, WFMin
<1>4. \A n \in S : ~(n < m)
  BY <1>2, <1>3
<1>5. QED
  BY <1>4

(* Induction, by sets.                                                     *)
LEMMA AllNumbers ==
  ASSUME NEW S \in SUBSET Nat, 0 \in S, \A n \in S : n + 1 \in S
  PROVE  S = Nat
<1>1. SUFFICES ASSUME Nat \ S # {} PROVE FALSE
  OBVIOUS
<1>2. PICK m \in Nat \ S : \A n \in Nat \ S : m <= n
  BY <1>1, LeastNumber, Zenon
<1>3. m # 0 /\ m - 1 \in Nat /\ m - 1 \in S
  BY <1>2
<1>4. QED
  BY <1>2, <1>3

\* What is left of a number after n of its last digits have been taken off, and the function
\* that Converted is defined by.
Rests(value, base) ==
    LET rest[k \in Nat] == IF k = 0 THEN value ELSE Quotient(rest[k - 1], base) IN rest

TakesOff(g, value, base, n) ==
    /\ g \in [Nat -> Int] /\ g[0] = value
    /\ \A k \in 1 .. n : g[k] = Quotient(g[k - 1], base)

Bases == {10, 16}

(* Division with remainder.                                                *)
LEMMA DivisionIs ==
  ASSUME NEW x \in Int, NEW base \in Nat, base > 0
  PROVE  \E a \in Int, b \in Nat :
            a = x \div base /\ b = x % base /\ x = base * a + b /\ b <= base - 1
<1>1. PICK a \in Int, b \in Nat : a = x \div base /\ b = x % base /\ x = base * a + b /\ b < base
  BY Z3
<1>2. QED
  BY <1>1

(* A quotient is an integer.                                               *)
LEMMA QuotientIsInt ==
  ASSUME NEW x \in Int, NEW base \in Bases
  PROVE  Quotient(x, base) \in Int
  BY DEF Quotient, Bases

(* Digits can be taken off as often as one likes.                          *)
LEMMA SomeTakeOff ==
  ASSUME NEW value \in Int, NEW base \in Bases, NEW n \in Nat
  PROVE  \E g : TakesOff(g, value, base, n)
<1> DEFINE S == {m \in Nat : \E g : TakesOff(g, value, base, m)}
<1>1. 0 \in S
  <2>1. PICK g : g = [k \in Nat |-> value]
    OBVIOUS
  <2>2. TakesOff(g, value, base, 0)
    BY <2>1 DEF TakesOff
  <2>3. QED
    BY <2>2
<1>2. ASSUME NEW m \in S PROVE m + 1 \in S
  <2>1. PICK g : TakesOff(g, value, base, m)
    OBVIOUS
  <2>2. PICK h : h = [g EXCEPT ![m + 1] = Quotient(g[m], base)]
    OBVIOUS
  <2>3. m \in Nat /\ m + 1 \in Nat
    OBVIOUS
  <2> HIDE DEF S
  <2>4. g \in [Nat -> Int] /\ g[0] = value /\ Quotient(g[m], base) \in Int
    BY <2>1, <2>3, QuotientIsInt DEF TakesOff
  <2>5. h \in [Nat -> Int] /\ h[0] = value /\ h[m + 1] = Quotient(g[m], base)
        /\ \A k \in Nat : k # m + 1 => h[k] = g[k]
    BY <2>2, <2>3, <2>4
  <2>6. ASSUME NEW k \in 1 .. m + 1 PROVE h[k] = Quotient(h[k - 1], base)
    <3>1. CASE k = m + 1
      BY <2>3, <2>5, <3>1
    <3>2. CASE k # m + 1
      <4>1. k \in 1 .. m /\ k - 1 \in Nat /\ k - 1 # m + 1 /\ k \in Nat
        BY <2>3, <3>2
      <4>2. g[k] = Quotient(g[k - 1], base)
        BY <2>1, <4>1 DEF TakesOff
      <4>3. h[k] = g[k] /\ h[k - 1] = g[k - 1]
        BY <2>5, <3>2, <4>1
      <4>4. QED
        BY <4>2, <4>3, Zenon
    <3>3. QED
      BY <3>1, <3>2
  <2>7. TakesOff(h, value, base, m + 1)
    BY <2>5, <2>6 DEF TakesOff
  <2>8. QED
    BY <2>3, <2>7 DEF S
<1>3. S \in SUBSET Nat
  OBVIOUS
<1> HIDE DEF S
<1>4. S = Nat
  BY <1>1, <1>2, <1>3, AllNumbers
<1>5. QED
  BY <1>4 DEF S

(* They are the same digits each time.                                     *)
LEMMA TakeOffAgree ==
  ASSUME NEW value, NEW base, NEW n \in Nat, NEW m \in Nat, NEW g, NEW h,
         TakesOff(g, value, base, n), TakesOff(h, value, base, m), NEW k \in Nat, k <= n, k <= m
  PROVE  g[k] = h[k]
<1> DEFINE S == {j \in Nat : j <= n /\ j <= m => g[j] = h[j]}
<1>1. 0 \in S
  BY DEF TakesOff
<1>2. ASSUME NEW j \in S PROVE j + 1 \in S
  <2>1. SUFFICES ASSUME j + 1 <= n, j + 1 <= m PROVE g[j + 1] = h[j + 1]
    OBVIOUS
  <2>2. j \in Nat /\ j + 1 \in 1 .. n /\ j + 1 \in 1 .. m /\ (j + 1) - 1 = j /\ g[j] = h[j]
    BY <2>1
  <2>3. g[j + 1] = Quotient(g[(j + 1) - 1], base) /\ h[j + 1] = Quotient(h[(j + 1) - 1], base)
    BY <2>2, Zenon DEF TakesOff
  <2>4. QED
    BY <2>2, <2>3, Zenon
<1>3. S \in SUBSET Nat
  OBVIOUS
<1> HIDE DEF S
<1>4. S = Nat
  BY <1>1, <1>2, <1>3, AllNumbers
<1>5. QED
  BY <1>4 DEF S

(* The function that Converted is defined by.                              *)
LEMMA RestsAre ==
  ASSUME NEW value \in Int, NEW base \in Bases
  PROVE  \A n \in Nat : TakesOff(Rests(value, base), value, base, n)
<1> DEFINE part(n) == CHOOSE g : TakesOff(g, value, base, n)
           g == [n \in Nat |-> part(n)[n]]
<1>1. ASSUME NEW n \in Nat PROVE TakesOff(part(n), value, base, n)
  BY SomeTakeOff
<1> HIDE DEF part
<1>2. g[0] = value /\ g \in [Nat -> Int]
  BY <1>1 DEF TakesOff
<1>3. ASSUME NEW k \in Nat, k # 0 PROVE g[k] = Quotient(g[k - 1], base)
  <2>1. k - 1 \in Nat /\ k - 1 <= k /\ k - 1 <= k - 1 /\ k \in 1 .. k
    BY <1>3
  <2>2. g[k - 1] = part(k)[k - 1]
    <3>1. part(k - 1)[k - 1] = part(k)[k - 1]
      BY <1>1, <2>1, TakeOffAgree
    <3>2. QED
      BY <2>1, <3>1
  <2>3. part(k)[k] = Quotient(part(k)[k - 1], base)
    BY <1>1, <2>1 DEF TakesOff
  <2>4. QED
    BY <2>2, <2>3
<1> HIDE DEF g
<1>4. g = [k \in Nat |-> IF k = 0 THEN value ELSE Quotient(g[k - 1], base)]
  BY <1>2, <1>3
<1>5. PICK r : r = Rests(value, base)
  OBVIOUS
<1>6. r = [k \in Nat |-> IF k = 0 THEN value ELSE Quotient(r[k - 1], base)]
  BY <1>4, <1>5, Zenon DEF Rests
<1>7. r[0] = value /\ \A k \in Nat : k # 0 => r[k] = Quotient(r[k - 1], base)
  BY <1>6
<1>8. r \in [Nat -> Int]
  <2> DEFINE S == {k \in Nat : r[k] \in Int}
  <2>1. 0 \in S
    BY <1>7
  <2>2. ASSUME NEW k \in S PROVE k + 1 \in S
    <3>1. r[k + 1] = Quotient(r[k], base)
      BY <1>7
    <3>2. QED
      BY <3>1, QuotientIsInt
  <2>3. S \in SUBSET Nat
    OBVIOUS
  <2> HIDE DEF S
  <2>4. S = Nat
    BY <2>1, <2>2, <2>3, AllNumbers
  <2>5. QED
    BY <1>6, <2>4 DEF S
<1>9. QED
  BY <1>5, <1>7, <1>8 DEF TakesOff

(* One digit after the other.                                              *)
LEMMA RestsGoOn ==
  ASSUME NEW value \in Int, NEW base \in Bases
  PROVE  /\ Rests(value, base)[0] = value
         /\ \A j \in Nat : /\ Rests(value, base)[j] \in Int
                           /\ Rests(value, base)[j + 1] = Quotient(Rests(value, base)[j], base)
<1>1. \A j \in Nat : j + 1 \in 1 .. j + 1 /\ (j + 1) - 1 = j
  OBVIOUS
<1>2. QED
  BY <1>1, RestsAre DEF TakesOff

(* The sign of what is left is that of the number.                         *)
LEMMA RestsKeepSign ==
  ASSUME NEW value \in Int, NEW base \in Bases, NEW n \in Nat
  PROVE  /\ value >= 0 => Rests(value, base)[n] >= 0
         /\ value <= 0 => Rests(value, base)[n] <= 0
<1> DEFINE r == Rests(value, base)
           S == {k \in Nat : (value >= 0 => r[k] >= 0) /\ (value <= 0 => r[k] <= 0)}
<1>1. r[0] = value /\ \A k \in Nat : r[k] \in Int /\ r[k + 1] = Quotient(r[k], base)
  BY RestsGoOn
<1> HIDE DEF r
<1>2. 0 \in S
  BY <1>1
<1>3. ASSUME NEW k \in S PROVE k + 1 \in S
  <2>1. PICK x \in Int : x = r[k]
    BY <1>1
  <2>2. r[k + 1] = Quotient(x, base)
    BY <1>1, <2>1
  <2>3. (x >= 0 => Quotient(x, base) >= 0) /\ (x <= 0 => Quotient(x, base) <= 0)
    BY DEF Quotient, Bases
  <2>4. QED
    BY <2>1, <2>2, <2>3, QuotientIsInt
<1>4. S \in SUBSET Nat
  OBVIOUS
<1> HIDE DEF S
<1>5. S = Nat
  BY <1>2, <1>3, <1>4, AllNumbers
<1>6. QED
  BY <1>5 DEF S, r

\* A number with less than so many digits, in either base, and one of 64 bits.
Below(x, c) == x \in Int /\ -c < x /\ x < c
Bits16 == 65536
Is64Bits(x) == Below(x, Bits16 * (Bits16 * (Bits16 * Bits16)))

(* Five digits are at least 16 bits.                                       *)
LEMMA FiveDigits ==
  ASSUME NEW value \in Int, NEW base \in Bases, NEW k \in Nat, NEW c \in Nat,
         Below(Rests(value, base)[k], Bits16 * c)
  PROVE  Below(Rests(value, base)[k + 5], c)
<1> DEFINE r == Rests(value, base)
<1>1. \A j \in Nat : r[j] \in Int /\ r[j + 1] = Quotient(r[j], base)
  BY RestsGoOn
<1> HIDE DEF r
<1>2. ASSUME NEW x \in Int, NEW a \in Nat, Below(x, 10 * a)
      PROVE  Below(Quotient(x, base), a)
  BY <1>2 DEF Below, Quotient, Bases
<1>3. ASSUME NEW j \in Nat, NEW a \in Nat, Below(r[j], 10 * a)
      PROVE  Below(r[j + 1], a)
  BY <1>1, <1>2, <1>3
<1>4. PICK a1 \in Nat, a2 \in Nat, a3 \in Nat, a4 \in Nat :
         a1 = 10 * c /\ a2 = 10 * a1 /\ a3 = 10 * a2 /\ a4 = 10 * a3
  OBVIOUS
<1>5. Below(r[k], 10 * a4)
  BY <1>1, <1>4 DEF Below, Bits16, r
<1>6. Below(r[k + 1], a4)
  BY <1>3, <1>5, Zenon
<1>7. Below(r[k + 2], a3)
  <2>1. k + 1 \in Nat /\ (k + 1) + 1 = k + 2
    OBVIOUS
  <2>2. QED
    BY <1>3, <1>4, <1>6, <2>1, Zenon
<1>8. Below(r[k + 3], a2)
  <2>1. k + 2 \in Nat /\ (k + 2) + 1 = k + 3
    OBVIOUS
  <2>2. QED
    BY <1>3, <1>4, <1>7, <2>1, Zenon
<1>9. Below(r[k + 4], a1)
  <2>1. k + 3 \in Nat /\ (k + 3) + 1 = k + 4
    OBVIOUS
  <2>2. QED
    BY <1>3, <1>4, <1>8, <2>1, Zenon
<1>10. Below(r[k + 5], c)
  <2>1. k + 4 \in Nat /\ (k + 4) + 1 = k + 5
    OBVIOUS
  <2>2. QED
    BY <1>3, <1>4, <1>9, <2>1, Zenon
<1>11. QED
  BY <1>10 DEF r

(* A number of 64 bits has no more than 20 digits.                         *)
LEMMA NothingLeft ==
  ASSUME NEW value, Is64Bits(value), NEW base \in Bases
  PROVE  Rests(value, base)[20] = 0
<1>1. PICK c \in Nat : c = Bits16 * (Bits16 * Bits16)
  BY DEF Bits16
<1>2. PICK d \in Nat : d = Bits16 * Bits16
  BY DEF Bits16
<1>3. value \in Int /\ Rests(value, base)[0] = value
  BY RestsAre DEF TakesOff, Is64Bits, Below
<1>4. Below(Rests(value, base)[0], Bits16 * c)
  BY <1>1, <1>3, Zenon DEF Is64Bits
<1>5. Below(Rests(value, base)[5], Bits16 * d)
  BY <1>1, <1>2, <1>3, <1>4, FiveDigits
<1>6. Below(Rests(value, base)[10], Bits16 * Bits16)
  BY <1>2, <1>3, <1>5, FiveDigits
<1>7. Below(Rests(value, base)[15], Bits16 * 1)
  BY <1>3, <1>6, FiveDigits DEF Bits16
<1>8. Below(Rests(value, base)[20], 1)
  BY <1>3, <1>7, FiveDigits
<1>9. QED
  BY <1>8 DEF Below

\* A number has places digits, the first time nothing is left of it.
HasDigits(value, base, places) ==
    Rests(value, base)[places] = 0 /\ \A j \in 1 .. places - 1 : Rests(value, base)[j] # 0

\* The k-th of them.
Digit(value, base, places, k) == Remainder(Rests(value, base)[places - k], base)

(* The definition of Converted: the last digits are taken off one by one,  *)
(* until nothing is left.                                                  *)
LEMMA ConvertedIs ==
  ASSUME NEW value, Is64Bits(value), NEW base \in Bases
  PROVE  \E places \in 1 .. 20 :
            /\ HasDigits(value, base, places)
            /\ Converted(value, base) = [k \in 1 .. places |-> Digit(value, base, places, k)]
<1> DEFINE r == Rests(value, base)
           S == {k \in 1 .. 20 : r[k] = 0}
           places == CHOOSE k \in 1 .. MaxDigits : HasDigits(value, base, k)
<1>1. Converted(value, base) = [k \in 1 .. places |-> Remainder(r[places - k], base)]
  BY Zenon DEF Converted, Rests, HasDigits
<1>2. PICK m \in S : \A n \in S : m <= n
  <2>1. S \in SUBSET Nat /\ 20 \in S
    BY NothingLeft
  <2> HIDE DEF S
  <2>2. QED
    BY <2>1, LeastNumber
<1>3. HasDigits(value, base, m) /\ m \in 1 .. MaxDigits
  BY <1>2 DEF HasDigits, MaxDigits
<1>4. HasDigits(value, base, places) /\ places \in 1 .. MaxDigits
  BY <1>3, Zenon
<1> HIDE DEF places, r
<1>5. places <= m
  <2>1. SUFFICES ASSUME m < places PROVE FALSE
    BY <1>2, <1>4 DEF MaxDigits
  <2>2. m \in 1 .. places - 1
    BY <1>2, <1>4, <2>1 DEF MaxDigits
  <2>3. QED
    BY <1>3, <1>4, <2>2 DEF HasDigits
<1>6. places \in 1 .. 20
  BY <1>2, <1>4, <1>5 DEF MaxDigits
<1>7. QED
  BY <1>1, <1>4, <1>6, Zenon DEF r, Digit

\* A function that goes digit by digit as Horner's rule does.
Horner(f, ds, base, n) ==
    Len(ds) = n /\ f[0] = 0 /\ \A k \in 1 .. n : f[k] = f[k - 1] * base - ds[k]

(* The definition of NegatedValue: it is what any such function ends at.   *)
LEMMA NegatedValueIs ==
  ASSUME NEW ds, NEW base, NEW n \in Nat, NEW f, Horner(f, ds, base, n)
  PROVE  NegatedValue(ds, base) = f[n]
<1>0. Len(ds) = n /\ f[0] = 0 /\ \A k \in 1 .. n : f[k] = f[k - 1] * base - ds[k]
  BY Zenon DEF Horner
<1> DEFINE g == [k \in 0 .. n |-> f[k]]
           value == LET v[k \in 0 .. Len(ds)] == IF k = 0 THEN 0 ELSE v[k - 1] * base - ds[k] IN v
<1>1. g = [k \in 0 .. n |-> IF k = 0 THEN 0 ELSE g[k - 1] * base - ds[k]]
  <2>1. \A k \in 0 .. n : k # 0 => k \in 1 .. n /\ k - 1 \in 0 .. n
    OBVIOUS
  <2>2. ASSUME NEW k \in 0 .. n PROVE g[k] = IF k = 0 THEN 0 ELSE g[k - 1] * base - ds[k]
    BY <1>0, <2>1, Zenon
  <2> HIDE DEF g
  <2>3. QED
    BY <2>2, Zenon DEF g
<1> HIDE DEF g
<1>2. PICK v : v = value
  OBVIOUS
<1>3. v = [k \in 0 .. n |-> IF k = 0 THEN 0 ELSE v[k - 1] * base - ds[k]]
  BY <1>0, <1>1, <1>2, Zenon
<1>4. NegatedValue(ds, base) = v[n]
  BY <1>0, <1>2, Zenon DEF NegatedValue
<1> DEFINE S == {k \in Nat : k <= n => v[k] = f[k]}
<1>5. 0 \in S
  BY <1>0, <1>3
<1>6. ASSUME NEW k \in S PROVE k + 1 \in S
  <2>1. SUFFICES ASSUME k + 1 <= n PROVE v[k + 1] = f[k + 1]
    OBVIOUS
  <2>2. k + 1 \in 0 .. n /\ k + 1 \in 1 .. n /\ k + 1 # 0 /\ (k + 1) - 1 = k /\ v[k] = f[k]
    BY <2>1
  <2>3. v[k + 1] = v[(k + 1) - 1] * base - ds[k + 1]
    BY <1>3, <2>2, Zenon
  <2>4. QED
    BY <1>0, <2>2, <2>3, Zenon
<1>7. S \in SUBSET Nat
  OBVIOUS
<1> HIDE DEF S
<1>8. S = Nat
  BY <1>5, <1>6, <1>7, AllNumbers
<1>9. QED
  BY <1>4, <1>8 DEF S

(* A remainder is a digit with the sign of the number, and the first one   *)
(* is 0 only for 0 itself.                                                 *)
LEMMA DigitIs ==
  ASSUME NEW value, Is64Bits(value), NEW base \in Bases, NEW places \in 1 .. 20,
         HasDigits(value, base, places), NEW k \in 1 .. places
  PROVE  /\ Digit(value, base, places, k) \in Int
         /\ value >= 0 => Digit(value, base, places, k) \in 0 .. base - 1
         /\ value <= 0 => Digit(value, base, places, k) \in -(base - 1) .. 0
         /\ k = 1 /\ Digit(value, base, places, k) = 0 => value = 0 /\ places = 1
         /\ Digit(value, base, places, k)
               = Rests(value, base)[places - k] - base * Rests(value, base)[places - k + 1]
<1>1. value \in Int
  BY DEF Is64Bits, Below
<1>2. PICK r : r = Rests(value, base)
  OBVIOUS
<1>3. PICK j \in Nat : j = places - k
  OBVIOUS
<1>4. PICK x \in Int, y \in Int : x = r[j] /\ y = r[j + 1] /\ y = Quotient(x, base)
  BY <1>1, <1>2, RestsGoOn, QuotientIsInt
<1>5. Remainder(x, base) = x - base * y
  BY <1>4 DEF Remainder
<1>6. /\ x >= 0 => x - base * y \in 0 .. base - 1
      /\ x <= 0 => x - base * y \in -(base - 1) .. 0
  <2>1. base \in Nat /\ base > 0
    BY DEF Bases
  <2>2. PICK a \in Int, b \in Nat :
           a = x \div base /\ b = x % base /\ x = base * a + b /\ b <= base - 1
    BY <2>1, DivisionIs
  <2>3. PICK c \in Int : c = base * a /\ x = c + b
    BY <2>1, <2>2
  <2>4. base * (a + 1) = c + base
    BY <2>3 DEF Bases
  <2>5. CASE x < 0 /\ b # 0
    <3>1. y = a + 1
      BY <1>4, <2>2, <2>5, Zenon DEF Quotient
    <3>2. base * y = c + base
      BY <2>4, <3>1, Zenon
    <3>3. QED
      BY <2>1, <2>2, <2>3, <2>5, <3>2
  <2>6. CASE ~(x < 0 /\ b # 0)
    <3>1. y = a
      BY <1>4, <2>2, <2>6, Zenon DEF Quotient
    <3>2. base * y = c
      BY <2>3, <3>1, Zenon
    <3>3. QED
      BY <2>1, <2>2, <2>3, <2>6, <3>2
  <2>7. QED
    BY <2>5, <2>6
<1>7. (value >= 0 => x >= 0) /\ (value <= 0 => x <= 0)
  BY <1>1, <1>2, <1>4, RestsKeepSign
<1>8. ASSUME k = 1, x - base * y = 0 PROVE value = 0 /\ places = 1
  <2>1. j + 1 = places
    BY <1>3, <1>8
  <2>2. y = 0
    BY <1>2, <1>4, <2>1 DEF HasDigits
  <2>3. x = 0
    BY <1>8, <2>2 DEF Bases
  <2>4. j = 0
    <3>1. SUFFICES ASSUME j # 0 PROVE FALSE
      OBVIOUS
    <3>2. j \in 1 .. places - 1
      BY <2>1, <3>1
    <3>3. QED
      BY <1>2, <1>4, <2>3, <3>2 DEF HasDigits
  <2>5. value = r[0]
    BY <1>1, <1>2, RestsGoOn
  <2>6. r[j] = value /\ places = 1
    BY <2>1, <2>4, <2>5
  <2>7. QED
    BY <1>4, <2>3, <2>6, Zenon
<1>9. PICK d : d = Digit(value, base, places, k)
  OBVIOUS
<1>10. d = x - base * y
  BY <1>2, <1>3, <1>4, <1>5, <1>9, Zenon DEF Digit
<1>11. d \in Int
  BY <1>4, <1>6, <1>7, <1>10 DEF Bases
<1>12. /\ value >= 0 => d \in 0 .. base - 1
       /\ value <= 0 => d \in -(base - 1) .. 0
       /\ k = 1 /\ d = 0 => value = 0 /\ places = 1
  BY <1>6, <1>7, <1>8, <1>10
<1>13. d = Rests(value, base)[places - k] - base * Rests(value, base)[places - k + 1]
  BY <1>2, <1>3, <1>4, <1>10
<1>14. QED
  BY <1>9, <1>11, <1>12, <1>13, Zenon

\* The digits of a number, with their sign or with the other one.
AreDigits(ds, value, base, places, sign) ==
    Len(ds) = places /\ \A k \in 1 .. places : ds[k] = sign * Digit(value, base, places, k)

(* The digits put together again: of a number that is not negative, or of  *)
(* one whose digits have lost their sign.                                  *)
LEMMA DigitsReturn ==
  ASSUME NEW value, Is64Bits(value), NEW base \in Bases, NEW places \in 1 .. 20,
         HasDigits(value, base, places), NEW sign \in {-1, 1}, NEW ds,
         AreDigits(ds, value, base, places, sign)
  PROVE  NegatedValue(ds, base) = -(sign * value)
<1>0. Len(ds) = places /\ \A k \in 1 .. places : ds[k] = sign * Digit(value, base, places, k)
  BY Zenon DEF AreDigits
<1>1. value \in Int
  BY DEF Is64Bits, Below
<1>2. PICK r : r = Rests(value, base)
  OBVIOUS
<1>3. PICK f : f = [k \in 0 .. places |-> -(sign * r[places - k])]
  OBVIOUS
<1>4. r[0] = value /\ r[places] = 0 /\ \A j \in Nat : r[j] \in Int
  BY <1>1, <1>2, RestsGoOn DEF HasDigits
<1>5. f[0] = 0
  BY <1>3, <1>4
<1>6. ASSUME NEW k \in 1 .. places
      PROVE  f[k] = f[k - 1] * base - ds[k]
  <2>1. PICK x \in Int, y \in Int : x = r[places - k] /\ y = r[places - k + 1]
    <3>1. places - k \in Nat /\ places - k + 1 \in Nat
      OBVIOUS
    <3>2. QED
      BY <1>4, <3>1
  <2>2. k \in 0 .. places /\ k - 1 \in 0 .. places /\ places - (k - 1) = places - k + 1
    OBVIOUS
  <2>3. f[k] = -(sign * x) /\ f[k - 1] = -(sign * y)
    BY <1>3, <2>1, <2>2
  <2>4. ds[k] = sign * (x - base * y)
    <3>1. Digit(value, base, places, k) = x - base * y
      BY <1>2, <2>1, DigitIs, ZenonT(60)
    <3>2. QED
      BY <1>0, <3>1, Zenon
  <2>5. -(sign * x) = (-(sign * y)) * base - sign * (x - base * y)
    <3>1. base = 10 \/ base = 16
      BY DEF Bases
    <3>2. QED
      BY <3>1
  <2>6. QED
    BY <2>3, <2>4, <2>5
<1>7. NegatedValue(ds, base) = f[places]
  <2>1. PICK n \in Nat : n = places
    OBVIOUS
  <2>2. Horner(f, ds, base, n)
    BY <1>0, <1>5, <1>6, <2>1, Zenon DEF Horner
  <2>3. NegatedValue(ds, base) = f[n]
    BY <2>2, NegatedValueIs, Zenon
  <2>4. QED
    BY <2>1, <2>3
<1>8. f[places] = -(sign * value)
  <2>1. places \in 0 .. places /\ places - places = 0
    OBVIOUS
  <2>2. f[places] = -(sign * r[places - places])
    BY <1>3, <2>1, Zenon
  <2>3. QED
    BY <1>4, <2>1, <2>2, Zenon
<1>9. QED
  BY <1>7, <1>8

(* The table of characters.                                                *)
LEMMA ZeroIs ==
  ASSUME NEW d \in -9 .. 9
  PROVE  zero(d) = IF d < 0 THEN -d ELSE d
<1>1. digits \in [1 .. 19 -> Int]
  BY DEF digits
<1>2. \A k \in 1 .. 19 : digits[k] = IF k < 10 THEN 10 - k ELSE k - 10
  BY DEF digits
<1>3. 10 + d \in 1 .. 19
  OBVIOUS
<1>4. QED
  BY <1>2, <1>3 DEF zero

\* The text of a number.
TextOf(negative, ds, decimals, letters) ==
    [negative |-> negative, digits |-> ds, decimals |-> decimals, letters |-> letters]

(* The texts that Integer and Pointer make of NoText.                      *)
LEMMA TextsMade ==
  ASSUME NEW negative, NEW ds, NEW letters
  PROVE  /\ [NoText EXCEPT !.negative = negative, !.digits = ds] = TextOf(negative, ds, 0, 0)
         /\ [NoText EXCEPT !.digits = ds, !.letters = letters] = TextOf(FALSE, ds, 0, letters)
<1>1. PICK no, none : no = FALSE /\ none = <<>>
  BY Zenon
<1>2. PICK t : t = TextOf(no, none, 0, 0)
  OBVIOUS
<1>3. NoText = t
  BY <1>1, <1>2, Zenon DEF TextOf, NoText
<1>4. [t EXCEPT !.negative = negative, !.digits = ds] = TextOf(negative, ds, 0, 0)
  <2>1. [t EXCEPT !.negative = negative, !.digits = ds]
           = [[t EXCEPT !.negative = negative] EXCEPT !.digits = ds]
    BY Zenon
  <2>2. [t EXCEPT !.negative = negative] = TextOf(negative, none, 0, 0)
    BY <1>2, SMT DEF TextOf
  <2>3. [TextOf(negative, none, 0, 0) EXCEPT !.digits = ds] = TextOf(negative, ds, 0, 0)
    BY SMT DEF TextOf
  <2>4. QED
    BY <2>1, <2>2, <2>3, Zenon
<1>5. [t EXCEPT !.digits = ds, !.letters = letters] = TextOf(no, ds, 0, letters)
  <2>1. [t EXCEPT !.digits = ds, !.letters = letters] = [[t EXCEPT !.digits = ds] EXCEPT !.letters = letters]
    BY Zenon
  <2>2. [t EXCEPT !.digits = ds] = TextOf(no, ds, 0, 0)
    BY <1>2, SMT DEF TextOf
  <2>3. [TextOf(no, ds, 0, 0) EXCEPT !.letters = letters] = TextOf(no, ds, 0, letters)
    BY SMT DEF TextOf
  <2>4. QED
    BY <2>1, <2>2, <2>3, Zenon
<1>6. QED
  BY <1>1, <1>3, <1>4, <1>5, Zenon

(* An integer is printed as it is, with a sign and at most 20 digits.      *)
LEMMA IntegerIs ==
  ASSUME NEW value, Is64Bits(value)
  PROVE  \E places, text :
            /\ places \in 1 .. 20 /\ HasDigits(value, 10, places)
            /\ Integer(value) = Numeral("integer", value, text)
            /\ DecimalOf(text, value) /\ text.letters = 0
            /\ Chars(text) = (IF value < 0 THEN 1 ELSE 0) + places
<1>1. value \in Int /\ 10 \in Bases
  BY DEF Is64Bits, Below, Bases
<1>2. PICK places \in 1 .. 20 :
         /\ HasDigits(value, 10, places)
         /\ Converted(value, 10) = [k \in 1 .. places |-> Digit(value, 10, places, k)]
  BY <1>1, ConvertedIs
<1>3. PICK d : d = Converted(value, 10)
  OBVIOUS
<1>4. PICK ds : ds = [k \in DOMAIN d |-> zero(d[k])]
  OBVIOUS
<1>5. DOMAIN d = 1 .. places /\ \A k \in 1 .. places : d[k] = Digit(value, 10, places, k)
  BY <1>2, <1>3
<1>6. ASSUME NEW k \in 1 .. places
      PROVE  /\ value >= 0 => d[k] \in 0 .. 9
             /\ value <= 0 => d[k] \in -9 .. 0
             /\ k = 1 /\ d[k] = 0 => value = 0 /\ places = 1
  <2>1. /\ value >= 0 => d[k] \in 0 .. 10 - 1
        /\ value <= 0 => d[k] \in -(10 - 1) .. 0
        /\ k = 1 /\ d[k] = 0 => value = 0 /\ places = 1
    <3>1. PICK x : x = Digit(value, 10, places, k)
      OBVIOUS
    <3>2. /\ value >= 0 => x \in 0 .. 10 - 1
          /\ value <= 0 => x \in -(10 - 1) .. 0
          /\ k = 1 /\ x = 0 => value = 0 /\ places = 1
      BY <1>1, <1>2, <3>1, DigitIs
    <3>3. d[k] = x
      BY <1>5, <3>1
    <3>4. QED
      BY <3>2, <3>3, Zenon
  <2>2. QED
    BY <2>1
<1>7. PICK sign \in {-1, 1} : sign = IF value < 0 THEN -1 ELSE 1
  OBVIOUS
<1>8. ASSUME NEW k \in 1 .. places
      PROVE  ds[k] = sign * d[k]
  <2>1. ds[k] = zero(d[k])
    BY <1>4, <1>5
  <2>2. CASE value < 0
    <3>1. d[k] \in -9 .. 0
      BY <1>1, <1>6, <2>2
    <3>2. QED
      BY <1>7, <2>1, <2>2, <3>1, ZeroIs
  <2>3. CASE value >= 0
    <3>1. d[k] \in 0 .. 9
      BY <1>1, <1>6, <2>3
    <3>2. QED
      BY <1>1, <1>7, <2>1, <2>3, <3>1, ZeroIs
  <2>4. QED
    BY <1>1, <2>2, <2>3
<1>9. Len(ds) = places
  BY <1>4, <1>5
<1>10. NegatedValue(ds, 10) = -(sign * value)
  <2>1. AreDigits(ds, value, 10, places, sign)
    BY <1>5, <1>8, <1>9 DEF AreDigits
  <2>2. QED
    BY <1>1, <1>2, <2>1, DigitsReturn, ZenonT(60)
<1>11. ds[1] = 0 => value = 0 /\ places = 1
  <2>1. 1 \in 1 .. places
    OBVIOUS
  <2>2. d[1] \in Int
    BY <1>1, <1>6, <2>1
  <2>3. ds[1] = 0 => d[1] = 0
    BY <1>7, <1>8, <2>1, <2>2
  <2>4. QED
    BY <1>6, <2>1, <2>3
<1>12. PICK negative : negative = (value < 0)
  OBVIOUS
<1>13. PICK text : text = TextOf(negative, ds, 0, 0)
  OBVIOUS
<1>14. /\ text.negative <=> value < 0
       /\ text.digits = ds /\ text.decimals = 0 /\ text.letters = 0
       /\ Integer(value) = Numeral("integer", value, text)
  <2>1. /\ text.negative = negative /\ text.digits = ds /\ text.decimals = 0 /\ text.letters = 0
        /\ [NoText EXCEPT !.negative = negative, !.digits = ds] = text
    <3>1. [NoText EXCEPT !.negative = negative, !.digits = ds] = text
      BY <1>13, TextsMade, Zenon
    <3>2. text.negative = negative /\ text.digits = ds /\ text.decimals = 0 /\ text.letters = 0
      BY <1>13, Zenon DEF TextOf
    <3>3. QED
      BY <3>1, <3>2
  <2>2. QED
    BY <1>3, <1>4, <1>12, <2>1, Zenon DEF Integer
<1>15. DecimalOf(text, value)
  <2>1. NegatedValue(text.digits, 10) = IF text.negative THEN value ELSE -value
    BY <1>1, <1>7, <1>10, <1>14
  <2>2. text.digits[1] = 0 => value = 0 /\ Len(text.digits) = 1
    BY <1>9, <1>11, <1>14
  <2>3. QED
    BY <2>1, <2>2, Zenon DEF DecimalOf
<1>16. Chars(text) = (IF value < 0 THEN 1 ELSE 0) + places
  BY <1>9, <1>14 DEF Chars
<1>17. QED
  BY <1>2, <1>14, <1>15, <1>16, Zenon

(* So is an address, in hexadecimal.                                       *)
LEMMA PointerIs ==
  ASSUME NEW value \in Nat, Is64Bits(value)
  PROVE  /\ NegatedValue(Pointer(value).text.digits, 16) = -value
         /\ Pointer(value).what = "pointer" /\ Pointer(value).of = value
         /\ Pointer(value).len \in 0 .. 22
<1>1. value \in Int /\ 16 \in Bases
  BY DEF Bases
<1>2. PICK places \in 1 .. 20 :
         /\ HasDigits(value, 16, places)
         /\ Converted(value, 16) = [k \in 1 .. places |-> Digit(value, 16, places, k)]
  BY <1>1, ConvertedIs
<1>3. PICK d : d = Converted(value, 16)
  OBVIOUS
<1>4. Len(d) = places /\ \A k \in 1 .. places : d[k] = Digit(value, 16, places, k)
  BY <1>2, <1>3
<1>5. \A k \in 1 .. places : Digit(value, 16, places, k) \in Int
  BY <1>1, <1>2, DigitIs, Zenon
<1>6. AreDigits(d, value, 16, places, 1)
  BY <1>4, <1>5 DEF AreDigits
<1>7. NegatedValue(d, 16) = -(1 * value)
  BY <1>1, <1>2, <1>6, DigitsReturn
<1>8. PICK text : text = TextOf(FALSE, d, 0, 2)
  OBVIOUS
<1>9. /\ text.negative = FALSE /\ text.digits = d /\ text.decimals = 0 /\ text.letters = 2
      /\ Pointer(value) = Numeral("pointer", value, text)
  <2>1. /\ text.negative = FALSE /\ text.digits = d /\ text.decimals = 0 /\ text.letters = 2
        /\ [NoText EXCEPT !.digits = d, !.letters = 2] = text
    <3>1. [NoText EXCEPT !.digits = d, !.letters = 2] = text
      BY <1>8, TextsMade, Zenon
    <3>2. text.negative = FALSE /\ text.digits = d /\ text.decimals = 0 /\ text.letters = 2
      BY <1>8, Zenon DEF TextOf
    <3>3. QED
      BY <3>1, <3>2, Zenon
  <2>2. QED
    BY <1>3, <2>1, Zenon DEF Pointer
<1>10. Chars(text) = places + 2
  BY <1>4, <1>9 DEF Chars
<1>11. QED
  <2>1. PICK piece : /\ piece = Pointer(value) /\ piece.text = text /\ piece.what = "pointer"
                     /\ piece.of = value /\ piece.len = Chars(text)
    BY <1>9 DEF Numeral
  <2>2. places + 2 \in 0 .. 22 /\ -(1 * value) = -value
    OBVIOUS
  <2>3. QED
    BY <1>7, <1>9, <1>10, <2>1, <2>2, Zenon

(* A small number has 64 bits.                                             *)
LEMMA SmallNumbers ==
  ASSUME NEW n \in 0 .. 1023
  PROVE  Is64Bits(n)
<1>1. PICK a \in Nat : a = Bits16 * (Bits16 * Bits16) /\ a > 1023
  BY Z3 DEF Bits16
<1>2. PICK c \in Nat : c = Bits16 * (Bits16 * (Bits16 * Bits16)) /\ c > 1023
  <2>1. a > 1023
    BY <1>1
  <2>2. Bits16 * a \in Nat /\ Bits16 * a > 1023
    BY <2>1 DEF Bits16
  <2>3. QED
    BY <1>1, <2>2
<1>3. Below(n, c)
  BY <1>2 DEF Below
<1>4. QED
  BY <1>2, <1>3 DEF Is64Bits

(* A number below 1000 has at most three digits, one below 10000 four.     *)
LEMMA FewDigits ==
  ASSUME NEW value \in Nat, NEW places \in 1 .. 20, HasDigits(value, 10, places)
  PROVE  (value < 1000 => places <= 3) /\ (value < 10000 => places <= 4)
<1> DEFINE r == Rests(value, 10)
<1>1. r[0] = value /\ \A j \in Nat : r[j] \in Int /\ r[j + 1] = Quotient(r[j], 10)
  BY RestsGoOn DEF Bases
<1>2. \A j \in 1 .. places - 1 : r[j] # 0
  BY DEF HasDigits
<1> HIDE DEF r
<1>3. r[1] = Quotient(r[0], 10) /\ r[2] = Quotient(r[1], 10) /\ r[3] = Quotient(r[2], 10) /\ r[4] = Quotient(r[3], 10)
  <2>1. r[0 + 1] = Quotient(r[0], 10) /\ r[1 + 1] = Quotient(r[1], 10)
        /\ r[2 + 1] = Quotient(r[2], 10) /\ r[3 + 1] = Quotient(r[3], 10)
    BY <1>1
  <2>2. QED
    BY <2>1
<1>4. ASSUME NEW x \in Nat
      PROVE  Quotient(x, 10) = x \div 10 /\ x \div 10 \in Nat
  <2>1. ~(x < 0) /\ x \div 10 \in Nat
    OBVIOUS
  <2>2. QED
    BY <2>1, Zenon DEF Quotient
<1>5. PICK a \in Nat : a = r[1] /\ a = value \div 10
  BY <1>1, <1>3, <1>4
<1>6. PICK b \in Nat : b = r[2] /\ b = a \div 10
  BY <1>3, <1>4, <1>5
<1>7. PICK c \in Nat : c = r[3] /\ c = b \div 10
  BY <1>3, <1>4, <1>6
<1>8. PICK d \in Nat : d = r[4] /\ d = c \div 10
  BY <1>3, <1>4, <1>7
<1>9. (value < 1000 => c = 0) /\ (value < 10000 => d = 0)
  BY <1>5, <1>6, <1>7, <1>8
<1>10. (c = 0 => places <= 3) /\ (d = 0 => places <= 4)
  <2>1. (c = 0 => 3 \notin 1 .. places - 1) /\ (d = 0 => 4 \notin 1 .. places - 1)
    BY <1>2, <1>7, <1>8, Zenon
  <2>2. (3 \notin 1 .. places - 1 => places <= 3) /\ (4 \notin 1 .. places - 1 => places <= 4)
    OBVIOUS
  <2>3. QED
    BY <2>1, <2>2, Zenon
<1>11. QED
  BY <1>9, <1>10

\* What is printed of a quantity with a unit.
Printable == 100 .. 1023
HasThree(n) == n < 1000

(* The digits of a quantity.                                               *)
LEMMA QuantityDigits ==
  ASSUME NEW n \in Printable
  PROVE  /\ NegatedValue(Converted(n, 10), 10) = -n
         /\ Len(Converted(n, 10)) \in 0 .. 4 /\ (HasThree(n) => Len(Converted(n, 10)) <= 3)
<1>1. Is64Bits(n) /\ 10 \in Bases /\ n \in Nat
  <2>1. n \in 0 .. 1023
    BY DEF Printable
  <2>2. QED
    BY <2>1, SmallNumbers, SMTT(30) DEF Bases
<1>2. PICK places \in 1 .. 20 :
         /\ HasDigits(n, 10, places)
         /\ Converted(n, 10) = [k \in 1 .. places |-> Digit(n, 10, places, k)]
  BY <1>1, ConvertedIs
<1>3. PICK d : d = Converted(n, 10)
  OBVIOUS
<1>4. Len(d) = places /\ \A k \in 1 .. places : d[k] = Digit(n, 10, places, k)
  BY <1>2, <1>3
<1>5. \A k \in 1 .. places : Digit(n, 10, places, k) \in Int
  BY <1>1, <1>2, DigitIs, Zenon
<1>6. AreDigits(d, n, 10, places, 1)
  BY <1>4, <1>5 DEF AreDigits
<1>7. NegatedValue(d, 10) = -(1 * n)
  BY <1>1, <1>2, <1>6, DigitsReturn
<1>8. places <= 4 /\ (HasThree(n) => places <= 3)
  BY <1>1, <1>2, FewDigits, SMTT(30) DEF Printable, HasThree
<1>9. Len(d) \in 0 .. 4 /\ (HasThree(n) => Len(d) <= 3) /\ -(1 * n) = -n
  BY <1>1, <1>4, <1>8
<1>10. QED
  BY <1>3, <1>7, <1>9, ZenonT(60)

(* What is printed is the quotient to the last digit, rounded: no more than *)
(* half of it away.                                                        *)
LEMMA PrintedIs ==
  ASSUME NEW q \in Nat, NEW unit \in Nat, unit > 0, NEW decimals \in 0 .. 2, NEW scale, scale = Pow10[decimals + 1],
         NEW n \in Printed(q, unit, decimals)
  PROVE  /\ n \in Nat
         /\ 2 * (unit * n) <= 2 * (scale * q) + unit
         /\ 2 * (scale * q) <= 2 * (unit * n) + unit
<1>1. scale \in {1, 10, 100}
  BY DEF Pow10
<1>2. PICK a \in Nat, b \in Nat : a = q \div unit /\ b = q % unit /\ q = unit * a + b /\ b < unit
  BY Z3
<1>3. PICK part \in Nat : part = b * scale
  BY <1>1
<1>4. PICK c \in Nat, rest \in Nat :
         c = part \div unit /\ rest = part % unit /\ part = unit * c + rest /\ rest < unit
  BY Z3
<1>5. PICK below \in Nat : below = a * scale + c
  BY <1>1
<1>6. n \in {below, below + 1} /\ IF n = below THEN 2 * rest <= unit ELSE 2 * rest >= unit
  BY <1>2, <1>3, <1>4, <1>5, Zenon DEF Printed
<1>7. unit * below + rest = scale * q
  <2>1. unit * below = unit * (a * scale) + unit * c
    BY <1>1, <1>5, Z3
  <2>2. unit * (a * scale) + b * scale = scale * q
    <3>1. CASE scale = 1
      BY <1>2, <3>1, Z3
    <3>2. CASE scale = 10
      BY <1>2, <3>2, Z3
    <3>3. CASE scale = 100
      BY <1>2, <3>3, Z3
    <3>4. QED
      BY <1>1, <3>1, <3>2, <3>3
  <2>3. unit * (a * scale) \in Int /\ unit * c \in Int /\ scale * q \in Int /\ unit * below \in Int
    BY <1>1, Z3
  <2>4. QED
    BY <1>3, <1>4, <2>1, <2>2, <2>3
<1>8. CASE n = below
  <2>1. unit * below \in Int /\ scale * q \in Int
    BY <1>1, Z3
  <2>2. QED
    BY <1>6, <1>7, <1>8, <2>1
<1>9. CASE n = below + 1
  <2>1. unit * below \in Int /\ scale * q \in Int /\ unit * n = unit * below + unit
    BY <1>1, <1>9, Z3
  <2>2. 2 * rest >= unit
    BY <1>6, <1>9
  <2>3. QED
    BY <1>4, <1>7, <1>9, <2>1, <2>2
<1>10. QED
  BY <1>6, <1>8, <1>9

(* The row of a table for a quantity: the first one that it is below.      *)
LEMMA RowIs ==
  ASSUME NEW rows, NEW q, NEW n \in Nat, n > 0, DOMAIN rows = 1 .. n,
         \A i \in 1 .. n : Thousandths(q, rows[i].unit) \in Int /\ rows[i].below \in Int,
         Thousandths(q, rows[n].unit) < rows[n].below
  PROVE  \E i \in 1 .. n :
            /\ RowOf(rows, q) = rows[i]
            /\ Thousandths(q, rows[i].unit) < rows[i].below
            /\ \A j \in 1 .. i - 1 : Thousandths(q, rows[j].unit) >= rows[j].below
<1> DEFINE S == {i \in 1 .. n : Thousandths(q, rows[i].unit) < rows[i].below}
           First(i) == /\ Thousandths(q, rows[i].unit) < rows[i].below
                       /\ \A j \in 1 .. i - 1 : Thousandths(q, rows[j].unit) >= rows[j].below
<1>1. PICK m \in S : \A j \in S : m <= j
  <2>1. S \in SUBSET Nat /\ n \in S
    OBVIOUS
  <2> HIDE DEF S
  <2>2. QED
    BY <2>1, LeastNumber
<1>2. First(m)
  <2>1. ASSUME NEW j \in 1 .. m - 1 PROVE Thousandths(q, rows[j].unit) >= rows[j].below
    <3>1. j \in 1 .. n /\ ~(m <= j)
      BY <1>1
    <3>2. j \notin S
      BY <1>1, <3>1
    <3>3. QED
      BY <3>1, <3>2
  <2>2. QED
    BY <1>1, <2>1
<1>3. m \in DOMAIN rows
  BY <1>1
<1>4. RowOf(rows, q) = rows[CHOOSE i \in DOMAIN rows : First(i)]
  BY Zenon DEF RowOf
<1> HIDE DEF First
<1>5. PICK i \in DOMAIN rows : First(i) /\ RowOf(rows, q) = rows[i]
  BY <1>2, <1>3, <1>4, Zenon
<1>6. QED
  BY <1>5, Zenon DEF First

\* A whole number of three digits; or one below 1024, with no decimals and six characters.
CanBePrinted(n, decimals, longest) ==
    n \in Printable /\ (HasThree(n) \/ (decimals = 0 /\ longest = 6))

\* What the tables are for: from their first unit on, below their last threshold.
QuantitiesSI == {q \in Nat : 1000 <= q /\ q < 999500000}
QuantitiesIEC == {q \in Nat : 1024 <= q /\ q < 1073217536}
TakenSI == (0 .. 999) \cup QuantitiesSI
TakenIEC == (0 .. 1023) \cup QuantitiesIEC

(* The rows of formatSI.                                                   *)
LEMMA RowsSI ==
  ASSUME NEW q \in QuantitiesSI
  PROVE  \/ RowOf(SIRows, q) = Row(1000, 9995, 2) /\ 1000 <= q /\ q < 9995
         \/ RowOf(SIRows, q) = Row(1000, 99950, 1) /\ 9995 <= q /\ q < 99950
         \/ RowOf(SIRows, q) = Row(1000, 999500, 0) /\ 99950 <= q /\ q < 999500
         \/ RowOf(SIRows, q) = Row(1000000, 9995, 2) /\ 999500 <= q /\ q < 9995000
         \/ RowOf(SIRows, q) = Row(1000000, 99950, 1) /\ 9995000 <= q /\ q < 99950000
         \/ RowOf(SIRows, q) = Row(1000000, 999500, 0) /\ 99950000 <= q /\ q < 999500000
<1>1. /\ DOMAIN SIRows = 1 .. 6
      /\ SIRows[1] = Row(1000, 9995, 2) /\ SIRows[2] = Row(1000, 99950, 1) /\ SIRows[3] = Row(1000, 999500, 0)
      /\ SIRows[4] = Row(1000000, 9995, 2) /\ SIRows[5] = Row(1000000, 99950, 1) /\ SIRows[6] = Row(1000000, 999500, 0)
  BY SMT DEF SIRows
<1>2. \A u, b, d : Row(u, b, d).unit = u /\ Row(u, b, d).below = b /\ Row(u, b, d).decimals = d
  BY Zenon DEF Row
<1>3. q \in Nat /\ 1000 <= q /\ q < 999500000
  BY SMT DEF QuantitiesSI
<1>4. Thousandths(q, 1000) = q
  BY <1>3, Z3 DEF Thousandths
<1>5. Thousandths(q, 1000000) = q \div 1000
  BY <1>3, Z3 DEF Thousandths
<1>6. PICK k \in Nat : k = q \div 1000 /\ 1000 * k <= q /\ q < 1000 * k + 1000
  BY <1>3, Z3
<1>7. PICK i \in 1 .. 6 :
         /\ RowOf(SIRows, q) = SIRows[i]
         /\ Thousandths(q, SIRows[i].unit) < SIRows[i].below
         /\ \A j \in 1 .. i - 1 : Thousandths(q, SIRows[j].unit) >= SIRows[j].below
  <2>1. \A j \in 1 .. 6 : Thousandths(q, SIRows[j].unit) \in Int /\ SIRows[j].below \in Int
    BY <1>1, <1>2, <1>3, <1>4, <1>5, <1>6, SMT
  <2>2. Thousandths(q, SIRows[6].unit) < SIRows[6].below
    BY <1>1, <1>2, <1>3, <1>5, <1>6, SMT
  <2>3. DOMAIN SIRows = 1 .. 6 /\ 6 \in Nat /\ 6 > 0
    BY <1>1, SMT
  <2>4. QED
    BY <2>1, <2>2, <2>3, RowIs
<1>8. CASE i = 1
  BY <1>1, <1>2, <1>3, <1>4, <1>7, <1>8, SMT
<1>9. CASE i = 2
  BY <1>1, <1>2, <1>3, <1>4, <1>7, <1>9, SMT
<1>10. CASE i = 3
  BY <1>1, <1>2, <1>3, <1>4, <1>7, <1>10, SMT
<1>11. CASE i = 4
  BY <1>1, <1>2, <1>3, <1>4, <1>5, <1>6, <1>7, <1>11, SMT
<1>12. CASE i = 5
  BY <1>1, <1>2, <1>3, <1>5, <1>6, <1>7, <1>12, SMT
<1>13. CASE i = 6
  BY <1>1, <1>2, <1>3, <1>5, <1>6, <1>7, <1>13, SMT
<1>14. QED
  BY <1>8, <1>9, <1>10, <1>11, <1>12, <1>13, SMT

(* Thousandths rounds down.                                                *)
LEMMA ThousandthsAre ==
  ASSUME NEW q \in Nat, NEW unit \in Nat, unit > 0
  PROVE  /\ Thousandths(q, unit) \in Nat
         /\ unit * Thousandths(q, unit) <= 1000 * q /\ 1000 * q < unit * Thousandths(q, unit) + unit
<1>1. PICK a \in Nat, b \in Nat : a = q \div unit /\ b = q % unit /\ q = unit * a + b /\ b < unit
  BY Z3
<1>2. PICK c \in Nat, d \in Nat : c = (b * 1000) \div unit /\ b * 1000 = unit * c + d /\ d < unit
  BY Z3
<1>3. PICK t \in Nat : t = a * 1000 + c
  OBVIOUS
<1>4. Thousandths(q, unit) = t
  BY <1>1, <1>2, <1>3 DEF Thousandths
<1>5. unit * t = 1000 * (unit * a) + unit * c
  BY <1>3, Z3
<1>6. unit * t + d = 1000 * q
  <2>1. unit * a \in Int /\ unit * c \in Int /\ unit * t \in Int
    BY Z3
  <2>2. QED
    BY <1>1, <1>2, <1>5, <2>1
<1>7. unit * t \in Int
  BY Z3
<1>8. QED
  BY <1>2, <1>4, <1>6, <1>7

(* The rows of formatIEC.                                                  *)
LEMMA RowsIEC ==
  ASSUME NEW q \in QuantitiesIEC
  PROVE  \/ RowOf(IECRows, q) = Row(1024, 9995, 2) /\ 1024 <= q /\ 1000 * q < 1024 * 9995
         \/ RowOf(IECRows, q) = Row(1024, 99950, 1) /\ 1024 * 9995 <= 1000 * q /\ 1000 * q < 1024 * 99950
         \/ RowOf(IECRows, q) = Row(1024, 1023500, 0) /\ 1024 * 99950 <= 1000 * q /\ 1000 * q < 1024 * 1023500
         \/ RowOf(IECRows, q) = Row(1048576, 9995, 2) /\ 1024 * 1023500 <= 1000 * q /\ 1000 * q < 1048576 * 9995
         \/ RowOf(IECRows, q) = Row(1048576, 99950, 1) /\ 1048576 * 9995 <= 1000 * q /\ 1000 * q < 1048576 * 99950
         \/ RowOf(IECRows, q) = Row(1048576, 1023500, 0) /\ 1048576 * 99950 <= 1000 * q /\ 1000 * q < 1048576 * 1023500
<1>1. /\ DOMAIN IECRows = 1 .. 6
      /\ IECRows[1] = Row(1024, 9995, 2) /\ IECRows[2] = Row(1024, 99950, 1) /\ IECRows[3] = Row(1024, 1023500, 0)
      /\ IECRows[4] = Row(1048576, 9995, 2) /\ IECRows[5] = Row(1048576, 99950, 1)
      /\ IECRows[6] = Row(1048576, 1023500, 0)
  BY SMT DEF IECRows
<1>2. \A u, b, d : Row(u, b, d).unit = u /\ Row(u, b, d).below = b /\ Row(u, b, d).decimals = d
  BY Zenon DEF Row
<1>3. q \in Nat /\ 1024 <= q /\ 1000 * q < 1048576 * 1023500
  BY SMT DEF QuantitiesIEC
<1>4. PICK k \in Nat : k = Thousandths(q, 1024) /\ 1024 * k <= 1000 * q /\ 1000 * q < 1024 * k + 1024
  BY <1>3, ThousandthsAre, SMT
<1>5. PICK m \in Nat : m = Thousandths(q, 1048576) /\ 1048576 * m <= 1000 * q /\ 1000 * q < 1048576 * m + 1048576
  BY <1>3, ThousandthsAre, SMT
<1>6. PICK i \in 1 .. 6 :
         /\ RowOf(IECRows, q) = IECRows[i]
         /\ Thousandths(q, IECRows[i].unit) < IECRows[i].below
         /\ \A j \in 1 .. i - 1 : Thousandths(q, IECRows[j].unit) >= IECRows[j].below
  <2>1. \A j \in 1 .. 6 : Thousandths(q, IECRows[j].unit) \in Int /\ IECRows[j].below \in Int
    BY <1>1, <1>2, <1>4, <1>5, SMT
  <2>2. Thousandths(q, IECRows[6].unit) < IECRows[6].below
    BY <1>1, <1>2, <1>3, <1>5, SMT
  <2>3. DOMAIN IECRows = 1 .. 6 /\ 6 \in Nat /\ 6 > 0
    BY <1>1, SMT
  <2>4. QED
    BY <2>1, <2>2, <2>3, RowIs
<1>7. CASE i = 1
  BY <1>1, <1>2, <1>3, <1>4, <1>6, <1>7, SMT
<1>8. CASE i = 2
  BY <1>1, <1>2, <1>3, <1>4, <1>6, <1>8, SMT
<1>9. CASE i = 3
  BY <1>1, <1>2, <1>3, <1>4, <1>6, <1>9, SMT
<1>10. CASE i = 4
  BY <1>1, <1>2, <1>3, <1>4, <1>5, <1>6, <1>10, SMT
<1>11. CASE i = 5
  BY <1>1, <1>2, <1>3, <1>5, <1>6, <1>11, SMT
<1>12. CASE i = 6
  BY <1>1, <1>2, <1>3, <1>5, <1>6, <1>12, SMT
<1>13. QED
  BY <1>7, <1>8, <1>9, <1>10, <1>11, <1>12, SMT

\* A quantity that a row is for: rounded, it is at least 100 and less than most.
Suits(q, unit, decimals, scale, most) ==
    /\ q \in Nat /\ unit \in Nat /\ unit > 0 /\ decimals \in 0 .. 2
    /\ scale \in Nat /\ scale = Pow10[decimals + 1]
    /\ 2 * (99 * unit) + unit < 2 * (scale * q) /\ 2 * (scale * q) + unit < 2 * (most * unit)
    /\ most = 1000 \/ (decimals = 0 /\ most = 1024)

\* It has three digits or, below most, four.
Shown(n, most) == n \in Nat /\ 100 <= n /\ n < most

(* What a row prints: three digits that count.                             *)
LEMMA RowPrints ==
  ASSUME NEW q, NEW unit, NEW below, NEW decimals, NEW scale, NEW most, Suits(q, unit, decimals, scale, most),
         NEW row, row = Row(unit, below, decimals), NEW n \in Printed(q, row.unit, row.decimals)
  PROVE  row.decimals = decimals /\ Shown(n, most)
<1>0. /\ q \in Nat /\ unit \in Nat /\ unit > 0 /\ decimals \in 0 .. 2
      /\ scale \in Nat /\ scale = Pow10[decimals + 1]
      /\ 2 * (99 * unit) + unit < 2 * (scale * q) /\ 2 * (scale * q) + unit < 2 * (most * unit)
      /\ most \in Nat /\ (most = 1000 \/ (decimals = 0 /\ most = 1024))
  BY SMT DEF Suits
<1>1. row.unit = unit /\ row.decimals = decimals
  BY DEF Row
<1>2. /\ n \in Nat /\ 2 * (unit * n) <= 2 * (scale * q) + unit /\ 2 * (scale * q) <= 2 * (unit * n) + unit
  BY <1>0, <1>1, PrintedIs
<1>3. /\ scale * q \in Int /\ unit * n \in Int /\ most * unit \in Int /\ most * unit = unit * most
  BY <1>0, <1>2, Z3
<1>4. unit * 99 < unit * n
  BY <1>0, <1>2, <1>3
<1>5. n > 99
  BY <1>0, <1>2, <1>4, Z3
<1>6. unit * n < unit * most
  BY <1>0, <1>2, <1>3
<1>7. n < most
  BY <1>0, <1>2, <1>6, Z3
<1>8. QED
  BY <1>0, <1>1, <1>2, <1>5, <1>7 DEF Shown

(* What formatSI prints.                                                   *)
LEMMA PrintsSI ==
  ASSUME NEW q \in QuantitiesSI, NEW row, row = RowOf(SIRows, q), NEW n \in Printed(q, row.unit, row.decimals)
  PROVE  row.decimals \in 0 .. 2 /\ CanBePrinted(n, row.decimals, 5)
<1>1. q \in Nat
  BY SMT DEF QuantitiesSI
<1>2. CASE row = Row(1000, 9995, 2) /\ 1000 <= q /\ q < 9995
  <2>1. 2 * (99 * 1000) + 1000 < 2 * (100 * q) /\ 2 * (100 * q) + 1000 < 2 * (1000 * 1000)
    BY <1>1, <1>2, SMT
  <2>2. 100 = Pow10[2 + 1]
    BY SMT DEF Pow10
  <2>3. Suits(q, 1000, 2, 100, 1000)
    BY <1>1, <2>1, <2>2, SMT DEF Suits
  <2>4. row.decimals = 2 /\ Shown(n, 1000)
    BY <1>2, <2>3, RowPrints, SMT
  <2>5. QED
    BY <2>4, SMT DEF CanBePrinted, Printable, HasThree, Shown
<1>3. CASE row = Row(1000, 99950, 1) /\ 9995 <= q /\ q < 99950
  <2>1. 2 * (99 * 1000) + 1000 < 2 * (10 * q) /\ 2 * (10 * q) + 1000 < 2 * (1000 * 1000)
    BY <1>1, <1>3, SMT
  <2>2. 10 = Pow10[1 + 1]
    BY SMT DEF Pow10
  <2>3. Suits(q, 1000, 1, 10, 1000)
    BY <1>1, <2>1, <2>2, SMT DEF Suits
  <2>4. row.decimals = 1 /\ Shown(n, 1000)
    BY <1>3, <2>3, RowPrints, SMT
  <2>5. QED
    BY <2>4, SMT DEF CanBePrinted, Printable, HasThree, Shown
<1>4. CASE row = Row(1000, 999500, 0) /\ 99950 <= q /\ q < 999500
  <2>1. 2 * (99 * 1000) + 1000 < 2 * (1 * q) /\ 2 * (1 * q) + 1000 < 2 * (1000 * 1000)
    BY <1>1, <1>4, SMT
  <2>2. 1 = Pow10[0 + 1]
    BY SMT DEF Pow10
  <2>3. Suits(q, 1000, 0, 1, 1000)
    BY <1>1, <2>1, <2>2, SMT DEF Suits
  <2>4. row.decimals = 0 /\ Shown(n, 1000)
    BY <1>4, <2>3, RowPrints, SMT
  <2>5. QED
    BY <2>4, SMT DEF CanBePrinted, Printable, HasThree, Shown
<1>5. CASE row = Row(1000000, 9995, 2) /\ 999500 <= q /\ q < 9995000
  <2>1. 2 * (99 * 1000000) + 1000000 < 2 * (100 * q) /\ 2 * (100 * q) + 1000000 < 2 * (1000 * 1000000)
    BY <1>1, <1>5, SMT
  <2>2. 100 = Pow10[2 + 1]
    BY SMT DEF Pow10
  <2>3. Suits(q, 1000000, 2, 100, 1000)
    BY <1>1, <2>1, <2>2, SMT DEF Suits
  <2>4. row.decimals = 2 /\ Shown(n, 1000)
    BY <1>5, <2>3, RowPrints, SMT
  <2>5. QED
    BY <2>4, SMT DEF CanBePrinted, Printable, HasThree, Shown
<1>6. CASE row = Row(1000000, 99950, 1) /\ 9995000 <= q /\ q < 99950000
  <2>1. 2 * (99 * 1000000) + 1000000 < 2 * (10 * q) /\ 2 * (10 * q) + 1000000 < 2 * (1000 * 1000000)
    BY <1>1, <1>6, SMT
  <2>2. 10 = Pow10[1 + 1]
    BY SMT DEF Pow10
  <2>3. Suits(q, 1000000, 1, 10, 1000)
    BY <1>1, <2>1, <2>2, SMT DEF Suits
  <2>4. row.decimals = 1 /\ Shown(n, 1000)
    BY <1>6, <2>3, RowPrints, SMT
  <2>5. QED
    BY <2>4, SMT DEF CanBePrinted, Printable, HasThree, Shown
<1>7. CASE row = Row(1000000, 999500, 0) /\ 99950000 <= q /\ q < 999500000
  <2>1. 2 * (99 * 1000000) + 1000000 < 2 * (1 * q) /\ 2 * (1 * q) + 1000000 < 2 * (1000 * 1000000)
    BY <1>1, <1>7, SMT
  <2>2. 1 = Pow10[0 + 1]
    BY SMT DEF Pow10
  <2>3. Suits(q, 1000000, 0, 1, 1000)
    BY <1>1, <2>1, <2>2, SMT DEF Suits
  <2>4. row.decimals = 0 /\ Shown(n, 1000)
    BY <1>7, <2>3, RowPrints, SMT
  <2>5. QED
    BY <2>4, SMT DEF CanBePrinted, Printable, HasThree, Shown
<1>8. QED
  BY <1>1, <1>2, <1>3, <1>4, <1>5, <1>6, <1>7, RowsSI, SMT

(* What formatIEC prints.                                                  *)
LEMMA PrintsIEC ==
  ASSUME NEW q \in QuantitiesIEC, NEW row, row = RowOf(IECRows, q), NEW n \in Printed(q, row.unit, row.decimals)
  PROVE  row.decimals \in 0 .. 2 /\ CanBePrinted(n, row.decimals, 6)
<1>1. q \in Nat
  BY SMT DEF QuantitiesIEC
<1>2. CASE row = Row(1024, 9995, 2) /\ 1024 <= q /\ 1000 * q < 1024 * 9995
  <2>1. 2 * (99 * 1024) + 1024 < 2 * (100 * q) /\ 2 * (100 * q) + 1024 < 2 * (1000 * 1024)
    BY <1>1, <1>2, SMT
  <2>2. 100 = Pow10[2 + 1]
    BY SMT DEF Pow10
  <2>3. Suits(q, 1024, 2, 100, 1000)
    BY <1>1, <2>1, <2>2, SMT DEF Suits
  <2>4. row.decimals = 2 /\ Shown(n, 1000)
    BY <1>2, <2>3, RowPrints, SMT
  <2>5. QED
    BY <2>4, SMT DEF CanBePrinted, Printable, HasThree, Shown
<1>3. CASE row = Row(1024, 99950, 1) /\ 1024 * 9995 <= 1000 * q /\ 1000 * q < 1024 * 99950
  <2>1. 2 * (99 * 1024) + 1024 < 2 * (10 * q) /\ 2 * (10 * q) + 1024 < 2 * (1000 * 1024)
    BY <1>1, <1>3, SMT
  <2>2. 10 = Pow10[1 + 1]
    BY SMT DEF Pow10
  <2>3. Suits(q, 1024, 1, 10, 1000)
    BY <1>1, <2>1, <2>2, SMT DEF Suits
  <2>4. row.decimals = 1 /\ Shown(n, 1000)
    BY <1>3, <2>3, RowPrints, SMT
  <2>5. QED
    BY <2>4, SMT DEF CanBePrinted, Printable, HasThree, Shown
<1>4. CASE row = Row(1024, 1023500, 0) /\ 1024 * 99950 <= 1000 * q /\ 1000 * q < 1024 * 1023500
  <2>1. 2 * (99 * 1024) + 1024 < 2 * (1 * q) /\ 2 * (1 * q) + 1024 < 2 * (1024 * 1024)
    BY <1>1, <1>4, SMT
  <2>2. 1 = Pow10[0 + 1]
    BY SMT DEF Pow10
  <2>3. Suits(q, 1024, 0, 1, 1024)
    BY <1>1, <2>1, <2>2, SMT DEF Suits
  <2>4. row.decimals = 0 /\ Shown(n, 1024)
    BY <1>4, <2>3, RowPrints, SMT
  <2>5. QED
    BY <2>4, SMT DEF CanBePrinted, Printable, HasThree, Shown
<1>5. CASE row = Row(1048576, 9995, 2) /\ 1024 * 1023500 <= 1000 * q /\ 1000 * q < 1048576 * 9995
  <2>1. 2 * (99 * 1048576) + 1048576 < 2 * (100 * q) /\ 2 * (100 * q) + 1048576 < 2 * (1000 * 1048576)
    BY <1>1, <1>5, SMT
  <2>2. 100 = Pow10[2 + 1]
    BY SMT DEF Pow10
  <2>3. Suits(q, 1048576, 2, 100, 1000)
    BY <1>1, <2>1, <2>2, SMT DEF Suits
  <2>4. row.decimals = 2 /\ Shown(n, 1000)
    BY <1>5, <2>3, RowPrints, SMT
  <2>5. QED
    BY <2>4, SMT DEF CanBePrinted, Printable, HasThree, Shown
<1>6. CASE row = Row(1048576, 99950, 1) /\ 1048576 * 9995 <= 1000 * q /\ 1000 * q < 1048576 * 99950
  <2>1. 2 * (99 * 1048576) + 1048576 < 2 * (10 * q) /\ 2 * (10 * q) + 1048576 < 2 * (1000 * 1048576)
    BY <1>1, <1>6, SMT
  <2>2. 10 = Pow10[1 + 1]
    BY SMT DEF Pow10
  <2>3. Suits(q, 1048576, 1, 10, 1000)
    BY <1>1, <2>1, <2>2, SMT DEF Suits
  <2>4. row.decimals = 1 /\ Shown(n, 1000)
    BY <1>6, <2>3, RowPrints, SMT
  <2>5. QED
    BY <2>4, SMT DEF CanBePrinted, Printable, HasThree, Shown
<1>7. CASE row = Row(1048576, 1023500, 0) /\ 1048576 * 99950 <= 1000 * q /\ 1000 * q < 1048576 * 1023500
  <2>1. 2 * (99 * 1048576) + 1048576 < 2 * (1 * q) /\ 2 * (1 * q) + 1048576 < 2 * (1024 * 1048576)
    BY <1>1, <1>7, SMT
  <2>2. 1 = Pow10[0 + 1]
    BY SMT DEF Pow10
  <2>3. Suits(q, 1048576, 0, 1, 1024)
    BY <1>1, <2>1, <2>2, SMT DEF Suits
  <2>4. row.decimals = 0 /\ Shown(n, 1024)
    BY <1>7, <2>3, RowPrints, SMT
  <2>5. QED
    BY <2>4, SMT DEF CanBePrinted, Printable, HasThree, Shown
<1>8. QED
  BY <1>1, <1>2, <1>3, <1>4, <1>5, <1>6, <1>7, RowsIEC, SMT

\* What NumbersFit says of a piece.
NumberIsRight(piece) ==
    CASE piece.what = "integer" -> DecimalOf(piece.text, piece.of)
      [] piece.what = "pointer" -> NegatedValue(piece.text.digits, 16) = -piece.of
      [] piece.what \in {"SI", "IEC"} ->
            LET longest == IF piece.what = "SI" THEN 5 ELSE 6 IN
            /\ piece.len <= longest
            /\ IF piece.text.letters = 0 THEN DecimalOf(piece.text, piece.of)
               ELSE ThreeDigits(piece.text, longest)
      [] OTHER -> TRUE

\* A kind of quantity, the characters it may have, and those of its unit.
Quantity(what, longest, letters) ==
    \/ what = "SI" /\ longest = 5 /\ letters = 1
    \/ what = "IEC" /\ longest = 6 /\ letters = 2

(* A piece of one kind, and what it takes to be right.                     *)
LEMMA RightByKind ==
  ASSUME NEW piece
  PROVE  /\ piece.what = "integer" /\ DecimalOf(piece.text, piece.of) => NumberIsRight(piece)
         /\ piece.what = "pointer" /\ NegatedValue(piece.text.digits, 16) = -piece.of => NumberIsRight(piece)
         /\ piece.what \notin {"integer", "pointer", "SI", "IEC"} => NumberIsRight(piece)
<1>1. ASSUME piece.what = "integer", DecimalOf(piece.text, piece.of)
      PROVE  NumberIsRight(piece)
  BY <1>1 DEF NumberIsRight
<1>2. ASSUME piece.what = "pointer", NegatedValue(piece.text.digits, 16) = -piece.of
      PROVE  NumberIsRight(piece)
  BY <1>2 DEF NumberIsRight
<1>3. ASSUME piece.what \notin {"integer", "pointer", "SI", "IEC"}
      PROVE  NumberIsRight(piece)
  BY <1>3 DEF NumberIsRight
<1>4. QED
  BY <1>1, <1>2, <1>3, Zenon

\* A quantity is right, with a unit or without.
QuantityIsRight(piece, longest) ==
    /\ piece.len <= longest
    /\ \/ piece.text.letters = 0 /\ DecimalOf(piece.text, piece.of)
       \/ piece.text.letters # 0 /\ ThreeDigits(piece.text, longest)

(* The same of a quantity.                                                 *)
LEMMA RightQuantity ==
  ASSUME NEW what, NEW longest, NEW letters, Quantity(what, longest, letters),
         NEW piece, piece.what = what, QuantityIsRight(piece, longest)
  PROVE  NumberIsRight(piece)
<1>1. CASE piece.what = "SI" /\ longest = 5
  BY <1>1 DEF NumberIsRight, QuantityIsRight
<1>2. CASE piece.what = "IEC" /\ longest = 6
  BY <1>2 DEF NumberIsRight, QuantityIsRight
<1>3. QED
  BY <1>1, <1>2 DEF Quantity

\* A quantity below the tables.
IsSmall(value) == value \in 0 .. 1023

(* It is printed as an integer.                                            *)
LEMMA SmallIsRight ==
  ASSUME NEW value, IsSmall(value), NEW what, NEW longest, NEW letters,
         Quantity(what, longest, letters),
         NEW piece, piece = [Integer(value) EXCEPT !.what = what]
  PROVE  NumberIsRight(piece) /\ piece.what = what /\ piece.len \in Nat
<1>0. Is64Bits(value) /\ value \in Nat
  BY SmallNumbers, SMTT(30) DEF IsSmall
<1>1. PICK places, text :
         /\ places \in 1 .. 20 /\ HasDigits(value, 10, places)
         /\ Integer(value) = Numeral("integer", value, text)
         /\ DecimalOf(text, value) /\ text.letters = 0
         /\ Chars(text) = (IF value < 0 THEN 1 ELSE 0) + places
  BY <1>0, IntegerIs, Zenon
<1>2. piece = Numeral(what, value, text)
  <2>1. [Numeral("integer", value, text) EXCEPT !.what = what] = Numeral(what, value, text)
    BY SMT DEF Numeral
  <2>2. QED
    BY <1>1, <2>1
<1>3. piece.what = what /\ piece.of = value /\ piece.text = text /\ piece.len = Chars(text)
  BY <1>2 DEF Numeral
<1>4. Chars(text) = places
  <2>1. (IF value < 0 THEN 1 ELSE 0) = 0 /\ 0 + places = places
    BY <1>0, <1>1
  <2>2. QED
    BY <1>1, <2>1, Zenon
<1>5. places \in 1 .. 4
  BY <1>1, FewDigits, SMTT(30) DEF IsSmall
<1>6. longest \in {5, 6}
  BY DEF Quantity
<1>7. piece.len \in Nat /\ piece.len <= longest
  BY <1>3, <1>4, <1>5, <1>6
<1>8. QuantityIsRight(piece, longest)
  BY <1>1, <1>3, <1>7 DEF QuantityIsRight
<1>9. NumberIsRight(piece)
  BY <1>3, <1>8, RightQuantity, Zenon
<1>10. QED
  BY <1>3, <1>7, <1>9, SMTT(30)

\* A quantity with a unit, printed with the digits of n.
IsQuantity(piece, what, n, decimals, letters) ==
    /\ piece.what = what /\ piece.len = Chars(piece.text)
    /\ ~piece.text.negative /\ piece.text.digits = Converted(n, 10)
    /\ piece.text.decimals = decimals /\ piece.text.letters = letters

(* A quantity with a unit has three digits that count.                     *)
LEMMA LargeIsRight ==
  ASSUME NEW n, NEW decimals \in 0 .. 2, NEW what, NEW longest, NEW letters,
         Quantity(what, longest, letters), CanBePrinted(n, decimals, longest),
         NEW piece, IsQuantity(piece, what, n, decimals, letters)
  PROVE  NumberIsRight(piece) /\ piece.what = what /\ piece.len \in Nat
<1>1. n \in Printable /\ (HasThree(n) \/ (decimals = 0 /\ longest = 6))
  BY DEF CanBePrinted
<1>2. PICK text, d : text = piece.text /\ d = text.digits
  OBVIOUS
<1>3. /\ piece.what = what /\ piece.len = Chars(text) /\ ~text.negative
      /\ text.decimals = decimals /\ text.letters = letters /\ d = Converted(n, 10)
  BY <1>2, Zenon DEF IsQuantity
<1>4. NegatedValue(d, 10) = -n /\ Len(d) \in 0 .. 4 /\ (HasThree(n) => Len(d) <= 3)
  BY <1>1, <1>3, QuantityDigits, Zenon
<1>5. \/ longest = 5 /\ letters = 1
      \/ longest = 6 /\ letters = 2
  BY DEF Quantity
<1>6. PICK point \in 0 .. 1 : point = IF decimals > 0 THEN 1 ELSE 0
  OBVIOUS
<1>7. PICK k \in 0 .. 4 : k = Len(d)
  BY <1>4
<1>8. piece.len = k + point + letters
  <2>1. (IF text.negative THEN 1 ELSE 0) = 0
    BY <1>3, Zenon
  <2>2. Chars(text) = 0 + k + point + letters
    BY <1>2, <1>3, <1>6, <1>7, <2>1, Zenon DEF Chars
  <2>3. 0 + k + point + letters = k + point + letters
    BY <1>5
  <2>4. QED
    BY <1>3, <2>2, <2>3, Zenon
<1>9. piece.len \in Nat /\ piece.len <= longest
  <2>1. (HasThree(n) => k <= 3) /\ (decimals = 0 => point = 0)
    BY <1>4, <1>6, <1>7
  <2>2. k + point + letters \in Nat /\ k + point + letters <= longest
    BY <1>1, <1>5, <2>1
  <2>3. QED
    BY <1>8, <2>2, Zenon
<1>10. ThreeDigits(text, longest)
  <2>1. -NegatedValue(text.digits, 10) = n
    BY <1>1, <1>2, <1>4 DEF Printable
  <2>2. PICK m : m = -NegatedValue(text.digits, 10)
    OBVIOUS
  <2>3. m >= 100 /\ (m < 1000 \/ (text.decimals = 0 /\ longest = 6 /\ m < 1024))
    BY <1>1, <1>3, <2>1, <2>2, SMT DEF Printable, HasThree
  <2>4. QED
    BY <2>2, <2>3, SMT DEF ThreeDigits
<1>11. text.letters # 0
  BY <1>3, <1>5
<1>12. QuantityIsRight(piece, longest)
  BY <1>2, <1>9, <1>10, <1>11, Zenon DEF QuantityIsRight
<1>13. NumberIsRight(piece)
  BY <1>3, <1>12, RightQuantity
<1>14. QED
  BY <1>3, <1>9, <1>13

-----------------------------------------------------------------------------
(* Lines whose numbers are right *)

\* What may be streamed: numbers of 64 bits, quantities that the tables have a row for, texts,
\* and what snprintf(3) makes of a double.
IsStreamed(piece) ==
    \/ \E value : Is64Bits(value) /\ piece = Integer(value)
    \/ \E value \in Nat : Is64Bits(value) /\ piece = Pointer(value)
    \/ \E value \in TakenSI : piece \in FormatSI(value)
    \/ \E value \in TakenIEC : piece \in FormatIEC(value)
    \/ \E len \in Nat : piece = Text("text", len)
    \/ \E len \in Nat : len < kMaxNumericSize /\ piece = Text("double", len)

IsRight(piece) == NumberIsRight(piece) /\ IsPiece(piece)

(* What Formatted may return.                                              *)
LEMMA FormattedIs ==
  ASSUME NEW what, NEW value, NEW least, NEW rows, NEW letters,
         NEW piece \in Formatted(what, value, least, rows, letters)
  PROVE  \/ value < least /\ piece = [Integer(value) EXCEPT !.what = what]
         \/ /\ ~(value < least)
            /\ \E row, n : /\ row = RowOf(rows, value) /\ n \in Printed(value, row.unit, row.decimals)
                           /\ IsQuantity(piece, what, n, row.decimals, letters)
<1>1. CASE value < least
  BY <1>1, Zenon DEF Formatted
<1>2. CASE ~(value < least)
  <2>1. PICK row : row = RowOf(rows, value)
    OBVIOUS
  <2>2. PICK n \in Printed(value, row.unit, row.decimals) :
           piece = Numeral(what, value, TextOf(FALSE, Converted(n, 10), row.decimals, letters))
    BY <1>2, <2>1, Zenon DEF Formatted, TextOf
  <2>3. IsQuantity(piece, what, n, row.decimals, letters)
    <3>1. PICK text : text = TextOf(FALSE, Converted(n, 10), row.decimals, letters)
      OBVIOUS
    <3>2. ~text.negative /\ text.digits = Converted(n, 10) /\ text.decimals = row.decimals /\ text.letters = letters
      BY <3>1, Zenon DEF TextOf
    <3>3. piece = Numeral(what, value, text)
      BY <2>2, <3>1, Zenon
    <3>4. piece.what = what /\ piece.text = text /\ piece.len = Chars(text)
      BY <3>3, Zenon DEF Numeral
    <3>5. QED
      BY <3>2, <3>4, Zenon DEF IsQuantity
  <2>4. QED
    BY <1>2, <2>1, <2>2, <2>3, Zenon
<1>3. QED
  BY <1>1, <1>2, Zenon

(* Whatever may be streamed is right, and short enough for the room that   *)
(* is left for a number.                                                   *)
LEMMA StreamedIsRight ==
  ASSUME kMaxNumericSize > 28, NEW piece, IsStreamed(piece)
  PROVE  IsRight(piece)
<1>1. kMaxNumericSize \in Nat
  BY StreamAssumption
<1>2. ASSUME NEW value, Is64Bits(value), piece = Integer(value)
      PROVE  IsRight(piece)
  <2>1. PICK places, text :
           /\ places \in 1 .. 20 /\ Integer(value) = Numeral("integer", value, text)
           /\ DecimalOf(text, value)
           /\ Chars(text) = (IF value < 0 THEN 1 ELSE 0) + places
    BY <1>2, IntegerIs
  <2>2. piece.what = "integer" /\ piece.of = value /\ piece.text = text /\ piece.len = Chars(text)
    BY <1>2, <2>1 DEF Numeral
  <2>3. Chars(text) \in 0 .. 21
    BY <2>1
  <2>4. IsPiece(piece)
    BY <1>1, <2>2, <2>3 DEF IsPiece
  <2>5. NumberIsRight(piece)
    BY <2>1, <2>2, RightByKind
  <2>6. QED
    BY <2>4, <2>5 DEF IsRight
<1>3. ASSUME NEW value \in Nat, Is64Bits(value), piece = Pointer(value)
      PROVE  IsRight(piece)
  <2>1. /\ NegatedValue(piece.text.digits, 16) = -piece.of
        /\ piece.what = "pointer" /\ piece.len \in 0 .. 22
    BY <1>3, PointerIs, Zenon
  <2>2. IsPiece(piece)
    BY <1>1, <2>1 DEF IsPiece
  <2>3. NumberIsRight(piece)
    BY <2>1, RightByKind
  <2>4. QED
    BY <2>2, <2>3 DEF IsRight
<1>4. ASSUME NEW what, piece.what = what, what \in {"SI", "IEC"}, NumberIsRight(piece), piece.len \in Nat
      PROVE  IsRight(piece)
  BY <1>4 DEF IsRight, IsPiece, IsNumeric
<1>5. ASSUME NEW value \in TakenSI, piece \in FormatSI(value)
      PROVE  IsRight(piece)
  <2>1. Quantity("SI", 5, 1)
    BY Zenon DEF Quantity
  <2>2. piece \in Formatted("SI", value, 1000, SIRows, 1)
    BY <1>5, SMT DEF FormatSI
  <2>3. CASE value < 1000 /\ piece = [Integer(value) EXCEPT !.what = "SI"]
    <3>1. IsSmall(value) /\ piece = [Integer(value) EXCEPT !.what = "SI"]
      BY <2>3, SMT DEF TakenSI, QuantitiesSI, IsSmall
    <3>2. NumberIsRight(piece) /\ piece.what = "SI" /\ piece.len \in Nat
      BY <2>1, <3>1, SmallIsRight, ZenonT(60)
    <3>3. QED
      BY <1>4, <3>2
  <2>4. CASE ~(value < 1000) /\ \E row, n : /\ row = RowOf(SIRows, value)
                                             /\ n \in Printed(value, row.unit, row.decimals)
                                             /\ IsQuantity(piece, "SI", n, row.decimals, 1)
    <3>1. value \in QuantitiesSI
      BY <2>4, SMT DEF TakenSI
    <3>2. PICK row, n : /\ row = RowOf(SIRows, value) /\ n \in Printed(value, row.unit, row.decimals)
                        /\ IsQuantity(piece, "SI", n, row.decimals, 1)
      BY <2>4
    <3>3. row.decimals \in 0 .. 2 /\ CanBePrinted(n, row.decimals, 5)
      BY <3>1, <3>2, PrintsSI
    <3>4. NumberIsRight(piece) /\ piece.what = "SI" /\ piece.len \in Nat
      BY <2>1, <3>2, <3>3, LargeIsRight
    <3>5. QED
      BY <1>4, <3>4
  <2>5. QED
    BY <2>2, <2>3, <2>4, FormattedIs
<1>6. ASSUME NEW value \in TakenIEC, piece \in FormatIEC(value)
      PROVE  IsRight(piece)
  <2>1. Quantity("IEC", 6, 2)
    BY Zenon DEF Quantity
  <2>2. piece \in Formatted("IEC", value, 1024, IECRows, 2)
    BY <1>6, SMT DEF FormatIEC
  <2>3. CASE value < 1024 /\ piece = [Integer(value) EXCEPT !.what = "IEC"]
    <3>1. IsSmall(value) /\ piece = [Integer(value) EXCEPT !.what = "IEC"]
      BY <2>3, SMT DEF TakenIEC, QuantitiesIEC, IsSmall
    <3>2. NumberIsRight(piece) /\ piece.what = "IEC" /\ piece.len \in Nat
      BY <2>1, <3>1, SmallIsRight, ZenonT(60)
    <3>3. QED
      BY <1>4, <3>2
  <2>4. CASE ~(value < 1024) /\ \E row, n : /\ row = RowOf(IECRows, value)
                                             /\ n \in Printed(value, row.unit, row.decimals)
                                             /\ IsQuantity(piece, "IEC", n, row.decimals, 2)
    <3>1. value \in QuantitiesIEC
      BY <2>4, SMT DEF TakenIEC
    <3>2. PICK row, n : /\ row = RowOf(IECRows, value) /\ n \in Printed(value, row.unit, row.decimals)
                        /\ IsQuantity(piece, "IEC", n, row.decimals, 2)
      BY <2>4
    <3>3. row.decimals \in 0 .. 2 /\ CanBePrinted(n, row.decimals, 6)
      BY <3>1, <3>2, PrintsIEC
    <3>4. NumberIsRight(piece) /\ piece.what = "IEC" /\ piece.len \in Nat
      BY <2>1, <3>2, <3>3, LargeIsRight
    <3>5. QED
      BY <1>4, <3>4
  <2>5. QED
    BY <2>2, <2>3, <2>4, FormattedIs
<1>7. ASSUME NEW what, NEW len \in Nat, piece = Text(what, len), what \notin {"integer", "pointer", "SI", "IEC"},
             what = "double" => len < kMaxNumericSize
      PROVE  IsRight(piece)
  <2>1. piece.what = what /\ piece.len = len
    BY <1>7 DEF Text
  <2>2. NumberIsRight(piece)
    BY <1>7, <2>1, RightByKind
  <2>3. QED
    BY <1>7, <2>1, <2>2 DEF IsRight, IsPiece, IsNumeric
<1>8. QED
  BY <1>2, <1>3, <1>5, <1>6, <1>7 DEF IsStreamed

\* What is logged: only what a stream takes.  The first conjunct is the static_asserts of
\* LogStream.cc.
PiecesAreStreamed ==
    /\ kMaxNumericSize > 28
    /\ \A m \in LinesLogged : m.pieces \in Seq(SUBSET PiecesLogged) /\ Is64Bits(m.errno)
    /\ \A piece \in PiecesLogged : IsStreamed(piece)
    /\ Is64Bits(SourceLine)
    /\ {kFormattedTime, kMicroseconds, kTidString, kLevelName, kStrerror, kBasename} \subseteq Nat
    /\ kFormattedTime + (kMicroseconds + 1) + kTidString + kLevelName < kSmallBuffer

(* An integer is streamed, and so is right.                                *)
LEMMA IntegerIsRight ==
  ASSUME kMaxNumericSize > 28, NEW value, Is64Bits(value)
  PROVE  IsRight(Integer(value))
<1>1. IsStreamed(Integer(value))
  BY Zenon DEF IsStreamed
<1>2. QED
  BY <1>1, StreamedIsRight

(* What is streamed is short enough.                                       *)
LEMMA StreamedAreShort ==
  ASSUME PiecesAreStreamed
  PROVE  PiecesAreShort
<1>1. kMaxNumericSize > 28 /\ Is64Bits(SourceLine)
  BY DEF PiecesAreStreamed
<1>2. IsPiece(Integer(SourceLine))
  BY <1>1, IntegerIsRight DEF IsRight
<1>3. ASSUME NEW m \in LinesLogged
      PROVE  m.pieces \in Seq(SUBSET PiecesLogged) /\ IsPiece(Integer(m.errno))
  <2>1. m.pieces \in Seq(SUBSET PiecesLogged) /\ Is64Bits(m.errno)
    BY Zenon DEF PiecesAreStreamed
  <2>2. IsPiece(Integer(m.errno))
    BY <1>1, <2>1, IntegerIsRight DEF IsRight
  <2>3. QED
    BY <2>1, <2>2
<1>4. ASSUME NEW piece \in PiecesLogged
      PROVE  IsPiece(piece)
  <2>1. IsStreamed(piece)
    BY Zenon DEF PiecesAreStreamed
  <2>2. QED
    BY <1>1, <2>1, StreamedIsRight DEF IsRight
<1>5. /\ {kFormattedTime, kMicroseconds, kTidString, kLevelName, kStrerror, kBasename} \subseteq Nat
      /\ kFormattedTime + (kMicroseconds + 1) + kTidString + kLevelName < kSmallBuffer
  BY Zenon DEF PiecesAreStreamed
<1>6. QED
  BY <1>2, <1>3, <1>4, <1>5, Zenon DEF PiecesAreShort

AllRight(s) == \A i \in DOMAIN s : NumberIsRight(s[i])

\* A buffer that has room, with numbers that are right.
IsGood(buffer) == HasRoom(buffer) /\ AllRight(buffer.kept)

(* One more piece that is right.                                           *)
LEMMA OneMoreRight ==
  ASSUME NEW s, IsSeq(s), AllRight(s), NEW e, NumberIsRight(e)
  PROVE  AllRight(Append(s, e))
<1>1. PICK n \in Nat : n = Len(s) /\ DOMAIN s = 1 .. n
  BY DEF IsSeq
<1>2. PICK r : r = Append(s, e)
  OBVIOUS
<1>3. DOMAIN r = 1 .. n + 1 /\ r[n + 1] = e /\ \A i \in 1 .. n : r[i] = s[i]
  BY <1>1, <1>2 DEF IsSeq
<1>4. ASSUME NEW i \in DOMAIN r PROVE NumberIsRight(r[i])
  <2>1. i = n + 1 \/ i \in 1 .. n
    BY <1>1, <1>3
  <2>2. CASE i = n + 1
    BY <1>3, <2>2, Zenon
  <2>3. CASE i \in 1 .. n
    BY <1>1, <1>3, <2>3, Zenon DEF AllRight
  <2>4. QED
    BY <2>1, <2>2, <2>3
<1>5. QED
  BY <1>2, <1>4, Zenon DEF AllRight

(* FixedBuffer takes a piece as it is, or leaves it out.                   *)
LEMMA GoodStays ==
  ASSUME NEW b, IsGood(b), NEW p, IsRight(p)
  PROVE  IsGood(b ## p)
<1>1. HasRoom(b) /\ IsSeq(b.kept) /\ AllRight(b.kept) /\ IsPiece(p) /\ NumberIsRight(p)
  BY Zenon DEF IsGood, HasRoom, IsRight
<1>2. HasRoom(b ## p)
  BY <1>1, PieceFits, StreamAssumption DEF GrowsTo
<1>3. CASE ~Fits(b, p)
  BY <1>1, <1>3, Zenon DEF ##, Appended, IsGood
<1>4. CASE Fits(b, p)
  <2>1. PICK nul : b ## p = Written(b, p, nul)
    BY <1>4, Zenon DEF ##, Appended
  <2>2. (b ## p).kept = Append(b.kept, p)
    BY <2>1 DEF Written
  <2>3. AllRight(Append(b.kept, p))
    BY <1>1, OneMoreRight, Zenon
  <2>4. QED
    BY <1>2, <2>2, <2>3, Zenon DEF IsGood
<1>5. QED
  BY <1>3, <1>4

(* A text is right.                                                        *)
LEMMA TextIsRight ==
  ASSUME NEW what, NEW len \in Nat, what \notin {"integer", "pointer", "double", "SI", "IEC"}
  PROVE  IsRight(Text(what, len))
<1>1. PICK p : p = Text(what, len)
  OBVIOUS
<1>2. p.what = what /\ p.len = len
  BY <1>1 DEF Text
<1>3. NumberIsRight(p)
  BY <1>2, RightByKind
<1>4. QED
  BY <1>1, <1>2, <1>3 DEF IsRight, IsPiece, IsNumeric

(* The header of a line.                                                   *)
LEMMA HeaderIsGood ==
  ASSUME PiecesAreStreamed, NEW level, NEW errno, Is64Bits(errno)
  PROVE  IsGood(Header(level, errno))
<1>1. /\ kFormattedTime \in Nat /\ kMicroseconds \in Nat /\ kTidString \in Nat /\ kLevelName \in Nat
      /\ kStrerror \in Nat /\ kSmallBuffer \in Nat /\ kMaxNumericSize > 28
      /\ kFormattedTime + (kMicroseconds + 1) + kTidString + kLevelName < kSmallBuffer
  BY StreamAssumption DEF PiecesAreStreamed
<1>2. PICK k \in Nat : k = kMicroseconds + IF logTimeZone THEN 0 ELSE 1
  BY <1>1
<1> DEFINE q1 == Text("time", kFormattedTime)
           q2 == Text("microseconds", k)
           q3 == Text("tid", kTidString)
           q4 == Text("level", kLevelName)
           p1 == Text("strerror", kStrerror)
           p2 == Text(" (errno=", 8)
           p3 == Integer(errno)
           p4 == Text(") ", 2)
           b == (((EmptyBuffer ## q1) ## q2) ## q3) ## q4
<1>3. IsRight(q1) /\ IsRight(q2) /\ IsRight(q3) /\ IsRight(q4) /\ IsRight(p1) /\ IsRight(p2) /\ IsRight(p4)
  BY <1>1, TextIsRight
<1>4. IsRight(p3)
  BY <1>1, IntegerIsRight
<1>5. Header(level, errno) = IF errno = 0 THEN b ELSE (((b ## p1) ## p2) ## p3) ## p4
  BY <1>2, Zenon DEF Header
<1> HIDE DEF q1, q2, q3, q4, p1, p2, p3, p4
<1>6. IsGood(EmptyBuffer)
  <2>1. <<>> \in Seq(ToSet(<<>>)) /\ DOMAIN <<>> = {}
    OBVIOUS
  <2>2. QED
    BY <1>1, <2>1 DEF EmptyBuffer, IsGood, HasRoom, IsSeq, AllRight
<1>7. IsGood(b)
  BY <1>3, <1>6, GoodStays, Zenon
<1> HIDE DEF b
<1>8. IsGood((((b ## p1) ## p2) ## p3) ## p4)
  BY <1>3, <1>4, <1>7, GoodStays, Zenon
<1>9. QED
  BY <1>5, <1>7, <1>8

(* The end of a line.                                                      *)
LEMMA TailIsGood ==
  ASSUME PiecesAreStreamed, NEW b, IsGood(b)
  PROVE  IsGood(Finished(b))
<1> DEFINE p1 == Text(" - ", 3)
           p2 == Text("basename", kBasename)
           p3 == Text(":", 1)
           p4 == Integer(SourceLine)
           p5 == Text("newline", 1)
<1>1. kBasename \in Nat /\ kMaxNumericSize > 28 /\ Is64Bits(SourceLine)
  BY DEF PiecesAreStreamed
<1>2. IsRight(p1) /\ IsRight(p2) /\ IsRight(p3) /\ IsRight(p5)
  BY <1>1, TextIsRight
<1>3. IsRight(p4)
  BY <1>1, IntegerIsRight
<1>4. Finished(b) = ((((b ## p1) ## p2) ## p3) ## p4) ## p5
  BY Zenon DEF Finished
<1> HIDE DEF p1, p2, p3, p4, p5
<1>5. QED
  BY <1>2, <1>3, <1>4, GoodStays, Zenon

\* The lines that go on, and the one that was given away.
RightInv ==
    /\ RoomInv
    /\ \A t \in Loggers : logger[t] # None => AllRight(logger[t].buffer.kept)
    /\ output # None => AllRight(output.buffer.kept)

(* The numbers of a line stay right in each step.                          *)
LEMMA NumbersStay ==
  ASSUME PiecesAreStreamed, RightInv, [LogNext]_allVars
  PROVE  RightInv'
<1>1. PiecesAreShort /\ kMaxNumericSize > 28
  BY StreamedAreShort DEF PiecesAreStreamed
<1>2. RoomInv /\ RoomInv' /\ DOMAIN logger = Loggers
  BY <1>1, RoomStays DEF RightInv, RoomInv
<1>3. ASSUME UNCHANGED <<logger, output>>
      PROVE  RightInv'
  BY <1>2, <1>3 DEF RightInv
<1>4. CASE PassDay \/ SecondsPass \/ SetTimeZone \/ SetLogLevel \/ UNCHANGED allVars
  BY <1>3, <1>4 DEF PassDay, SecondsPass, SetTimeZone, SetLogLevel, allVars, logVars
<1>5. ASSUME NEW t \in Loggers, NEW m \in walk.messages, LogLine(t, m)
      PROVE  RightInv'
  <2>1. Is64Bits(m.errno)
    <3>1. m \in LinesLogged
      BY <1>2 DEF RoomInv, LinesLogged
    <3>2. QED
      BY <3>1, Zenon DEF PiecesAreStreamed
  <2> DEFINE line == [thread |-> Tid(t), seconds |-> Now, zoneSet |-> zoneSet,
                      stamp |-> FormattedTime(t), utc |-> ~logTimeZone, tid |-> CurrentTid(t),
                      level |-> m.level, rest |-> m.pieces, buffer |-> Header(m.level, m.errno)]
  <2>2. logger' = [logger EXCEPT ![t] = line] /\ output' = output
    BY <1>5 DEF LogLine
  <2>3. line.buffer = Header(m.level, m.errno)
    OBVIOUS
  <2> HIDE DEF line
  <2>4. AllRight(line.buffer.kept)
    BY <2>1, <2>3, HeaderIsGood, Zenon DEF IsGood
  <2>5. QED
    BY <1>2, <2>2, <2>4 DEF RightInv
<1>6. ASSUME NEW t \in Loggers, Stream(t)
      PROVE  RightInv'
  <2>1. PICK old : old = logger[t] /\ LineHasRoom(old) /\ AllRight(old.buffer.kept) /\ old.rest # <<>>
    BY <1>6 DEF Stream, RightInv, RoomInv
  <2>2. PICK piece \in Head(old.rest) :
           logger' = [logger EXCEPT ![t].buffer = @ ## piece, ![t].rest = Tail(@)]
    BY <1>6, <2>1 DEF Stream
  <2>3. PICK b : b = old.buffer ## piece
    OBVIOUS
  <2>4. logger'[t].buffer = b /\ \A u \in Loggers : u # t => logger'[u] = logger[u]
    BY <1>2, <2>1, <2>2, <2>3 DEF LineHasRoom, LineFields
  <2>5. IsRight(piece)
    <3>1. piece \in PiecesLogged
      BY <2>1, <2>2 DEF LineHasRoom
    <3>2. IsStreamed(piece)
      BY <3>1, Zenon DEF PiecesAreStreamed
    <3>3. QED
      BY <1>1, <3>2, StreamedIsRight
  <2>6. IsGood(b)
    BY <2>1, <2>3, <2>5, GoodStays, Zenon DEF LineHasRoom, IsGood
  <2>7. AllRight(b.kept) /\ output' = output
    BY <1>6, <2>6, Zenon DEF IsGood, Stream
  <2>8. QED
    BY <1>2, <2>4, <2>7 DEF RightInv
<1>7. ASSUME NEW t \in Loggers, Destroy(t)
      PROVE  RightInv'
  <2>1. PICK old : old = logger[t] /\ LineHasRoom(old) /\ AllRight(old.buffer.kept)
    BY <1>7 DEF Destroy, RightInv, RoomInv
  <2>2. PICK line : line = [old EXCEPT !.buffer = Finished(@)]
    OBVIOUS
  <2>3. logger' = [logger EXCEPT ![t] = None] /\ output' = line
    BY <1>7, <2>1, <2>2 DEF Destroy
  <2>4. line.buffer = Finished(old.buffer)
    BY <2>1, <2>2 DEF LineHasRoom, LineFields
  <2>5. AllRight(line.buffer.kept)
    BY <2>1, <2>4, TailIsGood, Zenon DEF LineHasRoom, IsGood
  <2>6. QED
    BY <1>2, <2>3, <2>5 DEF RightInv
<1>8. ASSUME NEW t \in Loggers, Fork(t)
      PROVE  RightInv'
  BY <1>2, <1>8 DEF Fork, RightInv
<1>9. QED
  BY <1>4, <1>5, <1>6, <1>7, <1>8 DEF LogNext

(* Whatever is streamed, a line fits and its numbers are right: an integer *)
(* of 64 bits is printed as it is, and a quantity with a unit has three    *)
(* digits that count and at most the characters that LogStream.h promises, *)
(* however its quotient is rounded (LogStream.cc:26-222, 238-400).         *)
THEOREM LinesAreWhole ==
  ASSUME PiecesAreStreamed
  PROVE  LogSpec => []LineWhole
<1>1. LogInit => RightInv
  BY DEF LogInit, ZoneInit, RoomInv, RightInv
<1>2. RightInv /\ [LogNext]_allVars => RightInv'
  BY NumbersStay
<1>3. RightInv => NumbersFit
  BY Zenon DEF RightInv, AllRight, NumberIsRight, NumbersFit
<1>4. LogSpec => []LineFits
  BY StreamedAreShort, LinesFit
<1>5. LineFits /\ NumbersFit => LineWhole
  BY DEF LineWhole
<1>6. QED
  BY <1>1, <1>2, <1>3, <1>4, <1>5, PTL DEF LogSpec
=============================================================================
