---------------------------- MODULE BufferProofs ----------------------------
(***************************************************************************)
(* Theorems about Buffer, for every set of bytes and of byte strings and   *)
(* every size: what each operation does to the readable bytes, and from    *)
(* that, that the Buffer is a queue of bytes.                              *)
(*                                                                         *)
(* Then about Http, for any requests, reads, files and ranges: responses   *)
(* come in the order of the requests, as long as no body is cut off from   *)
(* its headers, and each ends where it says, as long as none is sent while *)
(* a file goes out.                                                        *)
(***************************************************************************)
EXTENDS Buffer, Http, SequenceTheorems, FiniteSetTheorems, WellFoundedInduction, TLAPS

(* The fields of a buffer and their order.                                 *)
LEMMA Fields ==
  ASSUME NEW b, IsBuffer(b)
  PROVE  /\ b.bytes \in Seq(Byte) /\ Len(b.bytes) \in Nat
         /\ b.reader \in Nat /\ b.writer \in Nat
         /\ b.reader <= b.writer /\ b.writer <= Len(b.bytes)
         /\ kCheapPrepend \in Nat /\ kCheapPrepend <= Len(b.bytes)
         /\ ReadableBytes(b) \in Nat /\ ReadableBytes(b) = b.writer - b.reader
BY LenProperties, BufferAssumption DEF IsBuffer, ReadableBytes

(* A function on 1..n is a sequence of length n.                           *)
LEMMA FunctionIsSeq ==
  ASSUME NEW S, NEW n \in Nat, NEW f \in [1 .. n -> S]
  PROVE  f \in Seq(S) /\ Len(f) = n
<1>1. f \in Seq(S)
  BY SeqDef, Zenon
<1>2. Len(f) \in Nat /\ DOMAIN f = 1 .. Len(f)
  BY <1>1, LenProperties
<1>3. 1 .. Len(f) = 1 .. n
  BY <1>2
<1>4. QED
  BY <1>1, <1>2, <1>3

(* What std::copy leaves in the vector: the data at its place, the bytes   *)
(* before and after as they were.                                          *)
LEMMA PutSeq ==
  ASSUME NEW bytes \in Seq(Byte), NEW p \in Nat, NEW data \in Seq(Byte)
  PROVE  LET new == Put(bytes, p, data)
         IN /\ new \in Seq(Byte) /\ Len(new) = Len(bytes)
            /\ \A k \in 1 .. Len(data) : p + k <= Len(bytes) => new[p + k] = data[k]
            /\ \A k \in 1 .. Len(bytes) : k <= p => new[k] = bytes[k]
            /\ \A k \in 1 .. Len(bytes) : p + Len(data) < k => new[k] = bytes[k]
<1> DEFINE new == Put(bytes, p, data)
<1>1. Len(bytes) \in Nat /\ Len(data) \in Nat
  BY LenProperties
<1>2. \A i \in 1 .. Len(bytes) :
        (IF p < i /\ i <= p + Len(data) THEN data[i - p] ELSE bytes[i]) \in Byte
  <2> TAKE i \in 1 .. Len(bytes)
  <2>1. CASE p < i /\ i <= p + Len(data)
    <3>1. i - p \in 1 .. Len(data)
      BY <1>1, <2>1
    <3>2. QED
      BY <2>1, <3>1, ElementOfSeq
  <2>2. CASE ~(p < i /\ i <= p + Len(data))
    BY <2>2, ElementOfSeq
  <2>3. QED
    BY <2>1, <2>2
<1>3. new \in [1 .. Len(bytes) -> Byte]
  BY <1>2 DEF Put
<1>4. new \in Seq(Byte) /\ Len(new) = Len(bytes)
  BY <1>1, <1>3, FunctionIsSeq
<1>5. ASSUME NEW k \in 1 .. Len(data), p + k <= Len(bytes)
      PROVE  new[p + k] = data[k]
  <2>1. /\ p + k \in 1 .. Len(bytes) /\ p < p + k /\ p + k <= p + Len(data)
        /\ p + k - p = k
    BY <1>1, <1>5
  <2>2. QED
    BY <2>1 DEF Put
<1>6. ASSUME NEW k \in 1 .. Len(bytes), k <= p \/ p + Len(data) < k
      PROVE  new[k] = bytes[k]
  <2>1. ~(p < k /\ k <= p + Len(data))
    BY <1>1, <1>6
  <2>2. QED
    BY <2>1 DEF Put
<1>7. QED
  BY <1>4, <1>5, <1>6

(* What vector::resize leaves in the vector.                               *)
LEMMA ResizedSeq ==
  ASSUME NEW bytes \in Seq(Byte), NEW n \in Nat
  PROVE  /\ Resized(bytes, n) \in Seq(Byte)
         /\ Len(Resized(bytes, n)) = n
         /\ \A i \in 1 .. n : i <= Len(bytes) => Resized(bytes, n)[i] = bytes[i]
<1>1. Len(bytes) \in Nat
  BY LenProperties
<1>2. \A i \in 1 .. n : (IF i <= Len(bytes) THEN bytes[i] ELSE Blank) \in Byte
  BY <1>1, ElementOfSeq, BufferAssumption
<1>3. Resized(bytes, n) \in [1 .. n -> Byte]
  BY <1>2 DEF Resized
<1>4. QED
  BY <1>3, FunctionIsSeq DEF Resized

(* What can be peeked at is a sequence of bytes of the length asked for.   *)
LEMMA PeekSeq ==
  ASSUME NEW b, IsBuffer(b), NEW n \in Nat, n <= ReadableBytes(b)
  PROVE  /\ Peek(b, n) \in Seq(Byte)
         /\ Len(Peek(b, n)) = n
         /\ \A i \in 1 .. n : Peek(b, n)[i] = b.bytes[b.reader + i]
<1>1. \A i \in 1 .. n : b.reader + i \in 1 .. Len(b.bytes)
  BY Fields
<1>2. \A i \in 1 .. n : b.bytes[b.reader + i] \in Byte
  BY <1>1, ElementOfSeq, Fields
<1>3. Peek(b, n) \in [1 .. n -> Byte]
  BY <1>2 DEF Peek
<1>4. QED
  BY <1>3, FunctionIsSeq DEF Peek

(* The readable bytes are a sequence of bytes.                             *)
LEMMA ReadableSeq ==
  ASSUME NEW b, IsBuffer(b)
  PROVE  /\ ReadableBytes(b) \in Nat
         /\ Readable(b) \in Seq(Byte)
         /\ Len(Readable(b)) = ReadableBytes(b)
         /\ \A i \in 1 .. ReadableBytes(b) : Readable(b)[i] = b.bytes[b.reader + i]
<1>1. ReadableBytes(b) \in Nat
  BY Fields
<1>2. QED
  BY <1>1, PeekSeq DEF Readable

(* Two buffers whose readable bytes agree one by one hold the same string. *)
LEMMA ReadableEqual ==
  ASSUME NEW b, IsBuffer(b), NEW s \in Seq(Byte), Len(s) = ReadableBytes(b),
         \A i \in 1 .. ReadableBytes(b) : b.bytes[b.reader + i] = s[i]
  PROVE  Readable(b) = s
BY ReadableSeq, SeqEqual
(* The same for a string in two parts.                                     *)
LEMMA ReadableConcat ==
  ASSUME NEW b, IsBuffer(b), NEW s \in Seq(Byte), NEW t \in Seq(Byte),
         ReadableBytes(b) = Len(s) + Len(t),
         \A i \in 1 .. Len(s) : b.bytes[b.reader + i] = s[i],
         \A i \in 1 .. Len(t) : b.bytes[b.reader + Len(s) + i] = t[i]
  PROVE  Readable(b) = s \o t
<1>1. Len(s) \in Nat /\ Len(t) \in Nat
  BY LenProperties
<1>2. /\ s \o t \in Seq(Byte) /\ Len(s \o t) = Len(s) + Len(t)
      /\ \A i \in 1 .. Len(s) + Len(t) : (s \o t)[i] = IF i <= Len(s) THEN s[i] ELSE t[i - Len(s)]
  BY ConcatProperties, Zenon
<1>3. ASSUME NEW i \in 1 .. ReadableBytes(b)
      PROVE  b.bytes[b.reader + i] = (s \o t)[i]
  <2>1. CASE i <= Len(s)
    BY <1>1, <1>2, <2>1
  <2>2. CASE ~(i <= Len(s))
    <3> DEFINE k == i - Len(s)
    <3>1. k \in 1 .. Len(t) /\ b.reader + Len(s) + k = b.reader + i
      BY <1>1, <2>2, Fields
    <3>2. b.bytes[b.reader + Len(s) + k] = t[k]
      BY <3>1
    <3>3. (s \o t)[i] = t[k]
      BY <1>2, <2>2
    <3>4. QED
      BY <3>1, <3>2, <3>3
  <2>3. QED
    BY <2>1, <2>2
<1>4. QED
  BY <1>2, <1>3, ReadableEqual
-----------------------------------------------------------------------------
(* Copying into room that is there adds the data at the end.               *)
LEMMA WrittenCorrect ==
  ASSUME NEW b, IsBuffer(b), NEW data \in Seq(Byte), Len(data) <= WritableBytes(b)
  PROVE  /\ IsBuffer(Written(b, data))
         /\ Readable(Written(b, data)) = Readable(b) \o data
         /\ Len(Written(b, data).bytes) = Len(b.bytes)
         /\ ReadableBytes(Written(b, data)) = ReadableBytes(b) + Len(data)
<1> DEFINE c == Written(b, data)
<1>1. Len(data) \in Nat /\ Len(data) <= Len(b.bytes) - b.writer
  BY LenProperties DEF WritableBytes
<1>2. /\ c.bytes = Put(b.bytes, b.writer, data)
      /\ c.reader = b.reader
      /\ c.writer = b.writer + Len(data)
      /\ c = [bytes |-> c.bytes, reader |-> c.reader, writer |-> c.writer]
  BY DEF Written
<1> HIDE DEF c
<1>3. /\ c.bytes \in Seq(Byte) /\ Len(c.bytes) = Len(b.bytes)
      /\ \A k \in 1 .. Len(data) : b.writer + k <= Len(b.bytes) => c.bytes[b.writer + k] = data[k]
      /\ \A k \in 1 .. Len(b.bytes) : k <= b.writer => c.bytes[k] = b.bytes[k]
  <2>1. b.bytes \in Seq(Byte) /\ b.writer \in Nat
    BY Fields
  <2>2. LET new == Put(b.bytes, b.writer, data)
        IN /\ new \in Seq(Byte) /\ Len(new) = Len(b.bytes)
           /\ \A k \in 1 .. Len(data) : b.writer + k <= Len(b.bytes) => new[b.writer + k] = data[k]
           /\ \A k \in 1 .. Len(b.bytes) : k <= b.writer => new[k] = b.bytes[k]
    BY <2>1, PutSeq, Zenon
  <2>3. QED
    BY <1>2, <2>2
<1>4. IsBuffer(c)
  BY <1>1, <1>2, <1>3, Fields DEF IsBuffer
<1>5. ReadableBytes(c) = ReadableBytes(b) + Len(data)
  BY <1>1, <1>2, Fields DEF ReadableBytes
<1>6. /\ Readable(b) \in Seq(Byte) /\ Len(Readable(b)) = ReadableBytes(b)
      /\ \A i \in 1 .. ReadableBytes(b) : Readable(b)[i] = b.bytes[b.reader + i]
  BY ReadableSeq
<1>7. ASSUME NEW i \in 1 .. ReadableBytes(b)
      PROVE  c.bytes[c.reader + i] = Readable(b)[i]
  <2>1. b.reader + i \in 1 .. Len(b.bytes) /\ b.reader + i <= b.writer
    BY Fields
  <2>2. QED
    BY <1>2, <1>3, <1>6, <2>1
<1>8. ASSUME NEW i \in 1 .. Len(data)
      PROVE  c.bytes[c.reader + ReadableBytes(b) + i] = data[i]
  <2>1. c.reader + ReadableBytes(b) + i = b.writer + i /\ b.writer + i <= Len(b.bytes)
    BY <1>1, <1>2, Fields
  <2>2. QED
    BY <1>3, <2>1
<1>9. Readable(c) = Readable(b) \o data
  <2>1. /\ \A i \in 1 .. Len(Readable(b)) : c.bytes[c.reader + i] = Readable(b)[i]
        /\ \A i \in 1 .. Len(data) : c.bytes[c.reader + Len(Readable(b)) + i] = data[i]
        /\ ReadableBytes(c) = Len(Readable(b)) + Len(data)
    BY <1>5, <1>6, <1>7, <1>8
  <2>2. QED
    BY <1>4, <1>6, <2>1, ReadableConcat, Zenon
<1>10. QED
  BY <1>3, <1>4, <1>5, <1>9 DEF c

(* Moving the bytes to the front leaves what can be read alone.            *)
LEMMA MovedCorrect ==
  ASSUME NEW b, IsBuffer(b), kCheapPrepend <= b.reader
  PROVE  /\ IsBuffer(Moved(b))
         /\ Readable(Moved(b)) = Readable(b)
         /\ ReadableBytes(Moved(b)) = ReadableBytes(b)
         /\ Len(Moved(b).bytes) = Len(b.bytes)
<1> DEFINE c == Moved(b)
<1>1. Readable(b) \in Seq(Byte) /\ Len(Readable(b)) = ReadableBytes(b)
  BY ReadableSeq
<1>2. /\ c.bytes = Put(b.bytes, kCheapPrepend, Readable(b))
      /\ c.reader = kCheapPrepend
      /\ c.writer = kCheapPrepend + ReadableBytes(b)
      /\ c = [bytes |-> c.bytes, reader |-> c.reader, writer |-> c.writer]
  BY DEF Moved
<1> HIDE DEF c
<1>3. /\ c.bytes \in Seq(Byte) /\ Len(c.bytes) = Len(b.bytes)
      /\ \A k \in 1 .. ReadableBytes(b) :
            kCheapPrepend + k <= Len(b.bytes) => c.bytes[kCheapPrepend + k] = Readable(b)[k]
  <2>1. b.bytes \in Seq(Byte) /\ kCheapPrepend \in Nat
    BY Fields
  <2>2. LET new == Put(b.bytes, kCheapPrepend, Readable(b))
        IN /\ new \in Seq(Byte) /\ Len(new) = Len(b.bytes)
           /\ \A k \in 1 .. Len(Readable(b)) :
                 kCheapPrepend + k <= Len(b.bytes) => new[kCheapPrepend + k] = Readable(b)[k]
    BY <1>1, <2>1, PutSeq, Zenon
  <2>3. QED
    BY <1>1, <1>2, <2>2
<1>4. ReadableBytes(c) = ReadableBytes(b)
  BY <1>2, Fields DEF ReadableBytes
<1>5. IsBuffer(c)
  BY <1>2, <1>3, Fields DEF IsBuffer
<1>6. ASSUME NEW i \in 1 .. ReadableBytes(c)
      PROVE  c.bytes[c.reader + i] = Readable(b)[i]
  <2>1. i \in 1 .. ReadableBytes(b) /\ kCheapPrepend + i <= Len(b.bytes)
    BY <1>4, Fields
  <2>2. QED
    BY <1>2, <1>3, <2>1
<1>7. QED
  BY <1>1, <1>3, <1>4, <1>5, <1>6, ReadableEqual DEF c

(* So does making the vector longer.                                       *)
LEMMA GrownCorrect ==
  ASSUME NEW b, IsBuffer(b), NEW n \in Nat, WritableBytes(b) < n
  PROVE  /\ IsBuffer(Grown(b, n))
         /\ Readable(Grown(b, n)) = Readable(b)
         /\ ReadableBytes(Grown(b, n)) = ReadableBytes(b)
         /\ Len(Grown(b, n).bytes) = b.writer + n
         /\ Grown(b, n).writer = b.writer
<1> DEFINE c == Grown(b, n)
<1>1. Len(b.bytes) - b.writer < n
  BY DEF WritableBytes
<1>2. c = [bytes |-> Resized(b.bytes, b.writer + n), reader |-> b.reader, writer |-> b.writer]
  BY DEF Grown, IsBuffer
<1>3. /\ Resized(b.bytes, b.writer + n) \in Seq(Byte)
      /\ Len(Resized(b.bytes, b.writer + n)) = b.writer + n
      /\ \A i \in 1 .. b.writer + n : i <= Len(b.bytes) => Resized(b.bytes, b.writer + n)[i] = b.bytes[i]
  <2>1. b.writer + n \in Nat
    BY Fields
  <2>2. QED
    BY <2>1, Fields, ResizedSeq
<1>4. /\ c.bytes = Resized(b.bytes, b.writer + n)
      /\ c.reader = b.reader /\ c.writer = b.writer
  BY <1>2
<1>5. ReadableBytes(c) = ReadableBytes(b)
  BY <1>4 DEF ReadableBytes
<1>6. IsBuffer(c)
  BY <1>1, <1>2, <1>3, Fields, SMTT(30) DEF IsBuffer
<1>7. ASSUME NEW i \in 1 .. ReadableBytes(c)
      PROVE  c.bytes[c.reader + i] = Readable(b)[i]
  <2>1. b.reader + i \in 1 .. b.writer + n /\ b.reader + i <= Len(b.bytes)
    BY <1>5, Fields
  <2>2. c.bytes[b.reader + i] = b.bytes[b.reader + i]
    BY <1>3, <1>4, <2>1
  <2>3. QED
    BY <1>4, <1>5, <2>2, ReadableSeq
<1>8. Readable(b) \in Seq(Byte) /\ Len(Readable(b)) = ReadableBytes(b)
  BY ReadableSeq
<1>9. QED
  BY <1>3, <1>4, <1>5, <1>6, <1>7, <1>8, ReadableEqual

(* Either way there is the room that was asked for; the vector is longer   *)
(* than it was only if the bytes would not fit at its front.               *)
LEMMA RoomIsMade ==
  ASSUME NEW b, IsBuffer(b), NEW n \in Nat
  PROVE  LET c == EnsureWritableBytes(b, n)
         IN /\ IsBuffer(c)
            /\ Readable(c) = Readable(b)
            /\ ReadableBytes(c) = ReadableBytes(b)
            /\ n <= WritableBytes(c)
            /\ \/ Len(c.bytes) = Len(b.bytes)
               \/ /\ Len(c.bytes) = b.writer + n
                  /\ Len(b.bytes) < kCheapPrepend + ReadableBytes(b) + n
<1> DEFINE c == EnsureWritableBytes(b, n)
<1>1. CASE ~(WritableBytes(b) < n)
  <2>1. c = b
    BY <1>1 DEF EnsureWritableBytes
  <2>2. n <= WritableBytes(b)
    BY <1>1, Fields DEF WritableBytes
  <2>3. QED
    BY <2>1, <2>2
<1>2. CASE WritableBytes(b) < n /\ MustGrow(b, n)
  <2>1. c = Grown(b, n)
    BY <1>2 DEF EnsureWritableBytes, MakeSpace
  <2>2. n <= WritableBytes(c)
    BY <1>2, <2>1, GrownCorrect, Fields DEF WritableBytes
  <2>3. Len(b.bytes) < kCheapPrepend + ReadableBytes(b) + n
    BY <1>2, Fields DEF MustGrow, WritableBytes, PrependableBytes
  <2>4. QED
    BY <1>2, <2>1, <2>2, <2>3, GrownCorrect
<1>3. CASE WritableBytes(b) < n /\ ~MustGrow(b, n)
  <2>1. c = Moved(b)
    BY <1>3 DEF EnsureWritableBytes, MakeSpace
  <2>2. kCheapPrepend <= b.reader
    BY <1>3, Fields DEF MustGrow, WritableBytes, PrependableBytes
  <2>3. n <= WritableBytes(c)
    <3>1. Len(c.bytes) = Len(b.bytes) /\ c.writer = kCheapPrepend + ReadableBytes(b)
      BY <2>1, <2>2, MovedCorrect DEF Moved
    <3>2. QED
      BY <1>3, <3>1, Fields DEF MustGrow, WritableBytes, PrependableBytes
  <2>4. QED
    BY <2>1, <2>2, <2>3, MovedCorrect
<1>4. QED
  BY <1>1, <1>2, <1>3
-----------------------------------------------------------------------------
(* What an append does, and when it makes the vector longer.               *)
LEMMA AppendedCorrect ==
  ASSUME NEW b, IsBuffer(b), NEW data \in Seq(Byte)
  PROVE  LET c == Appended(b, data)
         IN /\ IsBuffer(c)
            /\ Readable(c) = Readable(b) \o data
            /\ Len(c.bytes) > Len(b.bytes) =>
                 /\ Len(b.bytes) < kCheapPrepend + ReadableBytes(c)
                 /\ Len(c.bytes) < kCheapPrepend + 2 * ReadableBytes(c)
<1> DEFINE e == EnsureWritableBytes(b, Len(data))
           c == Written(e, data)
<1>1. Len(data) \in Nat
  BY LenProperties
<1>2. /\ IsBuffer(e) /\ Readable(e) = Readable(b) /\ ReadableBytes(e) = ReadableBytes(b)
      /\ Len(data) <= WritableBytes(e)
      /\ \/ Len(e.bytes) = Len(b.bytes)
         \/ /\ Len(e.bytes) = b.writer + Len(data)
            /\ Len(b.bytes) < kCheapPrepend + ReadableBytes(b) + Len(data)
  BY <1>1, RoomIsMade, Zenon
<1> HIDE DEF e
<1>3. /\ IsBuffer(c) /\ Readable(c) = Readable(e) \o data
      /\ Len(c.bytes) = Len(e.bytes) /\ ReadableBytes(c) = ReadableBytes(e) + Len(data)
  BY <1>2, WrittenCorrect, Zenon
<1>4. Appended(b, data) = c
  BY DEF Appended, e
<1> HIDE DEF c
<1>5. ASSUME Len(c.bytes) > Len(b.bytes)
      PROVE  /\ Len(b.bytes) < kCheapPrepend + ReadableBytes(c)
             /\ Len(c.bytes) < kCheapPrepend + 2 * ReadableBytes(c)
  <2>1. /\ Len(c.bytes) = b.writer + Len(data)
        /\ Len(b.bytes) < kCheapPrepend + ReadableBytes(b) + Len(data)
        /\ ReadableBytes(c) = ReadableBytes(b) + Len(data)
    BY <1>2, <1>3, <1>5, Fields
  <2>2. QED
    BY <1>1, <2>1, Fields, SMTT(30)
<1>6. QED
  BY <1>2, <1>3, <1>4, <1>5

(* A sequence is its first n elements followed by the others.              *)
LEMMA SplitSeq ==
  ASSUME NEW S, NEW s \in Seq(S), NEW n \in Nat, n <= Len(s)
  PROVE  /\ SubSeq(s, 1, n) \in Seq(S) /\ Len(SubSeq(s, 1, n)) = n
         /\ SubSeq(s, n + 1, Len(s)) \in Seq(S)
         /\ SubSeq(s, 1, n) \o SubSeq(s, n + 1, Len(s)) = s
<1>1. Len(s) \in Nat /\ \A i \in 1 .. Len(s) : s[i] \in S
  BY LenProperties, ElementOfSeq
<1>2. SubSeq(s, 1, n) \in Seq(S) /\ Len(SubSeq(s, 1, n)) = n
  BY <1>1
<1>3. SubSeq(s, n + 1, Len(s)) \in Seq(S)
  BY <1>1
<1>4. SubSeq(s, 1, n) \o SubSeq(s, n + 1, Len(s)) = s
  <2>1. 1 \in 1 .. Len(s) + 1 /\ n \in 1 - 1 .. Len(s) /\ Len(s) \in n .. Len(s)
    BY <1>1
  <2>2. SubSeq(s, 1, n) \o SubSeq(s, n + 1, Len(s)) = SubSeq(s, 1, Len(s))
    BY <2>1, ConcatAdjacentSubSeq, Zenon
  <2>3. SubSeq(s, 1, Len(s)) = s
    BY SubSeqFull, Zenon
  <2>4. QED
    BY <2>2, <2>3
<1>5. QED
  BY <1>2, <1>3, <1>4

(* A read that overflows into extrabuf is one append.                      *)
LEMMA ReadFdCorrect ==
  ASSUME NEW b, IsBuffer(b), NEW data \in Seq(Byte)
  PROVE  LET c == ReadFd(b, data)
         IN /\ IsBuffer(c)
            /\ Readable(c) = Readable(b) \o data
            /\ Len(c.bytes) > Len(b.bytes) =>
                 /\ Len(b.bytes) < kCheapPrepend + ReadableBytes(c)
                 /\ Len(c.bytes) < kCheapPrepend + 2 * ReadableBytes(c)
<1> DEFINE w == WritableBytes(b)
           first == SubSeq(data, 1, w)
           rest == SubSeq(data, w + 1, Len(data))
           d == Written(b, first)
           c == Appended(d, rest)
<1>1. w \in Nat /\ Len(data) \in Nat
  BY Fields, LenProperties DEF WritableBytes
<1>2. CASE Len(data) <= w
  <2>1. ReadFd(b, data) = Written(b, data)
    BY <1>2 DEF ReadFd
  <2>2. /\ IsBuffer(Written(b, data)) /\ Readable(Written(b, data)) = Readable(b) \o data
        /\ Len(Written(b, data).bytes) = Len(b.bytes)
    BY <1>2, WrittenCorrect, Zenon
  <2>3. QED
    BY <2>1, <2>2, Fields
<1>3. CASE ~(Len(data) <= w)
  <2>1. ReadFd(b, data) = c
    BY <1>3 DEF ReadFd
  <2>2. /\ first \in Seq(Byte) /\ Len(first) = w /\ rest \in Seq(Byte) /\ first \o rest = data
    <3>1. w \in Nat /\ w <= Len(data)
      BY <1>1, <1>3
    <3>2. QED
      BY <3>1, SplitSeq, Zenon
  <2> HIDE DEF first, rest
  <2>3. Len(first) <= WritableBytes(b)
    BY <1>1, <2>2
  <2>4. /\ IsBuffer(d) /\ Readable(d) = Readable(b) \o first
        /\ Len(d.bytes) = Len(b.bytes)
    BY <2>2, <2>3, WrittenCorrect, Zenon
  <2> HIDE DEF d
  <2>5. /\ IsBuffer(c) /\ Readable(c) = Readable(d) \o rest
        /\ Len(c.bytes) > Len(d.bytes) =>
              /\ Len(d.bytes) < kCheapPrepend + ReadableBytes(c)
              /\ Len(c.bytes) < kCheapPrepend + 2 * ReadableBytes(c)
    BY <2>2, <2>4, AppendedCorrect, Zenon
  <2>6. (Readable(b) \o first) \o rest = Readable(b) \o data
    <3>1. Readable(b) \in Seq(Byte) /\ first \in Seq(Byte) /\ rest \in Seq(Byte)
      BY <2>2, ReadableSeq
    <3>2. (Readable(b) \o first) \o rest = Readable(b) \o (first \o rest)
      BY <3>1, ConcatAssociative
    <3>3. QED
      BY <2>2, <3>2, Zenon
  <2> HIDE DEF c
  <2>7. QED
    BY <2>1, <2>4, <2>5, <2>6
<1>4. QED
  BY <1>2, <1>3

(* Retrieving removes the bytes that were peeked at, from the front.       *)
LEMMA RetrievedCorrect ==
  ASSUME NEW b, IsBuffer(b), NEW n \in Nat, n <= ReadableBytes(b)
  PROVE  /\ IsBuffer(Retrieved(b, n))
         /\ Readable(Retrieved(b, n)) = SubSeq(Readable(b), n + 1, Len(Readable(b)))
         /\ Peek(b, n) = SubSeq(Readable(b), 1, n)
         /\ Retrieved(b, n).bytes = b.bytes
<1> DEFINE c == Retrieved(b, n)
           s == SubSeq(Readable(b), n + 1, Len(Readable(b)))
<1>1. /\ Readable(b) \in Seq(Byte) /\ Len(Readable(b)) = ReadableBytes(b)
      /\ \A i \in 1 .. ReadableBytes(b) : Readable(b)[i] = b.bytes[b.reader + i]
      /\ \A i \in 1 .. ReadableBytes(b) : Readable(b)[i] \in Byte
  BY ReadableSeq, ElementOfSeq
<1>2. /\ s \in Seq(Byte) /\ Len(s) = ReadableBytes(b) - n
      /\ \A i \in 1 .. ReadableBytes(b) - n : s[i] = Readable(b)[n + i]
  BY <1>1, Fields
<1>3. Peek(b, n) = SubSeq(Readable(b), 1, n)
  <2>1. /\ SubSeq(Readable(b), 1, n) \in Seq(Byte) /\ Len(SubSeq(Readable(b), 1, n)) = n
        /\ \A i \in 1 .. n : SubSeq(Readable(b), 1, n)[i] = Readable(b)[i]
    BY <1>1, Fields
  <2>2. /\ Peek(b, n) \in Seq(Byte) /\ Len(Peek(b, n)) = n
        /\ \A i \in 1 .. n : Peek(b, n)[i] = b.bytes[b.reader + i]
    BY PeekSeq
  <2>3. \A i \in 1 .. n : i \in 1 .. ReadableBytes(b)
    BY Fields
  <2>4. \A i \in 1 .. n : Peek(b, n)[i] = SubSeq(Readable(b), 1, n)[i]
    BY <1>1, <2>1, <2>2, <2>3, Zenon
  <2>5. QED
    BY <2>1, <2>2, <2>4, SeqEqual, Zenon
<1> HIDE DEF s
<1>4. CASE n < ReadableBytes(b)
  <2>1. c = [bytes |-> b.bytes, reader |-> b.reader + n, writer |-> b.writer]
    BY <1>4 DEF Retrieved, IsBuffer
  <2> HIDE DEF c
  <2>2. IsBuffer(c)
    BY <1>4, <2>1, Fields DEF IsBuffer
  <2>3. ReadableBytes(c) = ReadableBytes(b) - n
    BY <2>1, Fields DEF ReadableBytes
  <2>4. ASSUME NEW i \in 1 .. ReadableBytes(c)
        PROVE  c.bytes[c.reader + i] = s[i]
    <3>1. /\ c.reader + i = b.reader + (n + i) /\ n + i \in 1 .. ReadableBytes(b)
          /\ i \in 1 .. ReadableBytes(b) - n
      BY <2>1, <2>3, Fields
    <3>2. QED
      BY <1>1, <1>2, <2>1, <3>1
  <2>5. Readable(c) = s
    BY <1>2, <2>2, <2>3, <2>4, ReadableEqual
  <2>6. QED
    BY <1>3, <2>1, <2>2, <2>5 DEF c, s
<1>5. CASE ~(n < ReadableBytes(b))
  <2>1. c = [bytes |-> b.bytes, reader |-> kCheapPrepend, writer |-> kCheapPrepend]
    BY <1>5 DEF Retrieved, RetrieveAll, IsBuffer
  <2> HIDE DEF c
  <2>2. IsBuffer(c)
    BY <2>1, Fields DEF IsBuffer
  <2>3. ReadableBytes(c) = ReadableBytes(b) - n /\ ReadableBytes(c) = 0
    BY <1>5, <2>1, Fields DEF ReadableBytes
  <2>4. \A i \in 1 .. ReadableBytes(c) : c.bytes[c.reader + i] = s[i]
    BY <2>3
  <2>5. Readable(c) = s
    BY <1>2, <2>2, <2>3, <2>4, ReadableEqual
  <2>6. QED
    BY <1>3, <2>1, <2>2, <2>5 DEF c, s
<1>6. QED
  BY <1>4, <1>5

(* Unwriting removes bytes from the end.                                   *)
LEMMA UnwrittenCorrect ==
  ASSUME NEW b, IsBuffer(b), NEW n \in Nat, n <= ReadableBytes(b)
  PROVE  /\ IsBuffer(Unwritten(b, n))
         /\ Readable(Unwritten(b, n)) = SubSeq(Readable(b), 1, Len(Readable(b)) - n)
         /\ Unwritten(b, n).bytes = b.bytes
<1> DEFINE c == Unwritten(b, n)
           s == SubSeq(Readable(b), 1, Len(Readable(b)) - n)
<1>1. /\ Readable(b) \in Seq(Byte) /\ Len(Readable(b)) = ReadableBytes(b)
      /\ \A i \in 1 .. ReadableBytes(b) : Readable(b)[i] = b.bytes[b.reader + i]
      /\ \A i \in 1 .. ReadableBytes(b) : Readable(b)[i] \in Byte
  BY ReadableSeq, ElementOfSeq
<1>2. /\ s \in Seq(Byte) /\ Len(s) = ReadableBytes(b) - n
      /\ \A i \in 1 .. ReadableBytes(b) - n : s[i] = Readable(b)[i]
  BY <1>1, Fields
<1>3. c = [bytes |-> b.bytes, reader |-> b.reader, writer |-> b.writer - n]
  BY DEF Unwritten, IsBuffer
<1> HIDE DEF c, s
<1>4. IsBuffer(c)
  BY <1>3, Fields DEF IsBuffer
<1>5. ReadableBytes(c) = ReadableBytes(b) - n
  BY <1>3, Fields DEF ReadableBytes
<1>6. ASSUME NEW i \in 1 .. ReadableBytes(c)
      PROVE  c.bytes[c.reader + i] = s[i]
  <2>1. i \in 1 .. ReadableBytes(b) /\ i \in 1 .. ReadableBytes(b) - n
    BY <1>5, Fields
  <2>2. QED
    BY <1>1, <1>2, <1>3, <2>1
<1>7. Readable(c) = s
  BY <1>2, <1>4, <1>5, <1>6, ReadableEqual
<1>8. QED
  BY <1>3, <1>4, <1>7 DEF c, s

(* Prepending into the room in front adds the data at the start.           *)
LEMMA PrependedCorrect ==
  ASSUME NEW b, IsBuffer(b), NEW data \in Seq(Byte), Len(data) <= PrependableBytes(b)
  PROVE  /\ IsBuffer(Prepended(b, data))
         /\ Readable(Prepended(b, data)) = data \o Readable(b)
<1> DEFINE c == Prepended(b, data)
           p == b.reader - Len(data)
<1>1. Len(data) \in Nat /\ p \in Nat /\ p + Len(data) = b.reader
  BY Fields, LenProperties DEF PrependableBytes
<1>2. /\ c.bytes = Put(b.bytes, p, data)
      /\ c.reader = p
      /\ c.writer = b.writer
      /\ c = [bytes |-> c.bytes, reader |-> c.reader, writer |-> c.writer]
  BY DEF Prepended
<1> HIDE DEF c, p
<1>3. /\ c.bytes \in Seq(Byte) /\ Len(c.bytes) = Len(b.bytes)
      /\ \A k \in 1 .. Len(data) : p + k <= Len(b.bytes) => c.bytes[p + k] = data[k]
      /\ \A k \in 1 .. Len(b.bytes) : p + Len(data) < k => c.bytes[k] = b.bytes[k]
  <2>1. b.bytes \in Seq(Byte)
    BY Fields
  <2>2. LET new == Put(b.bytes, p, data)
        IN /\ new \in Seq(Byte) /\ Len(new) = Len(b.bytes)
           /\ \A k \in 1 .. Len(data) : p + k <= Len(b.bytes) => new[p + k] = data[k]
           /\ \A k \in 1 .. Len(b.bytes) : p + Len(data) < k => new[k] = b.bytes[k]
    BY <1>1, <2>1, PutSeq, Zenon
  <2>3. QED
    BY <1>2, <2>2
<1>4. IsBuffer(c)
  BY <1>1, <1>2, <1>3, Fields DEF IsBuffer
<1>5. ReadableBytes(c) = Len(data) + ReadableBytes(b)
  BY <1>1, <1>2, Fields DEF ReadableBytes
<1>6. /\ Readable(b) \in Seq(Byte) /\ Len(Readable(b)) = ReadableBytes(b)
      /\ \A i \in 1 .. ReadableBytes(b) : Readable(b)[i] = b.bytes[b.reader + i]
  BY ReadableSeq
<1>7. ASSUME NEW i \in 1 .. Len(data)
      PROVE  c.bytes[c.reader + i] = data[i]
  <2>1. p + i <= Len(b.bytes)
    BY <1>1, Fields
  <2>2. QED
    BY <1>2, <1>3, <2>1
<1>8. ASSUME NEW i \in 1 .. ReadableBytes(b)
      PROVE  c.bytes[c.reader + Len(data) + i] = Readable(b)[i]
  <2>1. /\ c.reader + Len(data) + i = b.reader + i
        /\ b.reader + i \in 1 .. Len(b.bytes) /\ p + Len(data) < b.reader + i
    BY <1>1, <1>2, Fields
  <2>2. QED
    BY <1>3, <1>6, <2>1
<1>9. Readable(c) = data \o Readable(b)
  <2>1. /\ \A i \in 1 .. Len(data) : c.bytes[c.reader + i] = data[i]
        /\ \A i \in 1 .. Len(Readable(b)) : c.bytes[c.reader + Len(data) + i] = Readable(b)[i]
        /\ ReadableBytes(c) = Len(data) + Len(Readable(b))
    BY <1>5, <1>6, <1>7, <1>8
  <2>2. QED
    BY <1>4, <1>6, <2>1, ReadableConcat, Zenon
<1>10. QED
  BY <1>4, <1>9 DEF c

(* A buffer that was just made is empty.                                   *)
LEMMA FreshCorrect ==
  IsBuffer(Fresh(kInitialSize)) /\ Readable(Fresh(kInitialSize)) = << >>
<1> DEFINE c == Fresh(kInitialSize)
<1>1. /\ c = [bytes |-> c.bytes, reader |-> kCheapPrepend, writer |-> kCheapPrepend]
      /\ c.reader = kCheapPrepend /\ c.writer = kCheapPrepend
      /\ c.bytes = [i \in 1 .. kCheapPrepend + kInitialSize |-> Blank]
  BY DEF Fresh
<1> HIDE DEF c
<1>2. /\ kCheapPrepend + kInitialSize \in Nat /\ kCheapPrepend \in Nat
      /\ kCheapPrepend <= kCheapPrepend + kInitialSize
  BY BufferAssumption
<1>3. c.bytes \in [1 .. kCheapPrepend + kInitialSize -> Byte]
  BY <1>1, BufferAssumption
<1>4. c.bytes \in Seq(Byte) /\ Len(c.bytes) = kCheapPrepend + kInitialSize
  BY <1>2, <1>3, FunctionIsSeq
<1>5. IsBuffer(c)
  BY <1>1, <1>2, <1>4 DEF IsBuffer
<1>6. ReadableBytes(c) = 0
  BY <1>1, <1>2 DEF ReadableBytes
<1>7. << >> \in Seq(Byte) /\ Len(<< >>) = 0
  BY EmptySeq
<1>8. Readable(c) = << >>
  <2>1. Readable(c) \in Seq(Byte) /\ Len(Readable(c)) = 0
    BY <1>5, <1>6, ReadableSeq
  <2>2. QED
    BY <2>1, EmptySeq
<1>9. QED
  BY <1>5, <1>8 DEF c

(* Shrinking copies the readable bytes to another buffer.                  *)
LEMMA ShrunkCorrect ==
  ASSUME NEW b, IsBuffer(b), NEW n \in Nat
  PROVE  IsBuffer(Shrunk(b, n)) /\ Readable(Shrunk(b, n)) = Readable(b)
<1> DEFINE f == Fresh(kInitialSize)
           m == ReadableBytes(b) + n
           e == EnsureWritableBytes(f, m)
           c == Appended(e, Readable(b))
<1>1. Shrunk(b, n) = c
  BY DEF Shrunk
<1>2. IsBuffer(f) /\ Readable(f) = << >>
  BY FreshCorrect
<1>3. m \in Nat
  BY Fields
<1> HIDE DEF f, m
<1>4. IsBuffer(e) /\ Readable(e) = Readable(f)
  BY <1>2, <1>3, RoomIsMade, Zenon
<1> HIDE DEF e
<1>5. Readable(b) \in Seq(Byte)
  BY ReadableSeq
<1>6. IsBuffer(c) /\ Readable(c) = Readable(e) \o Readable(b)
  BY <1>4, <1>5, AppendedCorrect, Zenon
<1>7. << >> \o Readable(b) = Readable(b)
  BY <1>5, ConcatEmptySeq
<1> HIDE DEF c
<1>8. QED
  BY <1>1, <1>2, <1>4, <1>6, <1>7
-----------------------------------------------------------------------------
(* The indices stay in order and inside the vector, for every size.        *)
THEOREM TypeCorrect == Spec => []TypeOK
<1>1. Init => TypeOK
  BY FreshCorrect DEF Init, TypeOK
<1>2. TypeOK /\ [Next]_vars => TypeOK'
  <2> SUFFICES ASSUME TypeOK, [Next]_vars PROVE TypeOK'
    OBVIOUS
  <2> USE DEF TypeOK
  <2>1. ASSUME NEW data \in Data, Add(data) PROVE TypeOK'
    BY <2>1, AppendedCorrect, BufferAssumption DEF Add
  <2>2. ASSUME NEW data \in Data, Receive(data) PROVE TypeOK'
    BY <2>2, ReadFdCorrect, BufferAssumption DEF Receive
  <2>3. ASSUME NEW data \in Data, PutBack(data) PROVE TypeOK'
    BY <2>3, PrependedCorrect, BufferAssumption DEF PutBack
  <2>4. ASSUME NEW n \in 0 .. MaxContent, Remove(n) PROVE TypeOK'
    BY <2>4, RetrievedCorrect, BufferAssumption DEF Remove
  <2>5. ASSUME NEW n \in 0 .. MaxContent, TakeBack(n) PROVE TypeOK'
    BY <2>5, UnwrittenCorrect, BufferAssumption DEF TakeBack
  <2>6. ASSUME NEW n \in 0 .. MaxContent, Reallocate(n) PROVE TypeOK'
    BY <2>6, ShrunkCorrect, BufferAssumption DEF Reallocate
  <2>7. CASE UNCHANGED vars
    BY <2>7 DEF vars
  <2>8. QED
    BY <2>1, <2>2, <2>3, <2>4, <2>5, <2>6, <2>7 DEF Next
<1>3. QED
  BY <1>1, <1>2, PTL DEF Spec

(* The Buffer is a queue of bytes: no byte is lost, doubled, reordered or  *)
(* overwritten, whatever moves inside the vector, and every call returns   *)
(* the bytes of the queue.                                                 *)
THEOREM IsByteQueue == Spec => ImplementsByteQueue
<1>1. Init => Queue!Init
  BY FreshCorrect DEF Init, Queue!Init
<1>2. TypeOK /\ [Next]_vars => [Queue!Next]_Queue!vars
  <2> SUFFICES ASSUME TypeOK, [Next]_vars PROVE [Queue!Next]_Queue!vars
    OBVIOUS
  <2> USE DEF TypeOK
  <2>1. ASSUME NEW data \in Data, Add(data) PROVE Queue!Add(data)
    BY <2>1, AppendedCorrect, BufferAssumption DEF Add, Queue!Add
  <2>2. ASSUME NEW data \in Data, Receive(data) PROVE Queue!Add(data)
    BY <2>2, ReadFdCorrect, BufferAssumption DEF Receive, Queue!Add
  <2>3. ASSUME NEW data \in Data, PutBack(data) PROVE Queue!PutBack(data)
    BY <2>3, PrependedCorrect, BufferAssumption DEF PutBack, Queue!PutBack
  <2>4. ASSUME NEW n \in 0 .. MaxContent, Remove(n)
        PROVE  Queue!Remove(n) /\ n \in 0 .. Len(Readable(buffer))
    <3>1. n \in Nat /\ n <= ReadableBytes(buffer)
      BY <2>4, BufferAssumption DEF Remove
    <3>2. /\ Readable(Retrieved(buffer, n)) = SubSeq(Readable(buffer), n + 1, Len(Readable(buffer)))
          /\ Peek(buffer, n) = SubSeq(Readable(buffer), 1, n)
      BY <3>1, RetrievedCorrect
    <3>3. n \in 0 .. Len(Readable(buffer))
      BY <3>1, ReadableSeq
    <3>4. QED
      BY <2>4, <3>2, <3>3 DEF Remove, Queue!Remove
  <2>5. ASSUME NEW n \in 0 .. MaxContent, TakeBack(n)
        PROVE  Queue!TakeBack(n) /\ n \in 0 .. Len(Readable(buffer))
    <3>1. n \in Nat /\ n <= ReadableBytes(buffer)
      BY <2>5, BufferAssumption DEF TakeBack
    <3>2. Readable(Unwritten(buffer, n)) = SubSeq(Readable(buffer), 1, Len(Readable(buffer)) - n)
      BY <3>1, UnwrittenCorrect
    <3>3. n \in 0 .. Len(Readable(buffer))
      BY <3>1, ReadableSeq
    <3>4. QED
      BY <2>5, <3>2, <3>3 DEF TakeBack, Queue!TakeBack
  <2>6. ASSUME NEW n \in 0 .. MaxContent, Reallocate(n) PROVE Queue!Reallocate
    BY <2>6, ShrunkCorrect, BufferAssumption DEF Reallocate, Queue!Reallocate
  <2>7. CASE UNCHANGED vars
    BY <2>7 DEF vars, Queue!vars, Readable, Peek, ReadableBytes
  <2>8. QED
    BY <2>1, <2>2, <2>3, <2>4, <2>5, <2>6, <2>7 DEF Next, Queue!Next
<1>3. QED
  BY <1>1, <1>2, TypeCorrect, PTL DEF Spec, Queue!Spec, ImplementsByteQueue

(* Memory follows content: the vector grows only when it must, and to less *)
(* than twice what it then holds and the room in front.                    *)
THEOREM MemoryFollowsContent == Spec => GrowthBounded
<1> DEFINE Bounded == Len(buffer'.bytes) > Len(buffer.bytes) /\ call'[1] = "append" =>
               /\ Len(buffer.bytes) < kCheapPrepend + ReadableBytes(buffer')
               /\ Len(buffer'.bytes) < kCheapPrepend + 2 * ReadableBytes(buffer')
<1>1. TypeOK /\ [Next]_vars => [Bounded]_vars
  <2> SUFFICES ASSUME TypeOK, Next PROVE Bounded
    OBVIOUS
  <2> USE DEF TypeOK
  <2>1. ASSUME NEW data \in Data, Add(data) PROVE Bounded
    BY <2>1, AppendedCorrect, BufferAssumption DEF Add
  <2>2. ASSUME NEW data \in Data, Receive(data) PROVE Bounded
    BY <2>2, ReadFdCorrect, BufferAssumption DEF Receive
  <2>3. ASSUME NEW data \in Data, PutBack(data) PROVE Bounded
    BY <2>3 DEF PutBack
  <2>4. ASSUME NEW n \in 0 .. MaxContent, Remove(n) PROVE Bounded
    BY <2>4 DEF Remove
  <2>5. ASSUME NEW n \in 0 .. MaxContent, TakeBack(n) PROVE Bounded
    BY <2>5 DEF TakeBack
  <2>6. ASSUME NEW n \in 0 .. MaxContent, Reallocate(n) PROVE Bounded
    BY <2>6 DEF Reallocate
  <2>7. QED
    BY <2>1, <2>2, <2>3, <2>4, <2>5, <2>6 DEF Next
<1>2. QED
  BY <1>1, TypeCorrect, PTL DEF Spec, GrowthBounded
-----------------------------------------------------------------------------
(* Http: what a peer sends for a request, atom by atom.                    *)

FieldNames == {"Connection", "Range", "Content-Length"}
HeaderAtoms(r) == {HeaderLine(f, r.headers[f]) : f \in DOMAIN r.headers}
Atom == {CRLF, BodyByte} \cup {RequestLine(r) : r \in Requests} \cup UNION {HeaderAtoms(r) : r \in Requests}

FieldOf(r, f) == IF f \in DOMAIN r.headers THEN <<f>> ELSE <<>>
LinesOf(r, f) == IF f \in DOMAIN r.headers THEN <<HeaderLine(f, r.headers[f]), CRLF>> ELSE <<>>

\* The fields of r in the order in which they are sent.
HeaderFields(r) == FieldOf(r, "Connection") \o FieldOf(r, "Range") \o FieldOf(r, "Content-Length")

Among(fields, n) == {fields[i] : i \in 1 .. n}

\* The lines are those of the fields: each with a CRLF behind it.
AreLinesOf(r, lines, fields) ==
    /\ lines \in Seq(Atom) /\ fields \in Seq(FieldNames)
    /\ Len(lines) = 2 * Len(fields)
    /\ \A h \in 1 .. Len(fields) :
          /\ lines[2 * h - 1] = HeaderLine(fields[h], r.headers[fields[h]])
          /\ lines[2 * h] = CRLF

Listed(r, lines, fields, set) == AreLinesOf(r, lines, fields) /\ Among(fields, Len(fields)) = set

(* The lines of one field.                                                 *)
LEMMA OneField ==
  ASSUME NEW r \in Requests, NEW f \in FieldNames
  PROVE  Listed(r, LinesOf(r, f), FieldOf(r, f), {f} \cap DOMAIN r.headers)
<1>1. CASE f \in DOMAIN r.headers
  <2> DEFINE line == HeaderLine(f, r.headers[f])
  <2>1. line \in Atom /\ CRLF \in Atom
    BY <1>1 DEF Atom, HeaderAtoms
  <2> HIDE DEF line
  <2>2. <<line, CRLF>> \in Seq(Atom) /\ Len(<<line, CRLF>>) = 2
        /\ <<line, CRLF>>[1] = line /\ <<line, CRLF>>[2] = CRLF
    BY <2>1
  <2>3. <<f>> \in Seq(FieldNames) /\ Len(<<f>>) = 1 /\ <<f>>[1] = f
    OBVIOUS
  <2>4. LinesOf(r, f) = <<line, CRLF>> /\ FieldOf(r, f) = <<f>>
    BY <1>1 DEF LinesOf, FieldOf, line
  <2>5. PICK lines \in Seq(Atom) : lines = <<line, CRLF>> /\ Len(lines) = 2 /\ lines[1] = line /\ lines[2] = CRLF
    BY <2>2, Zenon
  <2>6. PICK fields \in Seq(FieldNames) : fields = <<f>> /\ Len(fields) = 1 /\ fields[1] = f
    BY <2>3, Zenon
  <2>7. 2 * 1 - 1 = 1 /\ 2 * 1 = 2 /\ \A h \in 1 .. 1 : h = 1
    OBVIOUS
  <2>8. \A h \in 1 .. Len(fields) : lines[2 * h - 1] = HeaderLine(fields[h], r.headers[fields[h]]) /\ lines[2 * h] = CRLF
    BY <2>5, <2>6, <2>7 DEF line
  <2>9. AreLinesOf(r, lines, fields)
    BY <2>5, <2>6, <2>7, <2>8 DEF AreLinesOf
  <2>10. Among(fields, Len(fields)) = {f}
    BY <2>6, <2>7 DEF Among
  <2>11. QED
    BY <1>1, <2>4, <2>5, <2>6, <2>9, <2>10 DEF Listed
<1>2. CASE f \notin DOMAIN r.headers
  <2>1. LinesOf(r, f) = <<>> /\ FieldOf(r, f) = <<>>
    BY <1>2 DEF LinesOf, FieldOf
  <2>2. <<>> \in Seq(Atom) /\ <<>> \in Seq(FieldNames) /\ Len(<<>>) = 0
    OBVIOUS
  <2>3. QED
    BY <1>2, <2>1, <2>2 DEF AreLinesOf, Among, Listed
<1>3. QED
  BY <1>1, <1>2

(* The lines of some fields and of some more.                              *)
LEMMA MoreFields ==
  ASSUME NEW r, NEW l1, NEW f1, NEW s1, Listed(r, l1, f1, s1),
         NEW l2, NEW f2, NEW s2, Listed(r, l2, f2, s2)
  PROVE  Listed(r, l1 \o l2, f1 \o f2, s1 \cup s2)
<1> DEFINE lines == l1 \o l2
           fields == f1 \o f2
<1>1. /\ l1 \in Seq(Atom) /\ l2 \in Seq(Atom) /\ f1 \in Seq(FieldNames) /\ f2 \in Seq(FieldNames)
      /\ Len(l1) = 2 * Len(f1) /\ Len(l2) = 2 * Len(f2)
      /\ Len(f1) \in Nat /\ Len(f2) \in Nat
  BY LenProperties DEF AreLinesOf, Listed
<1>2. /\ lines \in Seq(Atom) /\ Len(lines) = Len(l1) + Len(l2)
      /\ \A i \in 1 .. Len(l1) + Len(l2) : lines[i] = IF i <= Len(l1) THEN l1[i] ELSE l2[i - Len(l1)]
  BY <1>1, ConcatProperties
<1>3. /\ fields \in Seq(FieldNames) /\ Len(fields) = Len(f1) + Len(f2)
      /\ \A i \in 1 .. Len(f1) + Len(f2) : fields[i] = IF i <= Len(f1) THEN f1[i] ELSE f2[i - Len(f1)]
  BY <1>1, ConcatProperties
<1> HIDE DEF lines, fields
<1>4. ASSUME NEW h \in 1 .. Len(fields)
      PROVE  /\ lines[2 * h - 1] = HeaderLine(fields[h], r.headers[fields[h]])
             /\ lines[2 * h] = CRLF
  <2>1. 2 * h - 1 \in 1 .. Len(l1) + Len(l2) /\ 2 * h \in 1 .. Len(l1) + Len(l2)
    BY <1>1, <1>3
  <2>2. CASE h <= Len(f1)
    <3>1. h \in 1 .. Len(f1) /\ 2 * h - 1 <= Len(l1) /\ 2 * h <= Len(l1)
      BY <1>1, <1>3, <2>2
    <3>2. fields[h] = f1[h] /\ lines[2 * h - 1] = l1[2 * h - 1] /\ lines[2 * h] = l1[2 * h]
      BY <1>2, <1>3, <2>1, <3>1
    <3>3. QED
      BY <3>1, <3>2 DEF AreLinesOf, Listed
  <2>3. CASE ~(h <= Len(f1))
    <3> DEFINE g == h - Len(f1)
    <3>1. /\ g \in 1 .. Len(f2) /\ ~(2 * h - 1 <= Len(l1)) /\ ~(2 * h <= Len(l1))
          /\ 2 * h - 1 - Len(l1) = 2 * g - 1 /\ 2 * h - Len(l1) = 2 * g
      BY <1>1, <1>3, <2>3
    <3>2. fields[h] = f2[g]
      BY <1>3, <2>3
    <3>3. lines[2 * h - 1] = l2[2 * h - 1 - Len(l1)] /\ lines[2 * h] = l2[2 * h - Len(l1)]
      BY <1>2, <2>1, <3>1
    <3> HIDE DEF g
    <3>4. QED
      BY <3>1, <3>2, <3>3 DEF AreLinesOf, Listed
  <2>4. QED
    BY <2>2, <2>3
<1>5. Len(lines) = 2 * Len(fields)
  BY <1>1, <1>2, <1>3
<1>6. AreLinesOf(r, lines, fields)
  BY <1>2, <1>3, <1>4, <1>5 DEF AreLinesOf
<1>7. Among(fields, Len(fields)) = Among(f1, Len(f1)) \cup Among(f2, Len(f2))
  <2>1. \A i \in 1 .. Len(fields) :
           \/ i \in 1 .. Len(f1) /\ fields[i] = f1[i]
           \/ i - Len(f1) \in 1 .. Len(f2) /\ fields[i] = f2[i - Len(f1)]
    BY <1>1, <1>3
  <2>2. \A i \in 1 .. Len(f1) : i \in 1 .. Len(fields) /\ fields[i] = f1[i]
    BY <1>1, <1>3
  <2>3. ASSUME NEW i \in 1 .. Len(f2)
        PROVE  i + Len(f1) \in 1 .. Len(fields) /\ fields[i + Len(f1)] = f2[i]
    <3>1. /\ i + Len(f1) \in 1 .. Len(f1) + Len(f2) /\ ~(i + Len(f1) <= Len(f1))
          /\ i + Len(f1) - Len(f1) = i
      BY <1>1
    <3>2. QED
      BY <1>3, <3>1
  <2>4. ASSUME NEW i \in 1 .. Len(fields)
        PROVE  fields[i] \in Among(f1, Len(f1)) \cup Among(f2, Len(f2))
    BY <2>1 DEF Among
  <2>5. ASSUME NEW i \in 1 .. Len(f1)
        PROVE  f1[i] \in Among(fields, Len(fields))
    BY <2>2 DEF Among
  <2>6. ASSUME NEW i \in 1 .. Len(f2)
        PROVE  f2[i] \in Among(fields, Len(fields))
    BY <2>3 DEF Among
  <2>7. /\ Among(f1, Len(f1)) \subseteq Among(fields, Len(fields))
        /\ Among(f2, Len(f2)) \subseteq Among(fields, Len(fields))
    BY <2>5, <2>6 DEF Among
  <2>8. Among(fields, Len(fields)) \subseteq Among(f1, Len(f1)) \cup Among(f2, Len(f2))
    BY <2>4 DEF Among
  <2>9. QED
    BY <2>7, <2>8
<1>8. s1 = Among(f1, Len(f1)) /\ s2 = Among(f2, Len(f2))
  BY DEF Listed
<1>9. Listed(r, lines, fields, s1 \cup s2)
  BY <1>6, <1>7, <1>8 DEF Listed
<1>10. QED
  BY <1>9 DEF lines, fields

(* The atoms of a request: its line, its headers in order, an empty line   *)
(* and its body.                                                           *)
LEMMA AtomsAre ==
  ASSUME NEW r \in Requests
  PROVE  LET n == Len(HeaderFields(r)) IN
         /\ n \in Nat /\ HeaderFields(r) \in Seq(FieldNames)
         /\ Among(HeaderFields(r), n) = DOMAIN r.headers
         /\ r.body \in Nat /\ Atoms(r) \in Seq(Atom)
         /\ Len(Atoms(r)) = 2 * n + 3 + r.body
         /\ Atoms(r)[1] = RequestLine(r) /\ Atoms(r)[2] = CRLF
         /\ \A h \in 1 .. n :
               /\ Atoms(r)[2 * h + 1] = HeaderLine(HeaderFields(r)[h], r.headers[HeaderFields(r)[h]])
               /\ Atoms(r)[2 * h + 2] = CRLF
         /\ Atoms(r)[2 * n + 3] = CRLF
         /\ \A b \in 1 .. r.body : Atoms(r)[2 * n + 3 + b] = BodyByte
<1> DEFINE F == HeaderFields(r)
           L == HeaderLines(r)
           n == Len(F)
           B == [i \in 1 .. r.body |-> BodyByte]
           top == <<RequestLine(r), CRLF>>
           gap == <<CRLF>>
<1>1. r.body \in Nat /\ DOMAIN r.headers \subseteq FieldNames
  BY HttpAssumption DEF IsRequest, FieldNames
<1>2. AreLinesOf(r, L, F) /\ Among(F, n) = DOMAIN r.headers
  <2> DEFINE l1 == LinesOf(r, "Connection")
             l2 == LinesOf(r, "Range")
             l3 == LinesOf(r, "Content-Length")
             f1 == FieldOf(r, "Connection")
             f2 == FieldOf(r, "Range")
             f3 == FieldOf(r, "Content-Length")
  <2>1. L = (l1 \o l2) \o l3 /\ F = (f1 \o f2) \o f3
    BY DEF HeaderLines, LinesOf, HeaderFields
  <2>2. /\ Listed(r, l1, f1, {"Connection"} \cap DOMAIN r.headers)
        /\ Listed(r, l2, f2, {"Range"} \cap DOMAIN r.headers)
        /\ Listed(r, l3, f3, {"Content-Length"} \cap DOMAIN r.headers)
    BY OneField DEF FieldNames
  <2> HIDE DEF l1, l2, l3, f1, f2, f3
  <2>3. Listed(r, l1 \o l2, f1 \o f2, ({"Connection"} \cap DOMAIN r.headers) \cup ({"Range"} \cap DOMAIN r.headers))
    BY <2>2, MoreFields
  <2>4. Listed(r, (l1 \o l2) \o l3, (f1 \o f2) \o f3,
               (({"Connection"} \cap DOMAIN r.headers) \cup ({"Range"} \cap DOMAIN r.headers))
                  \cup ({"Content-Length"} \cap DOMAIN r.headers))
    BY <2>2, <2>3, MoreFields
  <2>5. (({"Connection"} \cap DOMAIN r.headers) \cup ({"Range"} \cap DOMAIN r.headers))
           \cup ({"Content-Length"} \cap DOMAIN r.headers) = DOMAIN r.headers
    BY <1>1 DEF FieldNames
  <2>6. QED
    BY <2>1, <2>4, <2>5 DEF Listed
<1>3. L \in Seq(Atom) /\ F \in Seq(FieldNames) /\ n \in Nat /\ Len(L) = 2 * n /\ n = Len(F)
  BY <1>2, LenProperties DEF AreLinesOf
<1>4. top \in Seq(Atom) /\ Len(top) = 2 /\ top[1] = RequestLine(r) /\ top[2] = CRLF
  <2>1. RequestLine(r) \in Atom /\ CRLF \in Atom
    BY DEF Atom
  <2>2. QED
    BY <2>1
<1>5. gap \in Seq(Atom) /\ Len(gap) = 1 /\ gap[1] = CRLF
  <2>1. CRLF \in Atom
    BY DEF Atom
  <2>2. QED
    BY <2>1
<1>6. B \in Seq(Atom) /\ Len(B) = r.body /\ \A b \in 1 .. r.body : B[b] = BodyByte
  <2>1. BodyByte \in Atom
    BY DEF Atom
  <2>2. B \in [1 .. r.body -> Atom]
    BY <2>1
  <2>3. B \in Seq(Atom) /\ Len(B) = r.body
    BY <1>1, <2>2, FunctionIsSeq
  <2>4. QED
    BY <2>3
<1>7. Atoms(r) = ((top \o L) \o gap) \o B
  BY DEF Atoms
<1> HIDE DEF F, L, B, top, gap, n
<1>8. PICK head \in Seq(Atom) :
         /\ head = top \o L /\ Len(head) = 2 * n + 2
         /\ \A i \in 1 .. 2 * n + 2 : head[i] = IF i <= 2 THEN top[i] ELSE L[i - 2]
  <2>1. /\ top \o L \in Seq(Atom) /\ Len(top \o L) = Len(top) + Len(L)
        /\ \A i \in 1 .. Len(top) + Len(L) : (top \o L)[i] = IF i <= Len(top) THEN top[i] ELSE L[i - Len(top)]
    BY <1>3, <1>4, ConcatProperties
  <2>2. Len(top) + Len(L) = 2 * n + 2
    BY <1>3, <1>4
  <2>3. QED
    BY <1>4, <2>1, <2>2
<1>9. PICK front \in Seq(Atom) :
         /\ front = (top \o L) \o gap /\ Len(front) = 2 * n + 3
         /\ \A i \in 1 .. 2 * n + 3 : front[i] = IF i <= 2 * n + 2 THEN head[i] ELSE gap[i - (2 * n + 2)]
  <2>1. /\ head \o gap \in Seq(Atom) /\ Len(head \o gap) = Len(head) + Len(gap)
        /\ \A i \in 1 .. Len(head) + Len(gap) : (head \o gap)[i] = IF i <= Len(head) THEN head[i] ELSE gap[i - Len(head)]
    <3>1. head \in Seq(Atom) /\ gap \in Seq(Atom)
      BY <1>5
    <3>2. QED
      BY <3>1, ConcatProperties
  <2>2. Len(head) + Len(gap) = 2 * n + 3
    BY <1>3, <1>5, <1>8
  <2>3. QED
    BY <1>8, <2>1, <2>2, ZenonT(60)
<1>10. /\ Atoms(r) \in Seq(Atom) /\ Len(Atoms(r)) = 2 * n + 3 + r.body
       /\ \A i \in 1 .. 2 * n + 3 + r.body :
             Atoms(r)[i] = IF i <= 2 * n + 3 THEN front[i] ELSE B[i - (2 * n + 3)]
  <2>1. /\ front \o B \in Seq(Atom) /\ Len(front \o B) = Len(front) + Len(B)
        /\ \A i \in 1 .. Len(front) + Len(B) : (front \o B)[i] = IF i <= Len(front) THEN front[i] ELSE B[i - Len(front)]
    BY <1>6, <1>9, ConcatProperties, ZenonT(60)
  <2>2. Len(front) + Len(B) = 2 * n + 3 + r.body /\ Len(front) = 2 * n + 3
    BY <1>6, <1>9
  <2>3. QED
    BY <1>7, <1>9, <2>1, <2>2
<1>11. \A i \in 1 .. 2 * n + 2 : Atoms(r)[i] = IF i <= 2 THEN top[i] ELSE L[i - 2]
  BY <1>1, <1>3, <1>8, <1>9, <1>10
<1>12. Atoms(r)[2 * n + 3] = CRLF
  <2>1. PICK i \in Nat : i = 2 * n + 3
    BY <1>3
  <2>2. /\ i \in 1 .. 2 * n + 3 /\ i \in 1 .. 2 * n + 3 + r.body
        /\ i <= 2 * n + 3 /\ ~(i <= 2 * n + 2) /\ i - (2 * n + 2) = 1
    BY <1>1, <1>3, <2>1
  <2>3. Atoms(r)[i] = front[i] /\ front[i] = gap[1]
    BY <1>9, <1>10, <2>2
  <2>4. QED
    BY <1>5, <2>1, <2>3
<1>13. Atoms(r)[1] = RequestLine(r) /\ Atoms(r)[2] = CRLF
  <2>1. 1 \in 1 .. 2 * n + 2 /\ 2 \in 1 .. 2 * n + 2
    BY <1>3
  <2>2. QED
    BY <1>4, <1>11, <2>1
<1>14. ASSUME NEW h \in 1 .. n
       PROVE  Atoms(r)[2 * h + 1] = HeaderLine(F[h], r.headers[F[h]]) /\ Atoms(r)[2 * h + 2] = CRLF
  <2>1. PICK i \in Nat, j \in Nat : i = 2 * h + 1 /\ j = 2 * h + 2
    BY <1>3
  <2>2. /\ i \in 1 .. 2 * n + 2 /\ j \in 1 .. 2 * n + 2 /\ ~(i <= 2) /\ ~(j <= 2)
        /\ i - 2 = 2 * h - 1 /\ j - 2 = 2 * h
    BY <1>3, <2>1
  <2>3. Atoms(r)[i] = L[2 * h - 1] /\ Atoms(r)[j] = L[2 * h]
    BY <1>11, <2>2
  <2>4. L[2 * h - 1] = HeaderLine(F[h], r.headers[F[h]]) /\ L[2 * h] = CRLF
    BY <1>2, <1>3 DEF AreLinesOf
  <2>5. QED
    BY <2>1, <2>3, <2>4
<1>15. ASSUME NEW b \in 1 .. r.body
       PROVE  Atoms(r)[2 * n + 3 + b] = BodyByte
  <2>1. PICK i \in Nat : i = 2 * n + 3 + b
    BY <1>1, <1>3
  <2>2. i \in 1 .. 2 * n + 3 + r.body /\ ~(i <= 2 * n + 3) /\ i - (2 * n + 3) = b
    BY <1>1, <1>3, <2>1
  <2>3. Atoms(r)[i] = B[b]
    BY <1>10, <2>2
  <2>4. QED
    BY <1>6, <2>1, <2>3
<1>16. QED
  BY <1>1, <1>2, <1>3, <1>10, <1>12, <1>13, <1>14, <1>15 DEF F, n
-----------------------------------------------------------------------------
(* Where the parser is.                                                    *)

Unread == inputBuffer \o wire
Current == Len(out) + 1

\* What request_ holds of r: nothing yet, its line, and the first n of its headers.
FreshRequest == request = [EmptyRequest EXCEPT !.body = request.body]
LineSeen(r) ==
    /\ Proper(r)
    /\ request.method = r.method /\ request.path = r.path
    /\ request.query = r.query /\ request.version = r.version
HeadersSeen(r, n) ==
    /\ DOMAIN request.headers = Among(HeaderFields(r), n)
    /\ \A f \in DOMAIN request.headers : request.headers[f] = r.headers[f]

\* The parser has taken p atoms of r.
AtLine(p) == state = "kExpectRequestLine" /\ p = 0 /\ FreshRequest
AtHeaders(r, p) ==
    \E h \in 0 .. Len(HeaderFields(r)) :
       state = "kExpectHeaders" /\ p = 2 + 2 * h /\ LineSeen(r) /\ HeadersSeen(r, h)
AtBody(r, p) ==
    LET n == Len(HeaderFields(r)) IN
    state = "kExpectBody" /\ p = 2 * n + 3 /\ LineSeen(r) /\ HeadersSeen(r, n)
AtEnd(r, p) == state = "kGotAll" /\ p = Len(Atoms(r)) /\ LineSeen(r) /\ SeenAs(request, r)
Parsed(r, p) ==
    DOMAIN request = DOMAIN EmptyRequest /\ (AtLine(p) \/ AtHeaders(r, p) \/ AtBody(r, p) \/ AtEnd(r, p))

\* The k-th request to the n-th are what is unread; the i-th begins behind place c[i], which
\* is below 0 when some of it has been taken.
Laid(unread, requests, c, k, n) ==
    /\ c \in [Nat -> Int]
    /\ c[n + 1] = Len(unread)
    /\ \A i \in k .. n + 1 : c[i] <= Len(unread)
    /\ \A i \in k .. n : c[i + 1] = c[i] + Len(Atoms(requests[i]))
    /\ \A i \in k .. n : \A j \in 1 .. Len(Atoms(requests[i])) :
          c[i] + j >= 1 => unread[c[i] + j] = Atoms(requests[i])[j]

LaidOut(c, k, n) == Laid(Unread, sent, c, k, n)

Placed(p, k, n) == \E c \in [Nat -> Int] : c[k] = 0 - p /\ LaidOut(c, k, n)

InPlace(p, k, n) ==
    /\ Placed(p, k, n)
    /\ k <= n => Parsed(sent[k], p)
    /\ k > n => AtLine(p)

IsSequence(s) == s \in Seq(Among(s, Len(s)))
ResponseFields == {"close", "status", "body", "lengths", "file", "seen", "onto", "after", "cut"}
SentTypes ==
    /\ sent \in Seq(Requests) /\ IsSequence(out)
    /\ \A i \in 1 .. Len(out) : DOMAIN out[i] = ResponseFields
HttpTypes == SentTypes /\ wire \in Seq(Atom) /\ inputBuffer \in Seq(Atom)

\* As many requests are over as responses were sent, and none of these ends the connection.
InStep ==
    /\ HttpTypes /\ split = 0
    /\ Current <= Len(sent) + 1
    /\ \A i \in 1 .. Len(out) : ~out[i].close
    /\ \E p \in Nat : InPlace(p, Current, Len(sent))

\* What is unread begins with a body that was taken for read, and if no other request
\* was sent it is nothing else.
BodyIsLeft ==
    /\ Len(Unread) >= 1 /\ Unread[1] = BodyByte
    /\ split = Len(sent) => \A i \in 1 .. Len(Unread) : Unread[i] = BodyByte

\* The parser has lost its place: a request has been taken before its body was read.
OutOfStep ==
    /\ HttpTypes /\ split \in 1 .. Len(sent) /\ BodyIsLeft
    /\ \A i \in 1 .. Len(out) : ~out[i].close
    /\ \/ /\ state = "kGotAll" /\ Current = split
          /\ LineSeen(sent[split]) /\ HeadSeenAs(request, sent[split])
       \/ state = "kExpectRequestLine" /\ Current = split + 1

HttpInv == SentTypes /\ AnswersInOrder /\ (connState = "kConnected" => InStep \/ OutOfStep)

\* What AnswersInOrder says of the i-th response.
RightAt(i) ==
    /\ split = 0 \/ i <= split => Answers(out[i], sent[i], i = split)
    /\ i < Len(out) => ~out[i].close

\* The sequence q of responses answers what o does.
SameAnswers(o, q) ==
    /\ IsSequence(q) /\ Len(q) = Len(o)
    /\ \A i \in 1 .. Len(o) :
          DOMAIN q[i] = DOMAIN o[i] /\ q[i].status = o[i].status /\ q[i].close = o[i].close /\ q[i].seen = o[i].seen

(* What is unread is what has been read and what has not.                  *)
LEMMA UnreadIs ==
  ASSUME HttpTypes
  PROVE  /\ Len(inputBuffer) \in Nat /\ Len(wire) \in Nat /\ Len(sent) \in Nat /\ Len(out) \in Nat
         /\ Unread \in Seq(Atom) /\ Len(Unread) = Len(inputBuffer) + Len(wire)
         /\ \A i \in 1 .. Len(inputBuffer) + Len(wire) :
               Unread[i] = IF i <= Len(inputBuffer) THEN inputBuffer[i] ELSE wire[i - Len(inputBuffer)]
         /\ \A i \in 1 .. Len(sent) : sent[i] \in Requests
<1>1. sent \in Seq(Requests) /\ wire \in Seq(Atom) /\ inputBuffer \in Seq(Atom) /\ out \in Seq(Among(out, Len(out)))
  BY DEF HttpTypes, SentTypes, IsSequence
<1>2. Len(inputBuffer) \in Nat /\ Len(wire) \in Nat /\ Len(sent) \in Nat /\ Len(out) \in Nat
  BY <1>1, LenProperties
<1>3. /\ Unread \in Seq(Atom) /\ Len(Unread) = Len(inputBuffer) + Len(wire)
      /\ \A i \in 1 .. Len(inputBuffer) + Len(wire) :
               Unread[i] = IF i <= Len(inputBuffer) THEN inputBuffer[i] ELSE wire[i - Len(inputBuffer)]
  BY <1>1, ConcatProperties DEF Unread
<1>4. \A i \in 1 .. Len(sent) : sent[i] \in Requests
  BY <1>1, ElementOfSeq
<1>5. QED
  BY <1>2, <1>3, <1>4

(* The front of the buffer is the rest of the current request.             *)
LEMMA FrontIs ==
  ASSUME HttpTypes, NEW p \in Nat, NEW k \in 1 .. Len(sent), Placed(p, k, Len(sent))
  PROVE  /\ sent[k] \in Requests /\ Len(Atoms(sent[k])) \in Nat
         /\ Len(Atoms(sent[k])) - p <= Len(inputBuffer) + Len(wire)
         /\ \A i \in 1 .. Len(Atoms(sent[k])) - p :
               IF i <= Len(inputBuffer) THEN inputBuffer[i] = Atoms(sent[k])[p + i]
                                        ELSE wire[i - Len(inputBuffer)] = Atoms(sent[k])[p + i]
<1> DEFINE r == sent[k]
           n == Len(sent)
           size == Len(Atoms(r))
<1>1. /\ r \in Requests /\ n \in Nat /\ Len(inputBuffer) \in Nat /\ Len(wire) \in Nat
      /\ Len(Unread) = Len(inputBuffer) + Len(wire)
  BY UnreadIs
<1> PICK c \in [Nat -> Int] : c[k] = 0 - p /\ LaidOut(c, k, Len(sent))
  BY DEF Placed
<1>2. Atoms(r) \in Seq(Atom) /\ size \in Nat
  <2>1. Atoms(r) \in Seq(Atom)
    BY <1>1, AtomsAre
  <2>2. QED
    BY <2>1, LenProperties
<1> HIDE DEF r, n, size
<1>3. k \in k .. n /\ k \in k .. n + 1 /\ k + 1 \in k .. n + 1
  BY <1>1 DEF n
<1>4. c[k + 1] <= Len(Unread) /\ c[k + 1] = c[k] + size
  BY <1>3 DEF Laid, LaidOut, n, r, size
<1>5. size - p <= Len(inputBuffer) + Len(wire)
  BY <1>1, <1>2, <1>4
<1>6. ASSUME NEW i \in 1 .. size - p
      PROVE  IF i <= Len(inputBuffer) THEN inputBuffer[i] = Atoms(r)[p + i]
                                      ELSE wire[i - Len(inputBuffer)] = Atoms(r)[p + i]
  <2>1. PICK j \in Nat : j = p + i
    BY <1>2
  <2>2. j \in 1 .. size /\ c[k] + j = i /\ c[k] + j >= 1
    BY <1>2, <2>1
  <2>3. Unread[c[k] + j] = Atoms(r)[j]
    BY <1>3, <2>2 DEF Laid, LaidOut, n, r, size
  <2>4. Unread[i] = Atoms(r)[p + i]
    BY <2>1, <2>2, <2>3
  <2>5. i \in 1 .. Len(inputBuffer) + Len(wire)
    BY <1>1, <1>2, <1>5
  <2>6. Unread[i] = IF i <= Len(inputBuffer) THEN inputBuffer[i] ELSE wire[i - Len(inputBuffer)]
    BY <2>5, UnreadIs
  <2>7. QED
    BY <2>4, <2>6
<1>7. QED
  BY <1>1, <1>2, <1>5, <1>6 DEF r, size

(* The first line of the buffer, when it has something in it, and when it  *)
(* is empty.                                                               *)
LEMMA FirstLine ==
  ASSUME inputBuffer \in Seq(Atom), Len(inputBuffer) >= 2,
         inputBuffer[1] # CRLF, inputBuffer[2] = CRLF
  PROVE  LineEnd = 2 /\ Len(Line) = 1 /\ Line[1] = inputBuffer[1]
<1>1. Len(inputBuffer) \in Nat /\ DOMAIN inputBuffer = 1 .. Len(inputBuffer)
  BY LenProperties
<1> DEFINE End(i) == inputBuffer[i] = CRLF /\ \A j \in 1 .. i - 1 : inputBuffer[j] # CRLF
<1>2. 2 \in DOMAIN inputBuffer /\ End(2)
  <2>1. \A j \in 1 .. 2 - 1 : j = 1
    OBVIOUS
  <2>2. QED
    BY <1>1, <2>1
<1>3. \A i \in DOMAIN inputBuffer : End(i) => i = 2
  <2>1. ASSUME NEW i \in DOMAIN inputBuffer, End(i), i # 2
        PROVE  FALSE
    <3>1. i = 1 \/ 2 \in 1 .. i - 1
      BY <1>1, <2>1
    <3>2. QED
      BY <2>1, <3>1
  <2>2. QED
    BY <2>1
<1>4. LineEnd = CHOOSE i \in DOMAIN inputBuffer : End(i)
  BY DEF LineEnd
<1> HIDE DEF End
<1>5. LineEnd = 2
  BY <1>2, <1>3, <1>4
<1>6. Line = SubSeq(inputBuffer, 1, 1)
  BY <1>5 DEF Line
<1>7. \A i \in 1 .. 1 : inputBuffer[i] \in Atom
  <2>1. \A i \in 1 .. 1 : i \in 1 .. Len(inputBuffer)
    BY <1>1
  <2>2. QED
    BY <2>1, ElementOfSeq
<1>8. Len(SubSeq(inputBuffer, 1, 1)) = 1 /\ SubSeq(inputBuffer, 1, 1)[1] = inputBuffer[1]
  BY <1>7, SubSeqProperties
<1>9. QED
  BY <1>5, <1>6, <1>8

(* An empty line.                                                          *)
LEMMA EmptyLine ==
  ASSUME inputBuffer \in Seq(Atom), Len(inputBuffer) >= 1, inputBuffer[1] = CRLF
  PROVE  LineEnd = 1 /\ Len(Line) = 0
<1>1. Len(inputBuffer) \in Nat /\ DOMAIN inputBuffer = 1 .. Len(inputBuffer)
  BY LenProperties
<1> DEFINE End(i) == inputBuffer[i] = CRLF /\ \A j \in 1 .. i - 1 : inputBuffer[j] # CRLF
<1>2. 1 \in DOMAIN inputBuffer /\ End(1)
  <2>1. \A j \in 1 .. 1 - 1 : FALSE
    OBVIOUS
  <2>2. QED
    BY <1>1, <2>1
<1>3. \A i \in DOMAIN inputBuffer : End(i) => i = 1
  <2>1. ASSUME NEW i \in DOMAIN inputBuffer, End(i), i # 1
        PROVE  FALSE
    <3>1. 1 \in 1 .. i - 1
      BY <1>1, <2>1
    <3>2. QED
      BY <2>1, <3>1
  <2>2. QED
    BY <2>1
<1>4. LineEnd = CHOOSE i \in DOMAIN inputBuffer : End(i)
  BY DEF LineEnd
<1> HIDE DEF End
<1>5. LineEnd = 1
  BY <1>2, <1>3, <1>4
<1>6. Line = SubSeq(inputBuffer, 1, 0)
  BY <1>5 DEF Line
<1>7. SubSeq(inputBuffer, 1, 0) = <<>>
  BY SubSeqEmpty
<1>8. QED
  BY <1>5, <1>6, <1>7

(* What is left of a sequence when m elements are taken from its front.    *)
LEMMA RestOf ==
  ASSUME NEW S, NEW b \in Seq(S), NEW w \in Seq(S), NEW m \in Nat, m <= Len(b)
  PROVE  LET rest == SubSeq(b, m + 1, Len(b)) IN
         /\ rest \in Seq(S) /\ Len(rest) = Len(b) - m
         /\ Len(rest \o w) = Len(b) - m + Len(w)
         /\ \A i \in 1 .. Len(b) - m + Len(w) : (rest \o w)[i] = (b \o w)[i + m]
<1> DEFINE rest == SubSeq(b, m + 1, Len(b))
           after == rest \o w
           before == b \o w
<1>1. Len(b) \in Nat /\ Len(w) \in Nat
  BY LenProperties
<1>2. /\ rest \in Seq(S) /\ Len(rest) = Len(b) - m
      /\ \A i \in 1 .. Len(b) - m : rest[i] = b[i + m]
  <2>1. m + 1 \in Int /\ \A i \in m + 1 .. Len(b) : i \in 1 .. Len(b)
    BY <1>1
  <2>2. \A i \in m + 1 .. Len(b) : b[i] \in S
    BY <1>1, <2>1, ElementOfSeq
  <2>3. /\ rest \in Seq(S)
        /\ Len(rest) = IF m + 1 <= Len(b) THEN Len(b) - (m + 1) + 1 ELSE 0
        /\ \A i \in 1 .. Len(b) - (m + 1) + 1 : rest[i] = b[m + 1 + i - 1]
    BY <1>1, <2>1, <2>2, SubSeqProperties
  <2> HIDE DEF rest
  <2>4. Len(rest) = Len(b) - m
    BY <1>1, <2>3
  <2>5. ASSUME NEW i \in 1 .. Len(b) - m
        PROVE  rest[i] = b[i + m]
    <3>1. i \in 1 .. Len(b) - (m + 1) + 1 /\ m + 1 + i - 1 = i + m
      BY <1>1
    <3>2. QED
      BY <2>3, <3>1
  <2>6. QED
    BY <2>3, <2>4, <2>5
<1> HIDE DEF rest
<1>3. /\ Len(after) = Len(rest) + Len(w)
      /\ \A i \in 1 .. Len(rest) + Len(w) : after[i] = IF i <= Len(rest) THEN rest[i] ELSE w[i - Len(rest)]
  <2>1. rest \in Seq(S)
    BY <1>2
  <2>2. QED
    BY <2>1, ConcatProperties
<1>4. \A i \in 1 .. Len(b) + Len(w) : before[i] = IF i <= Len(b) THEN b[i] ELSE w[i - Len(b)]
  BY ConcatProperties
<1> HIDE DEF after, before
<1>5. Len(rest) = Len(b) - m
  BY <1>2
<1>6. ASSUME NEW i \in 1 .. Len(b) - m + Len(w)
      PROVE  after[i] = before[i + m]
  <2>1. PICK g \in Nat : g = i + m
    BY <1>1
  <2>2. g \in 1 .. Len(b) + Len(w) /\ i \in 1 .. Len(rest) + Len(w)
    BY <1>1, <1>5, <2>1
  <2>3. before[g] = IF g <= Len(b) THEN b[g] ELSE w[g - Len(b)]
    BY <1>4, <2>2
  <2>4. after[i] = IF i <= Len(rest) THEN rest[i] ELSE w[i - Len(rest)]
    BY <1>3, <2>2
  <2>5. CASE i <= Len(rest)
    <3>1. i \in 1 .. Len(b) - m /\ g <= Len(b)
      BY <1>1, <1>5, <2>1, <2>5
    <3>2. rest[i] = b[g]
      BY <1>2, <2>1, <3>1
    <3>3. QED
      BY <2>1, <2>3, <2>4, <2>5, <3>1, <3>2
  <2>6. CASE ~(i <= Len(rest))
    <3>1. ~(g <= Len(b)) /\ g - Len(b) = i - Len(rest)
      BY <1>1, <1>5, <2>1, <2>6
    <3>2. QED
      BY <2>1, <2>3, <2>4, <2>6, <3>1
  <2>7. QED
    BY <2>5, <2>6
<1>7. Len(after) = Len(b) - m + Len(w)
  BY <1>3, <1>5
<1>8. QED
  BY <1>2, <1>6, <1>7 DEF rest, after, before

(* After, what is left of before when its first m elements are gone.        *)
Dropped(before, after, m) ==
    /\ m \in Nat /\ Len(before) \in Nat /\ m <= Len(before)
    /\ Len(after) = Len(before) - m
    /\ \A i \in 1 .. Len(before) - m : after[i] = before[i + m]

(* The requests that are unread stay where they are, counted from the end. *)
LEMMA StillLaid ==
  ASSUME NEW before, NEW after, NEW m, Dropped(before, after, m),
         NEW s \in Seq(Requests), NEW k \in Nat \ {0}, NEW c, Laid(before, s, c, k, Len(s))
  PROVE  Laid(after, s, [i \in Nat |-> c[i] - m], k, Len(s))
<1> DEFINE n == Len(s)
           d == [i \in Nat |-> c[i] - m]
<1>1. n \in Nat /\ m \in Nat
  BY LenProperties DEF Dropped
<1> HIDE DEF n
<1>2. PICK size \in Nat : size = Len(before) /\ m <= size /\ Len(after) = size - m
  BY DEF Dropped
<1>3. \A i \in 1 .. size - m : after[i] = before[i + m]
  BY <1>2 DEF Dropped
<1>4. /\ c[n + 1] = size /\ \A i \in k .. n + 1 : c[i] <= size
      /\ \A i \in k .. n : c[i + 1] = c[i] + Len(Atoms(s[i]))
      /\ \A i \in k .. n : \A j \in 1 .. Len(Atoms(s[i])) :
            c[i] + j >= 1 => before[c[i] + j] = Atoms(s[i])[j]
  BY <1>2 DEF Laid, n
<1>5. c \in [Nat -> Int]
  BY DEF Laid
<1>6. d \in [Nat -> Int]
  BY <1>1, <1>5
<1>7. ASSUME NEW i \in Nat
      PROVE  c[i] \in Int /\ d[i] = c[i] - m
  BY <1>1, <1>5
<1> HIDE DEF d
<1>8. d[n + 1] = size - m
  <2>1. n + 1 \in Nat
    BY <1>1
  <2>2. QED
    BY <1>4, <1>7, <2>1
<1>9. ASSUME NEW i \in k .. n + 1
      PROVE  d[i] <= size - m
  <2>1. i \in Nat
    BY <1>1
  <2>2. PICK x \in Int : x = c[i] /\ x <= size /\ d[i] = x - m
    BY <1>4, <1>7, <2>1
  <2>3. x - m <= size - m
    BY <1>1, <2>2
  <2>4. QED
    BY <2>2, <2>3
<1>10. ASSUME NEW i \in k .. n
       PROVE  \E x \in Int, z \in Nat :
                 /\ x = c[i] /\ z = Len(Atoms(s[i])) /\ x + z <= size
                 /\ d[i] = x - m /\ d[i + 1] = x + z - m
  <2>1. i \in Nat /\ i \in 1 .. Len(s)
    BY <1>1 DEF n
  <2>2. Len(Atoms(s[i])) \in Nat
    <3>1. Atoms(s[i]) \in Seq(Atom)
      BY <2>1, ElementOfSeq, AtomsAre
    <3>2. QED
      BY <3>1, LenProperties
  <2>3. PICK x \in Int, z \in Nat : x = c[i] /\ z = Len(Atoms(s[i])) /\ d[i] = x - m
    BY <1>7, <2>1, <2>2
  <2>4. PICK g \in k .. n + 1 : g = i + 1 /\ g \in Nat
    BY <1>1
  <2>5. c[g] = x + z /\ c[g] <= size
    BY <1>4, <2>3, <2>4
  <2>6. d[g] = c[g] - m
    BY <1>7
  <2>7. x + z <= size /\ d[i + 1] = x + z - m
    <3>1. x + z <= size /\ d[g] = x + z - m
      <4>1. PICK y \in Int : y = c[g] /\ y = x + z /\ y <= size
        BY <1>7, <2>4, <2>5
      <4>2. PICK o \in Int : o = d[g] /\ o = y - m
        BY <1>1, <2>6, <4>1
      <4>3. o = x + z - m /\ x + z <= size
        BY <1>1, <4>1, <4>2
      <4>4. QED
        BY <4>2, <4>3
    <3>2. g = i + 1
      BY <2>4
    <3>3. d[i + 1] = d[g]
      BY <3>2
    <3>4. QED
      BY <3>1, <3>3, Zenon
  <2>8. QED
    BY <2>3, <2>7, Zenon
<1>11. ASSUME NEW i \in k .. n
       PROVE  d[i + 1] = d[i] + Len(Atoms(s[i]))
  <2>1. PICK x \in Int, z \in Nat :
           z = Len(Atoms(s[i])) /\ d[i] = x - m /\ d[i + 1] = x + z - m
    BY <1>10
  <2>2. x + z - m = x - m + z
    BY <1>1
  <2>3. QED
    BY <2>1, <2>2
<1>12. ASSUME NEW i \in k .. n, NEW j \in 1 .. Len(Atoms(s[i])), d[i] + j >= 1
       PROVE  after[d[i] + j] = Atoms(s[i])[j]
  <2>1. PICK x \in Int, z \in Nat :
           x = c[i] /\ z = Len(Atoms(s[i])) /\ x + z <= size /\ d[i] = x - m
    BY <1>10
  <2>2. PICK y \in Nat : y = j /\ y \in 1 .. z /\ x - m + y >= 1
    BY <1>12, <2>1
  <2>3. PICK g \in Int : g = x - m + y
    BY <1>1, <2>2
  <2>4. g + m = x + j /\ x + j >= 1 /\ g \in 1 .. size - m
    <3>1. g + m = x + y
      BY <1>1, <2>3
    <3>2. x + z <= size /\ y <= z /\ y \in Nat /\ x - m + y >= 1 /\ g = x - m + y
      BY <2>1, <2>2, <2>3
    <3>3. x + y >= 1
      BY <1>1, <3>2
    <3>4. x - m + y <= size - m
      BY <1>1, <3>2
    <3>5. g \in 1 .. size - m
      BY <1>1, <1>2, <3>2, <3>4
    <3>6. QED
      BY <2>2, <3>1, <3>3, <3>5
  <2>5. after[g] = before[g + m]
    BY <1>3, <2>4
  <2>6. before[c[i] + j] = Atoms(s[i])[j]
    BY <1>4, <2>1, <2>4
  <2>7. d[i] + j = g
    BY <2>1, <2>2, <2>3
  <2>8. QED
    BY <2>1, <2>4, <2>5, <2>6, <2>7
<1>13. Laid(after, s, d, k, n)
  BY <1>2, <1>6, <1>8, <1>9, <1>11, <1>12 DEF Laid
<1>14. QED
  BY <1>13 DEF d, n

\* The step takes m atoms from the front of the buffer.
Takes(m) == /\ m \in Nat /\ m <= Len(inputBuffer) /\ RetrieveUntil(m)
            /\ UNCHANGED <<wire, sent, out>>

(* Atoms are taken from the front of the buffer.                           *)
LEMMA FrontTaken ==
  ASSUME HttpTypes, NEW m, Takes(m)
  PROVE  HttpTypes' /\ Dropped(Unread, Unread', m)
<1>1. PICK b \in Seq(Atom), w \in Seq(Atom) : b = inputBuffer /\ w = wire
  BY DEF HttpTypes
<1>2. m \in Nat /\ m <= Len(b)
  BY <1>1 DEF Takes
<1> DEFINE left == SubSeq(b, m + 1, Len(b))
<1>3. /\ left \in Seq(Atom) /\ Len(left \o w) = Len(b) - m + Len(w)
      /\ \A i \in 1 .. Len(b) - m + Len(w) : (left \o w)[i] = (b \o w)[i + m]
  BY <1>2, RestOf
<1>4. inputBuffer' = left /\ Unread' = left \o w /\ Unread = b \o w
  BY <1>1 DEF Takes, RetrieveUntil, Unread
<1> HIDE DEF left
<1>5. Len(b) \in Nat /\ Len(w) \in Nat /\ Len(Unread) = Len(b) + Len(w)
  BY <1>1, UnreadIs
<1>6. /\ Len(b) - m + Len(w) = Len(Unread) - m
      /\ Len(Unread) \in Nat /\ m <= Len(Unread)
  BY <1>2, <1>5
<1>7. Dropped(Unread, Unread', m)
  BY <1>2, <1>3, <1>4, <1>6 DEF Dropped
<1>8. HttpTypes'
  BY <1>3, <1>4 DEF HttpTypes, SentTypes, Takes
<1>9. QED
  BY <1>7, <1>8
\* All that HttpInv speaks of but where the unread atoms are.
parserVars == <<server, sent, out, connState, wire, split>>

(* Atoms are taken: the requests stay in place.                            *)
LEMMA PlacedOn ==
  ASSUME HttpTypes, NEW p \in Nat, NEW k \in Nat \ {0}, Placed(p, k, Len(sent)), NEW m, Takes(m)
  PROVE  HttpTypes' /\ Placed(p + m, k, Len(sent))'
<1>1. PICK c \in [Nat -> Int] : c[k] = 0 - p /\ Laid(Unread, sent, c, k, Len(sent))
  BY DEF Placed, LaidOut
<1>2. HttpTypes' /\ Dropped(Unread, Unread', m)
  BY FrontTaken
<1>3. PICK s \in Seq(Requests) : s = sent /\ s = sent'
  BY DEF HttpTypes, SentTypes, Takes
<1> DEFINE d == [i \in Nat |-> c[i] - m]
<1>4. Laid(Unread', s, d, k, Len(s))
  BY <1>1, <1>2, <1>3, StillLaid
<1>5. m \in Nat /\ d[k] = c[k] - m
  BY DEF Takes
<1>6. d \in [Nat -> Int]
  BY <1>5
<1> HIDE DEF d
<1>7. d[k] = 0 - (p + m)
  BY <1>1, <1>5
<1>8. QED
  BY <1>2, <1>3, <1>4, <1>6, <1>7 DEF Placed, LaidOut

(* A step of the parser that takes m atoms of the current request and      *)
(* parses them keeps everything in step.                                   *)
LEMMA ParserMoves ==
  ASSUME InStep, NEW k \in 1 .. Len(sent), k = Current, NEW p \in Nat, Placed(p, k, Len(sent)),
         NEW m, Takes(m), UNCHANGED parserVars, Parsed(sent[k], p + m)'
  PROVE  InStep'
<1>1. HttpTypes /\ k \in Nat \ {0} /\ Len(sent) \in Nat
  BY UnreadIs DEF InStep
<1>2. HttpTypes' /\ Placed(p + m, k, Len(sent))'
  BY <1>1, PlacedOn
<1>3. sent' = sent /\ out' = out /\ wire' = wire /\ split' = split /\ Current' = k
  BY DEF parserVars, Current
<1>4. Parsed(sent[k], p + m)'
  OBVIOUS
<1>5. k \in Nat /\ k <= Len(sent') /\ ~(k > Len(sent'))
  BY <1>1, <1>3
<1>6. p + m \in Nat
  BY DEF Takes
<1>7. InPlace(p + m, k, Len(sent))'
  BY <1>2, <1>3, <1>4, <1>5 DEF InPlace
<1>8. \E q \in Nat : InPlace(q, Current, Len(sent))'
  BY <1>3, <1>6, <1>7
<1>9. QED
  BY <1>2, <1>3, <1>8 DEF InStep, Current

(* With something to read there is a request that is not over.             *)
LEMMA SomeIsOpen ==
  ASSUME InStep, Len(inputBuffer) >= 1 \/ state # "kExpectRequestLine"
  PROVE  \E k \in 1 .. Len(sent), p \in Nat :
            k = Current /\ Placed(p, k, Len(sent)) /\ Parsed(sent[k], p)
<1>1. HttpTypes
  BY DEF InStep
<1>2. /\ Len(inputBuffer) \in Nat /\ Len(wire) \in Nat /\ Len(sent) \in Nat /\ Len(out) \in Nat
      /\ Len(Unread) = Len(inputBuffer) + Len(wire)
  BY <1>1, UnreadIs
<1>3. PICK k \in Nat : k = Current /\ k >= 1 /\ k <= Len(sent) + 1
  BY <1>2 DEF Current, InStep
<1>4. PICK p \in Nat : InPlace(p, k, Len(sent))
  BY <1>3 DEF InStep
<1>5. CASE k <= Len(sent)
  BY <1>2, <1>3, <1>4, <1>5 DEF InPlace
<1>6. CASE k > Len(sent)
  <2>1. AtLine(p) /\ Placed(p, k, Len(sent))
    BY <1>4, <1>6 DEF InPlace
  <2>2. p = 0 /\ state = "kExpectRequestLine" /\ k = Len(sent) + 1
    BY <1>2, <1>3, <1>6, <2>1 DEF AtLine
  <2>3. PICK c : c[k] = 0 - p /\ c[Len(sent) + 1] = Len(Unread)
    BY <2>1 DEF Placed, LaidOut, Laid
  <2>4. c[k] = Len(Unread)
    BY <2>2, <2>3
  <2>5. Len(inputBuffer) + Len(wire) = 0 - p
    BY <1>2, <2>3, <2>4
  <2>6. Len(inputBuffer) = 0
    BY <1>2, <2>2, <2>5
  <2>7. QED
    BY <2>2, <2>6
<1>7. QED
  BY <1>2, <1>3, <1>5, <1>6

(* The answers stay true when nothing more is said, also if a request is   *)
(* taken before its body has been read: it has no answer yet.              *)
LEMMA SameSaid ==
  ASSUME SentTypes, AnswersInOrder, UNCHANGED <<server, sent>>, SameAnswers(out, out'),
         split' = split \/ (split = 0 /\ split' = Current)
  PROVE  SentTypes' /\ AnswersInOrder'
<1>1. PICK n \in Nat : n = Len(out)
  BY LenProperties DEF SentTypes, IsSequence
<1>2. Len(out') = n /\ IsSequence(out')
  BY <1>1 DEF SameAnswers
<1>3. \A i \in 1 .. n : /\ DOMAIN out'[i] = DOMAIN out[i] /\ out'[i].status = out[i].status
                        /\ out'[i].close = out[i].close /\ out'[i].seen = out[i].seen
  BY <1>1 DEF SameAnswers
<1>4. SentTypes'
  BY <1>1, <1>2, <1>3 DEF SentTypes
<1>5. n <= Len(sent) /\ \A i \in 1 .. n : RightAt(i)
  BY <1>1 DEF AnswersInOrder, RightAt
<1>6. ASSUME NEW i \in 1 .. n, NEW cut \in BOOLEAN, Answers(out[i], sent[i], cut)
      PROVE  Answers(out[i], sent[i], cut)'
  <2>1. /\ out'[i].status = out[i].status /\ out'[i].close = out[i].close /\ out'[i].seen = out[i].seen
        /\ sent'[i] = sent[i] /\ server' = server
    BY <1>3
  <2>2. PICK r, seen, closes, status :
           r = sent[i] /\ seen = out[i].seen /\ closes = out[i].close /\ status = out[i].status
    OBVIOUS
  <2>3. IF Proper(r)
        THEN /\ status # 400
             /\ IF cut THEN HeadSeenAs(seen, r) ELSE SeenAs(seen, r)
             /\ AsksForClose(r) => closes
             /\ server = "FileServer" => closes = AsksForClose(r)
        ELSE status = 400
    BY <1>6, <2>2, Zenon DEF Answers
  <2>4. r = sent'[i] /\ seen = out'[i].seen /\ closes = out'[i].close /\ status = out'[i].status
    BY <2>1, <2>2
  <2>5. IF Proper(r)
        THEN /\ status # 400
             /\ IF cut THEN HeadSeenAs(seen, r) ELSE SeenAs(seen, r)
             /\ AsksForClose(r) => closes
             /\ server' = "FileServer" => closes = AsksForClose(r)
        ELSE status = 400
    BY <2>1, <2>3, Zenon
  <2>6. QED
    BY <2>4, <2>5, Zenon DEF Answers
<1>7. ASSUME NEW i \in 1 .. n, split' = 0 \/ i <= split'
      PROVE  /\ split = 0 \/ i <= split
             /\ (i = split') = (i = split)
  <2>1. CASE split' = split
    BY <1>7, <2>1
  <2>2. CASE split = 0 /\ split' = Current
    BY <1>1, <2>2 DEF Current
  <2>3. QED
    BY <2>1, <2>2
<1>8. ASSUME NEW i \in 1 .. n
      PROVE  RightAt(i)'
  <2>1. RightAt(i)
    BY <1>5
  <2>2. i < Len(out') => ~out'[i].close
    <3>1. i < Len(out) => ~out[i].close
      BY <2>1 DEF RightAt
    <3>2. out'[i].close = out[i].close /\ Len(out') = Len(out)
      BY <1>1, <1>2, <1>3
    <3>3. QED
      BY <3>1, <3>2, Zenon
  <2>3. ASSUME split' = 0 \/ i <= split'
        PROVE  Answers(out[i], sent[i], i = split)'
    <3>1. PICK cut \in BOOLEAN : cut = (i = split)
      OBVIOUS
    <3>2. (split = 0 \/ i <= split) /\ cut = (i = split')
      BY <1>7, <2>3, <3>1
    <3>3. Answers(out[i], sent[i], cut)
      BY <2>1, <3>1, <3>2 DEF RightAt
    <3>4. Answers(out[i], sent[i], cut)'
      BY <1>6, <3>3
    <3>5. QED
      BY <3>2, <3>4
  <2>4. QED
    BY <2>2, <2>3 DEF RightAt
<1>9. Len(out') <= Len(sent')
  BY <1>1, <1>2, <1>5
<1>10. AnswersInOrder'
  BY <1>2, <1>8, <1>9 DEF AnswersInOrder, RightAt
<1>11. QED
  BY <1>4, <1>10

(* The same responses answer the same.                                     *)
LEMMA SameOut ==
  ASSUME IsSequence(out), out' = out
  PROVE  SameAnswers(out, out')
BY DEF SameAnswers

(* A step that changes none of this keeps it.                              *)
LEMMA NothingMoves ==
  ASSUME HttpInv, UNCHANGED <<server, sent, connState, wire, split, inputBuffer, state, request>>,
         SameAnswers(out, out')
  PROVE  HttpInv'
<1>1. /\ server' = server /\ sent' = sent /\ connState' = connState /\ wire' = wire /\ split' = split
      /\ inputBuffer' = inputBuffer /\ state' = state /\ request' = request
  OBVIOUS
<1>2. SentTypes' /\ AnswersInOrder'
  BY <1>1, SameSaid DEF HttpInv
<1>3. /\ Len(out') = Len(out)
      /\ (\A i \in 1 .. Len(out) : ~out[i].close) => (\A i \in 1 .. Len(out') : ~out'[i].close)
  BY DEF SameAnswers
<1>4. HttpTypes => HttpTypes'
  BY <1>1, <1>2 DEF HttpTypes
<1>5. Unread' = Unread /\ Current' = Current
  BY <1>1, <1>3 DEF Unread, Current
<1>6. \A p \in Nat : InPlace(p, Current, Len(sent)) => InPlace(p, Current, Len(sent))'
  BY <1>1, <1>5 DEF InPlace, Placed, LaidOut, Parsed, AtLine, AtHeaders, AtBody, AtEnd,
              LineSeen, HeadersSeen, FreshRequest
<1>7. InStep => InStep'
  BY <1>1, <1>3, <1>4, <1>5, <1>6 DEF InStep
<1>8. OutOfStep => OutOfStep'
  BY <1>1, <1>3, <1>4, <1>5 DEF OutOfStep, BodyIsLeft, LineSeen
<1>9. QED
  BY <1>1, <1>2, <1>7, <1>8 DEF HttpInv

(* A complete line at the start of a request is its request line.          *)
LEMMA AtStart ==
  ASSUME InStep, state = "kExpectRequestLine", HasCRLF
  PROVE  \E k \in 1 .. Len(sent) :
            /\ k = Current /\ Placed(0, k, Len(sent)) /\ FreshRequest /\ sent[k] \in Requests
            /\ LineEnd = 2 /\ Len(inputBuffer) >= 2
            /\ Len(Line) = 1 /\ Line[1] = RequestLine(sent[k])
<1>1. HttpTypes /\ inputBuffer \in Seq(Atom)
  BY DEF InStep, HttpTypes
<1>2. Len(inputBuffer) \in Nat /\ DOMAIN inputBuffer = 1 .. Len(inputBuffer)
  BY <1>1, LenProperties
<1>3. PICK e \in 1 .. Len(inputBuffer) : inputBuffer[e] = CRLF
  BY <1>2 DEF HasCRLF
<1>4. PICK k \in 1 .. Len(sent), p \in Nat : k = Current /\ Placed(p, k, Len(sent)) /\ Parsed(sent[k], p)
  BY <1>2, <1>3, SomeIsOpen
<1>5. p = 0 /\ FreshRequest
  BY <1>4 DEF Parsed, AtLine, AtHeaders, AtBody, AtEnd
<1>6. Placed(0, k, Len(sent))
  BY <1>4, <1>5
<1> DEFINE r == sent[k]
           size == Len(Atoms(r))
<1>7. /\ r \in Requests /\ size \in Nat
      /\ \A i \in 1 .. size - 0 :
            IF i <= Len(inputBuffer) THEN inputBuffer[i] = Atoms(r)[0 + i]
                                     ELSE wire[i - Len(inputBuffer)] = Atoms(r)[0 + i]
  BY <1>1, <1>6, FrontIs
<1> HIDE DEF r
<1>8. size >= 3 /\ Atoms(r)[1] = RequestLine(r) /\ Atoms(r)[2] = CRLF
  <2>1. PICK n \in Nat, body \in Nat : /\ size = 2 * n + 3 + body
                                       /\ Atoms(r)[1] = RequestLine(r) /\ Atoms(r)[2] = CRLF
    BY <1>7, AtomsAre
  <2>2. QED
    BY <2>1
<1>9. RequestLine(r) # CRLF
  <2>1. RequestLine(r).atom = "line" /\ CRLF.atom = "CRLF"
    BY DEF RequestLine, CRLF
  <2>2. QED
    BY <2>1
<1> HIDE DEF size
<1>10. inputBuffer[1] = RequestLine(r)
  <2>1. 1 \in 1 .. size - 0 /\ 1 <= Len(inputBuffer) /\ 0 + 1 = 1
    BY <1>2, <1>3, <1>7, <1>8
  <2>2. QED
    BY <1>7, <1>8, <2>1
<1>11. Len(inputBuffer) >= 2
  <2>1. e # 1
    BY <1>3, <1>9, <1>10
  <2>2. QED
    BY <1>2, <2>1
<1>12. inputBuffer[2] = CRLF
  <2>1. 2 \in 1 .. size - 0 /\ 2 <= Len(inputBuffer) /\ 0 + 2 = 2
    BY <1>2, <1>7, <1>8, <1>11
  <2>2. QED
    BY <1>7, <1>8, <2>1
<1>13. LineEnd = 2 /\ Len(Line) = 1 /\ Line[1] = RequestLine(r)
  BY <1>1, <1>9, <1>10, <1>11, <1>12, FirstLine
<1>14. QED
  BY <1>4, <1>5, <1>6, <1>7, <1>11, <1>13 DEF r

(* The request line of r is accepted just when it is proper, and then       *)
(* request_ holds it.                                                      *)
LEMMA LineParsed ==
  ASSUME NEW r \in Requests, FreshRequest, NEW line, Len(line) = 1, line[1] = RequestLine(r)
  PROVE  LET parsed == ProcessRequestLine(request, line) IN
         /\ parsed.ok = Proper(r)
         /\ Proper(r) => parsed.request = [EmptyRequest EXCEPT !.body = request.body, !.method = r.method,
                                              !.path = r.path, !.query = r.query, !.version = r.version]
<1>1. IsA("line", line) /\ line[1].method = r.method /\ line[1].path = r.path
      /\ line[1].query = r.query /\ line[1].version = r.version
  BY DEF IsA, RequestLine
<1>2. request = [EmptyRequest EXCEPT !.body = request.body]
  BY DEF FreshRequest
<1> DEFINE asked == SetVersion(SetTarget(SetMethod(request, r.method), line[1]), r.version)
<1>3. CASE r.method \notin Methods
  BY <1>1, <1>3 DEF ProcessRequestLine, Proper
<1>4. CASE r.method \in Methods
  <2>1. ProcessRequestLine(request, line) = [ok |-> r.version \in Versions, request |-> asked]
    BY <1>1, <1>4 DEF ProcessRequestLine
  <2>2. Proper(r) = (r.version \in Versions)
    BY <1>4 DEF Proper
  <2>3. ASSUME r.version \in Versions
        PROVE  asked = [EmptyRequest EXCEPT !.body = request.body, !.method = r.method,
                                              !.path = r.path, !.query = r.query, !.version = r.version]
    <3>1. SetMethod(request, r.method) = [request EXCEPT !.method = r.method]
      BY <1>4 DEF SetMethod
    <3>2. asked = [SetTarget([request EXCEPT !.method = r.method], line[1]) EXCEPT !.version = r.version]
      BY <2>3, <3>1 DEF SetVersion
    <3>3. SetTarget([request EXCEPT !.method = r.method], line[1]) =
             [EmptyRequest EXCEPT !.body = request.body, !.method = r.method, !.path = r.path, !.query = r.query]
      BY <1>1, <1>2 DEF SetTarget, EmptyRequest
    <3>4. QED
      BY <3>2, <3>3 DEF EmptyRequest
  <2> HIDE DEF asked
  <2>4. ProcessRequestLine(request, line).ok = Proper(r) /\ ProcessRequestLine(request, line).request = asked
    BY <2>1, <2>2
  <2>5. QED
    BY <2>2, <2>3, <2>4
<1>5. QED
  BY <1>3, <1>4

(* The request line is parsed.                                             *)
LEMMA RequestLineStep ==
  ASSUME InStep, ParseRequestLine
  PROVE  InStep'
<1>1. PICK k \in 1 .. Len(sent) :
            /\ k = Current /\ Placed(0, k, Len(sent)) /\ FreshRequest /\ sent[k] \in Requests
            /\ LineEnd = 2 /\ Len(inputBuffer) >= 2
            /\ Len(Line) = 1 /\ Line[1] = RequestLine(sent[k])
  BY AtStart DEF ParseRequestLine
<1>2. /\ ProcessRequestLine(request, Line).ok /\ request' = ProcessRequestLine(request, Line).request
      /\ RetrieveUntil(2) /\ state' = "kExpectHeaders"
      /\ server' = server /\ sent' = sent /\ out' = out /\ connState' = connState /\ wire' = wire
      /\ split' = split
  BY <1>1 DEF ParseRequestLine
<1>3. Proper(sent[k]) /\ request' = [EmptyRequest EXCEPT !.body = request.body, !.method = sent[k].method,
                                        !.path = sent[k].path, !.query = sent[k].query,
                                        !.version = sent[k].version]
  BY <1>1, <1>2, LineParsed
<1>4. Takes(2) /\ UNCHANGED parserVars
  BY <1>1, <1>2 DEF Takes, parserVars
<1>5. Parsed(sent[k], 2)'
  <2>1. DOMAIN request' = DOMAIN EmptyRequest /\ DOMAIN request'.headers = {}
    BY <1>3 DEF EmptyRequest
  <2>2. LineSeen(sent[k])'
    BY <1>2, <1>3 DEF LineSeen, EmptyRequest
  <2>3. HeadersSeen(sent[k], 0)'
    BY <2>1 DEF HeadersSeen, Among
  <2>4. 0 \in 0 .. Len(HeaderFields(sent'[k]))
    BY <1>1, <1>2, AtomsAre
  <2>5. AtHeaders(sent[k], 2)'
    BY <1>2, <2>2, <2>3, <2>4 DEF AtHeaders
  <2>6. QED
    BY <2>1, <2>5 DEF Parsed
<1>6. Parsed(sent[k], 0 + 2)'
  BY <1>5
<1>7. QED
  BY <1>1, <1>4, <1>6, ParserMoves

(* The atoms at the front of the buffer: those of the current request that *)
(* have not been taken.                                                    *)
LEMMA FrontAtom ==
  ASSUME HttpTypes, NEW p \in Nat, NEW k \in 1 .. Len(sent), Placed(p, k, Len(sent)),
         NEW i \in Nat \ {0}, i <= Len(inputBuffer), p + i <= Len(Atoms(sent[k]))
  PROVE  inputBuffer[i] = Atoms(sent[k])[p + i]
<1>1. PICK size \in Nat :
         /\ size = Len(Atoms(sent[k]))
         /\ \A j \in 1 .. size - p :
               IF j <= Len(inputBuffer) THEN inputBuffer[j] = Atoms(sent[k])[p + j]
                                        ELSE wire[j - Len(inputBuffer)] = Atoms(sent[k])[p + j]
  BY FrontIs
<1>2. i \in 1 .. size - p
  BY <1>1
<1>3. QED
  BY <1>1, <1>2

(* A complete line among the headers is the next header or the empty line  *)
(* that ends them.                                                         *)
LEMMA HeaderAtFront ==
  ASSUME InStep, HasCRLF, NEW k \in 1 .. Len(sent), NEW h \in Nat,
         h \in 0 .. Len(HeaderFields(sent[k])), Placed(2 + 2 * h, k, Len(sent))
  PROVE  LET fields == HeaderFields(sent[k])
             field == fields[h + 1]
         IN  IF h < Len(fields)
             THEN /\ Len(inputBuffer) >= 2 /\ LineEnd = 2 /\ IsA("header", Line)
                  /\ Line[1] = HeaderLine(field, sent[k].headers[field])
             ELSE Len(inputBuffer) >= 1 /\ LineEnd = 1 /\ ~IsA("header", Line)
<1> DEFINE r == sent[k]
           F == HeaderFields(r)
           n == Len(F)
           p == 2 + 2 * h
<1>1. HttpTypes /\ inputBuffer \in Seq(Atom) /\ r \in Requests
  BY UnreadIs DEF InStep, HttpTypes
<1>2. Len(inputBuffer) \in Nat /\ DOMAIN inputBuffer = 1 .. Len(inputBuffer)
  BY <1>1, LenProperties
<1>3. PICK e \in 1 .. Len(inputBuffer) : inputBuffer[e] = CRLF
  BY <1>2 DEF HasCRLF
<1>4. /\ n \in Nat /\ r.body \in Nat /\ Len(Atoms(r)) = 2 * n + 3 + r.body
      /\ \A g \in 1 .. n : /\ Atoms(r)[2 * g + 1] = HeaderLine(F[g], r.headers[F[g]])
                           /\ Atoms(r)[2 * g + 2] = CRLF
      /\ Atoms(r)[2 * n + 3] = CRLF
  BY <1>1, AtomsAre
<1>5. p \in Nat /\ Placed(p, k, Len(sent)) /\ h \in 0 .. n
  OBVIOUS
<1>6. ASSUME NEW i \in Nat \ {0}, i <= Len(inputBuffer), p + i <= Len(Atoms(r))
      PROVE  inputBuffer[i] = Atoms(r)[p + i]
  BY <1>1, <1>5, <1>6, FrontAtom
<1> HIDE DEF r, F, n
<1>7. CASE h < n
  <2> DEFINE g == h + 1
             line == HeaderLine(F[g], r.headers[F[g]])
  <2>1. g \in 1 .. n /\ p + 1 = 2 * g + 1 /\ p + 2 = 2 * g + 2
    BY <1>4, <1>5, <1>7
  <2>2. p + 1 <= Len(Atoms(r)) /\ p + 2 <= Len(Atoms(r))
    BY <1>4, <1>5, <1>7
  <2>3. Atoms(r)[p + 1] = line /\ Atoms(r)[p + 2] = CRLF
    BY <1>4, <2>1
  <2> HIDE DEF p
  <2>4. inputBuffer[1] = line
    BY <1>2, <1>3, <1>6, <2>2, <2>3
  <2>5. line.atom = "header" /\ line # CRLF
    BY DEF HeaderLine, CRLF
  <2> HIDE DEF line
  <2>6. Len(inputBuffer) >= 2
    <3>1. e # 1
      BY <1>3, <2>4, <2>5
    <3>2. QED
      BY <1>2, <3>1
  <2>7. inputBuffer[2] = CRLF
    BY <1>2, <1>6, <2>2, <2>3, <2>6
  <2>8. LineEnd = 2 /\ Len(Line) = 1 /\ Line[1] = line
    BY <1>1, <2>4, <2>5, <2>6, <2>7, FirstLine
  <2>9. IsA("header", Line)
    BY <2>5, <2>8 DEF IsA
  <2>10. QED
    BY <1>7, <2>6, <2>8, <2>9 DEF r, F, n, line
<1>8. CASE ~(h < n)
  <2>1. h = n /\ p + 1 = 2 * n + 3 /\ p + 1 <= Len(Atoms(r))
    BY <1>4, <1>5, <1>8
  <2> HIDE DEF p
  <2>2. inputBuffer[1] = CRLF /\ Len(inputBuffer) >= 1
    BY <1>2, <1>3, <1>4, <1>6, <2>1, SMTT(30)
  <2>3. LineEnd = 1 /\ Len(Line) = 0
    BY <1>1, <2>2, EmptyLine
  <2>4. ~IsA("header", Line)
    BY <2>3 DEF IsA
  <2>5. QED
    BY <1>8, <2>2, <2>3, <2>4 DEF r, F, n
<1>9. QED
  BY <1>7, <1>8

(* A header line is parsed, or the empty line behind the headers.          *)
LEMMA HeaderStep ==
  ASSUME InStep, ParseHeader
  PROVE  InStep'
<1>1. state = "kExpectHeaders" /\ HasCRLF
  BY DEF ParseHeader
<1>2. PICK k \in 1 .. Len(sent), p \in Nat : k = Current /\ Placed(p, k, Len(sent)) /\ Parsed(sent[k], p)
  BY <1>1, SomeIsOpen
<1>3. AtHeaders(sent[k], p) /\ DOMAIN request = DOMAIN EmptyRequest
  BY <1>1, <1>2 DEF Parsed, AtLine, AtBody, AtEnd
<1>4. PICK h \in 0 .. Len(HeaderFields(sent[k])) : p = 2 + 2 * h /\ LineSeen(sent[k]) /\ HeadersSeen(sent[k], h)
  BY <1>3 DEF AtHeaders
<1> DEFINE r == sent[k]
           F == HeaderFields(r)
           n == Len(F)
<1>5. r \in Requests /\ n \in Nat /\ F \in Seq(FieldNames) /\ h \in Nat
  <2>1. HttpTypes
    BY DEF InStep
  <2>2. r \in Requests
    BY <2>1, UnreadIs
  <2>3. QED
    BY <2>2, AtomsAre
<1>6. Placed(2 + 2 * h, k, Len(sent)) /\ h \in 0 .. n
  BY <1>2, <1>4
<1>7. IF h < n
      THEN /\ Len(inputBuffer) >= 2 /\ LineEnd = 2 /\ IsA("header", Line)
           /\ Line[1] = HeaderLine(F[h + 1], r.headers[F[h + 1]])
      ELSE Len(inputBuffer) >= 1 /\ LineEnd = 1 /\ ~IsA("header", Line)
  BY <1>1, <1>5, <1>6, HeaderAtFront
<1>8. UNCHANGED parserVars /\ sent' = sent /\ RetrieveUntil(LineEnd)
  BY DEF ParseHeader, parserVars
<1>9. LineSeen(r) /\ HeadersSeen(r, h)
  BY <1>4
<1>10. CASE h < n
  <2> DEFINE f == F[h + 1]
  <2>1. request' = AddHeader(request, Line[1]) /\ state' = state
    BY <1>7, <1>10 DEF ParseHeader
  <2>2. Line[1].field = f /\ Line[1].value = r.headers[f]
    BY <1>7, <1>10 DEF HeaderLine
  <2> HIDE DEF r, F, n
  <2>3. request' = [request EXCEPT !.headers = [g \in DOMAIN request.headers \cup {f} |->
                                IF g = f THEN r.headers[f] ELSE request.headers[g]]]
    BY <2>1, <2>2 DEF AddHeader
  <2>4. /\ request'.method = request.method /\ request'.path = request.path
        /\ request'.query = request.query /\ request'.version = request.version
        /\ DOMAIN request' = DOMAIN EmptyRequest
        /\ request'.headers = [g \in DOMAIN request.headers \cup {f} |->
                                IF g = f THEN r.headers[f] ELSE request.headers[g]]
    BY <1>3, <2>3 DEF EmptyRequest
  <2>5. Takes(2)
    BY <1>7, <1>8, <1>10 DEF Takes, parserVars
  <2>6. LineSeen(r)'
    BY <1>8, <1>9, <2>4 DEF LineSeen, r
  <2>7. HeadersSeen(r, h + 1)'
    <3>1. Among(F, h + 1) = Among(F, h) \cup {f}
      <4>1. \A i \in 1 .. h + 1 : i \in 1 .. h \/ i = h + 1
        BY <1>5
      <4>2. 1 .. h \subseteq 1 .. h + 1 /\ h + 1 \in 1 .. h + 1
        BY <1>5
      <4>3. ASSUME NEW x \in Among(F, h + 1)
            PROVE  x \in Among(F, h) \cup {f}
        BY <4>1 DEF Among
      <4>4. ASSUME NEW x \in Among(F, h) \cup {f}
            PROVE  x \in Among(F, h + 1)
        BY <4>2 DEF Among
      <4>5. QED
        BY <4>3, <4>4
    <3>2. DOMAIN request'.headers = Among(F, h + 1)
      BY <1>9, <2>4, <3>1 DEF HeadersSeen, F
    <3>3. \A g \in DOMAIN request'.headers : request'.headers[g] = r.headers[g]
      BY <1>9, <2>4 DEF HeadersSeen
    <3>4. F' = F /\ r' = r
      BY <1>8 DEF F, r
    <3>5. QED
      BY <3>2, <3>3, <3>4 DEF HeadersSeen, F
  <2>8. Parsed(r, p + 2)'
    <3>1. h + 1 \in 0 .. n /\ p + 2 = 2 + 2 * (h + 1)
      BY <1>4, <1>5, <1>10
    <3>2. state' = "kExpectHeaders" /\ n' = n
      BY <1>1, <1>8, <2>1 DEF n, F, r
    <3>3. AtHeaders(r, p + 2)'
      BY <2>6, <2>7, <3>1, <3>2 DEF AtHeaders, n, F
    <3>4. QED
      BY <2>4, <3>3 DEF Parsed
  <2>9. QED
    BY <1>2, <1>8, <2>5, <2>8, ParserMoves DEF r
<1>11. CASE ~(h < n)
  <2>1. state' = "kExpectBody" /\ request' = request
    BY <1>7, <1>11 DEF ParseHeader
  <2>2. Takes(1)
    BY <1>7, <1>8, <1>11 DEF Takes, parserVars
  <2>3. h = n /\ p + 1 = 2 * n + 3
    BY <1>4, <1>5, <1>11
  <2>4. LineSeen(r)' /\ HeadersSeen(r, n)'
    BY <1>8, <1>9, <2>1, <2>3 DEF LineSeen, HeadersSeen
  <2>5. Parsed(r, p + 1)'
    BY <1>3, <1>8, <2>1, <2>3, <2>4 DEF Parsed, AtBody
  <2>6. QED
    BY <1>2, <1>8, <2>2, <2>5, ParserMoves
<1>12. QED
  BY <1>10, <1>11

(* When the headers are over, the body is at the front of the buffer and,  *)
(* as far as it has not been read, of the wire.                            *)
LEMMA BodyAtFront ==
  ASSUME InStep, NEW k \in 1 .. Len(sent), NEW p \in Nat, Placed(p, k, Len(sent)),
         p = 2 * Len(HeaderFields(sent[k])) + 3
  PROVE  /\ sent[k].body <= Len(inputBuffer) + Len(wire)
         /\ \A i \in 1 .. sent[k].body :
               IF i <= Len(inputBuffer) THEN inputBuffer[i] = BodyByte
                                        ELSE wire[i - Len(inputBuffer)] = BodyByte
<1> DEFINE r == sent[k]
<1>1. HttpTypes /\ r \in Requests /\ Len(inputBuffer) \in Nat /\ Len(wire) \in Nat
  BY UnreadIs DEF InStep
<1>2. PICK n \in Nat, body \in Nat :
         /\ n = Len(HeaderFields(r)) /\ body = r.body /\ Len(Atoms(r)) = 2 * n + 3 + body
         /\ \A b \in 1 .. body : Atoms(r)[2 * n + 3 + b] = BodyByte
  BY <1>1, AtomsAre
<1>3. p = 2 * n + 3 /\ p + body = Len(Atoms(r))
  BY <1>2
<1>4. PICK size \in Nat :
         /\ size = Len(Atoms(r)) /\ size - p <= Len(inputBuffer) + Len(wire)
         /\ \A i \in 1 .. size - p :
               IF i <= Len(inputBuffer) THEN inputBuffer[i] = Atoms(r)[p + i]
                                        ELSE wire[i - Len(inputBuffer)] = Atoms(r)[p + i]
  BY <1>1, FrontIs
<1>5. size - p = body
  BY <1>2, <1>3, <1>4
<1>6. ASSUME NEW i \in 1 .. body
      PROVE  IF i <= Len(inputBuffer) THEN inputBuffer[i] = BodyByte
                                      ELSE wire[i - Len(inputBuffer)] = BodyByte
  <2>1. Atoms(r)[p + i] = BodyByte
    BY <1>2, <1>3
  <2>2. QED
    BY <1>4, <1>5, <2>1
<1>7. body <= Len(inputBuffer) + Len(wire)
  BY <1>4, <1>5
<1>8. QED
  BY <1>2, <1>6, <1>7

(* Where the body ends, nothing is unread or another request begins.       *)
LEMMA BodyEnds ==
  ASSUME InStep, NEW k \in 1 .. Len(sent), NEW p \in Nat, Placed(p, k, Len(sent)),
         p = 2 * Len(HeaderFields(sent[k])) + 3
  PROVE  \/ k = Len(sent) /\ Len(Unread) = sent[k].body
         \/ k # Len(sent) /\ sent[k].body + 1 <= Len(Unread) /\ Unread[sent[k].body + 1] # BodyByte
<1> DEFINE r == sent[k]
           n == Len(sent)
<1>1. /\ r \in Requests /\ n \in Nat /\ Len(Unread) \in Nat
      /\ \A i \in 1 .. n : sent[i] \in Requests
  <2>1. HttpTypes
    BY DEF InStep
  <2>2. Len(Unread) = Len(inputBuffer) + Len(wire) /\ Len(inputBuffer) \in Nat /\ Len(wire) \in Nat
    BY <2>1, UnreadIs
  <2>3. QED
    BY <2>1, <2>2, UnreadIs
<1>2. PICK body \in Nat : body = r.body /\ Len(Atoms(r)) = p + body
  BY <1>1, AtomsAre
<1>3. PICK c \in [Nat -> Int] : c[k] = 0 - p /\ Laid(Unread, sent, c, k, n)
  BY DEF Placed, LaidOut
<1>4. k \in k .. n /\ k + 1 \in k .. n + 1
  BY <1>1
<1>5. c[k + 1] = c[k] + Len(Atoms(sent[k])) /\ c[k + 1] <= Len(Unread) /\ c[n + 1] = Len(Unread)
  BY <1>3, <1>4 DEF Laid
<1>6. c[k + 1] = body
  <2>1. c[k + 1] = c[k] + (p + body) /\ c[k] = 0 - p
    BY <1>2, <1>3, <1>5
  <2>2. 0 - p + (p + body) = body
    OBVIOUS
  <2>3. QED
    BY <2>1, <2>2
<1> HIDE DEF r, n
<1>7. CASE k = n
  <2>1. Len(Unread) = body
    BY <1>5, <1>6, <1>7
  <2>2. QED
    BY <1>2, <1>7, <2>1 DEF r, n
<1>8. CASE k # n
  <2>1. PICK g \in k .. n : g = k + 1 /\ g \in 1 .. n
    BY <1>1, <1>8 DEF n
  <2>2. sent[g] \in Requests
    BY <1>1, <2>1
  <2>3. Atoms(sent[g])[1] = RequestLine(sent[g]) /\ \E m \in Nat, b \in Nat : Len(Atoms(sent[g])) = 2 * m + 3 + b
    BY <2>2, AtomsAre
  <2>4. PICK size \in Nat : size = Len(Atoms(sent[g])) /\ size >= 1
    BY <2>3
  <2>5. c[g] = body
    BY <1>6, <2>1
  <2>6. 1 \in 1 .. size /\ c[g] + 1 >= 1
    BY <2>4, <2>5
  <2>7. Unread[c[g] + 1] = Atoms(sent[g])[1]
    BY <1>3, <2>1, <2>4, <2>6 DEF Laid, n
  <2>8. RequestLine(sent[g]).atom = "line" /\ BodyByte.atom = "byte"
    BY DEF RequestLine, BodyByte
  <2>9. RequestLine(sent[g]) # BodyByte
    BY <2>8
  <2>10. body + 1 <= Len(Unread)
    <3>1. PICK o \in k .. n + 1 : o = g + 1
      BY <1>1, <2>1
    <3>2. c[o] = c[g] + size /\ c[o] <= Len(Unread)
      BY <1>3, <2>1, <2>4, <3>1 DEF Laid, n
    <3>3. body + size <= Len(Unread)
      BY <2>5, <3>2
    <3>4. QED
      BY <1>1, <2>4, <3>3
  <2>11. Unread[body + 1] # BodyByte
    BY <2>3, <2>5, <2>7, <2>9
  <2>12. QED
    BY <1>2, <1>8, <2>10, <2>11 DEF r, n
<1>9. QED
  BY <1>7, <1>8

(* A body that has all been read is not cut.                               *)
LEMMA NotCut ==
  ASSUME InStep, NEW k \in 1 .. Len(sent), NEW p \in Nat, Placed(p, k, Len(sent)),
         p = 2 * Len(HeaderFields(sent[k])) + 3, sent[k].body <= Len(inputBuffer)
  PROVE  ~BodyIsCut
<1>1. HttpTypes
  BY DEF InStep
<1>2. PICK b \in Nat, w \in Nat : b = Len(inputBuffer) /\ w = Len(wire)
  BY <1>1, UnreadIs
<1>3. /\ Len(Unread) = b + w /\ DOMAIN inputBuffer = 1 .. b
      /\ \A i \in 1 .. b + w : Unread[i] = IF i <= b THEN inputBuffer[i] ELSE wire[i - b]
  BY <1>1, <1>2, UnreadIs, LenProperties DEF HttpTypes
<1>4. PICK body \in Nat : body = sent[k].body /\ body <= b
  <2>1. sent[k] \in Requests
    BY <1>1, UnreadIs
  <2>2. sent[k].body \in Nat
    BY <2>1, AtomsAre
  <2>3. QED
    BY <1>2, <2>2
<1>5. SUFFICES ASSUME BodyIsCut PROVE FALSE
  OBVIOUS
<1>6. w >= 1 /\ wire[1] = BodyByte /\ \A i \in 1 .. b : inputBuffer[i] = BodyByte
  <2>1. wire # <<>> /\ wire \in Seq(Atom)
    BY <1>1, <1>5 DEF BodyIsCut, HttpTypes
  <2>2. w >= 1 /\ Head(wire) = wire[1]
    BY <1>2, <2>1
  <2>3. QED
    BY <1>3, <1>5, <2>2 DEF BodyIsCut
<1>7. body + 1 <= b + w /\ Unread[body + 1] # BodyByte
  <2>1. Len(Unread) # body
    BY <1>3, <1>4, <1>6
  <2>2. QED
    BY <1>3, <1>4, <2>1, BodyEnds
<1>8. PICK i \in 1 .. b + w : i = body + 1 /\ (i <= b \/ i - b = 1)
  BY <1>4, <1>7
<1>9. CASE i <= b
  BY <1>3, <1>6, <1>7, <1>8, <1>9
<1>10. CASE ~(i <= b)
  BY <1>3, <1>6, <1>7, <1>8, <1>10
<1>11. QED
  BY <1>9, <1>10

\* The body of r is awaited, behind the p atoms of r that have been parsed.
BodyAwaited(r, p) ==
    /\ r \in Requests /\ r.body \in Nat
    /\ p = 2 * Len(HeaderFields(r)) + 3 /\ p + r.body = Len(Atoms(r))
    /\ DOMAIN request = DOMAIN EmptyRequest /\ LineSeen(r) /\ HeadSeenAs(request, r)
    /\ (GetHeader(request, "Content-Length") = "") = (r.body = 0)
    /\ GetHeader(request, "Content-Length") # "" => Lengths[GetHeader(request, "Content-Length")] = r.body

(* What has been parsed of a request when its headers are over.            *)
LEMMA BodyNext ==
  ASSUME InStep, state = "kExpectBody"
  PROVE  \E k \in 1 .. Len(sent), p \in Nat :
            k = Current /\ Placed(p, k, Len(sent)) /\ BodyAwaited(sent[k], p)
<1>2. PICK k \in 1 .. Len(sent), p \in Nat : k = Current /\ Placed(p, k, Len(sent)) /\ Parsed(sent[k], p)
  BY SomeIsOpen
<1> DEFINE r == sent[k]
           n == Len(HeaderFields(r))
<1>3. DOMAIN request = DOMAIN EmptyRequest /\ p = 2 * n + 3 /\ LineSeen(r) /\ HeadersSeen(r, n)
  BY <1>2 DEF Parsed, AtLine, AtHeaders, AtBody, AtEnd
<1>4. HttpTypes /\ r \in Requests
  BY UnreadIs DEF InStep
<1>5. /\ n \in Nat /\ r.body \in Nat /\ Len(Atoms(r)) = 2 * n + 3 + r.body
      /\ Among(HeaderFields(r), n) = DOMAIN r.headers
  BY <1>4, AtomsAre
<1>7. /\ DOMAIN request.headers = DOMAIN r.headers
      /\ \A f \in DOMAIN r.headers : request.headers[f] = r.headers[f]
  BY <1>3, <1>5 DEF HeadersSeen
<1>8. /\ \A f \in DOMAIN r.headers : r.headers[f] # ""
      /\ (r.body > 0) = ("Content-Length" \in DOMAIN r.headers)
      /\ r.body > 0 => Lengths[r.headers["Content-Length"]] = r.body
  BY <1>4, HttpAssumption DEF IsRequest
<1> DEFINE length == GetHeader(request, "Content-Length")
<1>9. (length = "") = (r.body = 0)
  <2>1. CASE "Content-Length" \in DOMAIN r.headers
    <3>1. length = r.headers["Content-Length"] /\ r.body > 0
      BY <1>7, <1>8, <2>1 DEF GetHeader
    <3>2. length # ""
      BY <1>8, <2>1, <3>1
    <3>3. r.body > 0 /\ r.body \in Nat
      BY <1>5, <3>1
    <3>4. r.body # 0
      BY <3>3
    <3>5. QED
      BY <3>2, <3>4
  <2>2. CASE "Content-Length" \notin DOMAIN r.headers
    <3>1. length = "" /\ ~(r.body > 0)
      BY <1>7, <1>8, <2>2 DEF GetHeader
    <3>2. ~(r.body > 0) /\ r.body \in Nat
      BY <1>5, <3>1
    <3>3. r.body = 0
      BY <3>2
    <3>4. QED
      BY <3>1, <3>3
  <2>3. QED
    BY <2>1, <2>2
<1>10. length # "" => Lengths[length] = r.body
  BY <1>5, <1>7, <1>8, <1>9 DEF GetHeader
<1> HIDE DEF length
<1>11. HeadSeenAs(request, r)
  BY <1>3, <1>7 DEF HeadSeenAs, LineSeen
<1>12. p + r.body = Len(Atoms(r))
  BY <1>3, <1>5
<1>13. BodyAwaited(r, p)
  BY <1>3, <1>4, <1>5, <1>9, <1>10, <1>11, <1>12 DEF BodyAwaited, length
<1>14. QED
  BY <1>2, <1>13

(* The body of a request is taken when all of it has been read.            *)
LEMMA WholeBodyStep ==
  ASSUME HttpInv, InStep, connState = "kConnected", ParseBody,
         NEW k \in 1 .. Len(sent), k = Current, NEW p \in Nat, Placed(p, k, Len(sent)), BodyAwaited(sent[k], p),
         sent[k].body <= Len(inputBuffer)
  PROVE  HttpInv'
<1> DEFINE r == sent[k]
           length == GetHeader(request, "Content-Length")
<1>3. DOMAIN request = DOMAIN EmptyRequest /\ LineSeen(r)
  BY DEF BodyAwaited
<1>4. HttpTypes /\ r \in Requests /\ Len(inputBuffer) \in Nat /\ inputBuffer \in Seq(Atom)
  BY UnreadIs DEF InStep, HttpTypes
<1>5. r.body \in Nat /\ p + r.body = Len(Atoms(r)) /\ p = 2 * Len(HeaderFields(r)) + 3
  BY DEF BodyAwaited
<1>6. r.body <= Len(inputBuffer) /\ \A i \in 1 .. r.body : inputBuffer[i] = BodyByte
  <2>1. \A i \in 1 .. r.body : i <= Len(inputBuffer)
    BY <1>4, <1>5
  <2>2. QED
    BY <1>5, <2>1, BodyAtFront
<1>7. /\ DOMAIN request.headers = DOMAIN r.headers
      /\ \A f \in DOMAIN r.headers : request.headers[f] = r.headers[f]
  BY DEF BodyAwaited, HeadSeenAs
<1>9. (length = "") = (r.body = 0)
  BY DEF BodyAwaited
<1>10. length # "" => Lengths[length] = r.body
  BY DEF BodyAwaited
<1>11. UNCHANGED parserVars /\ sent' = sent /\ connState' = connState
  <2>1. ~BodyIsCut
    BY <1>5, NotCut
  <2>2. QED
    BY <2>1 DEF ParseBody, parserVars
<1>16. InStep' => HttpInv'
  <2>1. SentTypes /\ AnswersInOrder /\ IsSequence(out)
    BY DEF HttpInv, SentTypes
  <2>2. server' = server /\ sent' = sent /\ out' = out /\ split' = split
    BY <1>11 DEF parserVars
  <2>3. SentTypes' /\ AnswersInOrder'
    BY <2>1, <2>2, SameOut, SameSaid
  <2>4. QED
    BY <2>3 DEF HttpInv
<1> HIDE DEF length
<1>12. CASE length = ""
  <2>1. state' = "kGotAll" /\ request' = request /\ inputBuffer' = inputBuffer
    BY <1>12 DEF ParseBody, length
  <2>2. Takes(0)
    <3>1. inputBuffer = SubSeq(inputBuffer, 0 + 1, Len(inputBuffer))
      BY <1>4
    <3>2. QED
      BY <1>4, <1>11, <2>1, <3>1 DEF Takes, RetrieveUntil, parserVars
  <2>3. r.body = 0 /\ p + 0 = Len(Atoms(r))
    BY <1>5, <1>9, <1>12
  <2>4. LineSeen(r)'
    BY <1>3, <1>11, <2>1 DEF LineSeen
  <2>5. SeenAs(request, r)'
    <3>1. SeenAs(request, r)
      BY <1>3, <1>7, <2>3 DEF SeenAs, HeadSeenAs, LineSeen
    <3>2. QED
      BY <1>11, <2>1, <3>1 DEF SeenAs, HeadSeenAs
  <2>6. Parsed(r, p + 0)'
    BY <1>3, <1>11, <2>1, <2>3, <2>4, <2>5 DEF Parsed, AtEnd
  <2>7. InStep'
    BY <1>11, <2>2, <2>6, ParserMoves
  <2>8. QED
    BY <1>16, <2>7
<1>13. CASE length # "" /\ MayTake(r.body)
  <2> DEFINE beyond == [i \in 1 .. r.body - Len(inputBuffer) |-> [atom |-> "beyond"]]
  <2>1. /\ state' = "kGotAll" /\ request' = [request EXCEPT !.body = inputBuffer \o beyond]
        /\ inputBuffer' = <<>>
    BY <1>10, <1>13 DEF ParseBody, length
  <2>2. r.body = Len(inputBuffer)
    <3>1. r.body >= Len(inputBuffer)
      BY <1>13 DEF MayTake
    <3>2. QED
      BY <1>4, <1>5, <1>6, <3>1
  <2>3. inputBuffer \o beyond = inputBuffer
    <3>1. beyond = <<>>
      BY <1>4, <2>2
    <3> HIDE DEF beyond
    <3>2. inputBuffer \o <<>> = inputBuffer
      BY <1>4, ConcatEmptySeq
    <3>3. QED
      BY <3>1, <3>2
  <2>4. inputBuffer = [i \in 1 .. r.body |-> BodyByte]
    BY <1>4, <1>6, <2>2
  <2> HIDE DEF beyond
  <2>5. request' = [request EXCEPT !.body = inputBuffer]
    BY <2>1, <2>3
  <2>6. Takes(r.body)
    <3>1. SubSeq(inputBuffer, r.body + 1, Len(inputBuffer)) = <<>>
      BY <1>4, <2>2, SubSeqEmpty
    <3>2. QED
      BY <1>4, <1>5, <1>11, <2>1, <2>2, <3>1 DEF Takes, RetrieveUntil, parserVars
  <2>7. p + r.body = Len(Atoms(r))
    BY <1>5
  <2>8. /\ DOMAIN request' = DOMAIN EmptyRequest /\ request'.body = inputBuffer
        /\ request'.method = request.method /\ request'.path = request.path
        /\ request'.query = request.query /\ request'.version = request.version
        /\ request'.headers = request.headers
    BY <1>3, <2>5 DEF EmptyRequest
  <2>9. LineSeen(r)'
    BY <1>3, <1>11, <2>8 DEF LineSeen
  <2>10. SeenAs(request, r)'
    BY <1>3, <1>7, <1>11, <2>4, <2>8 DEF SeenAs, HeadSeenAs, LineSeen
  <2>11. Parsed(r, p + r.body)'
    BY <1>11, <2>1, <2>7, <2>8, <2>9, <2>10 DEF Parsed, AtEnd
  <2>12. InStep'
    BY <1>11, <2>6, <2>11, ParserMoves
  <2>13. QED
    BY <1>16, <2>12
<1>14. CASE length # "" /\ ~MayTake(r.body)
  <2>1. UNCHANGED <<inputBuffer, state, request>>
    BY <1>10, <1>14 DEF ParseBody, length
  <2>2. UNCHANGED <<server, sent, connState, wire, split>> /\ SameAnswers(out, out')
    BY <1>11, SameOut DEF parserVars, HttpInv, SentTypes
  <2>3. QED
    BY <2>1, <2>2, NothingMoves
<1>15. QED
  BY <1>12, <1>13, <1>14
(* The body is taken before all of it has been read: the parser loses its  *)
(* place.                                                                  *)
LEMMA CutBodyStep ==
  ASSUME HttpInv, InStep, connState = "kConnected", ParseBody,
         NEW k \in 1 .. Len(sent), k = Current, NEW p \in Nat, Placed(p, k, Len(sent)), BodyAwaited(sent[k], p),
         ~(sent[k].body <= Len(inputBuffer))
  PROVE  HttpInv'
<1> DEFINE r == sent[k]
           length == GetHeader(request, "Content-Length")
<1>1. PICK b \in Nat, w \in Nat : b = Len(inputBuffer) /\ w = Len(wire)
  BY UnreadIs DEF InStep
<1>2. PICK body \in Nat : /\ body = r.body /\ body > b /\ body <= b + w
                         /\ \A i \in 1 .. body : IF i <= b THEN inputBuffer[i] = BodyByte
                                                          ELSE wire[i - b] = BodyByte
  <2>1. r.body \in Nat /\ p = 2 * Len(HeaderFields(r)) + 3
    BY DEF BodyAwaited
  <2>2. r.body > b
    BY <1>1, <2>1
  <2>3. QED
    BY <1>1, <2>1, <2>2, BodyAtFront
<1>3. HttpTypes /\ inputBuffer \in Seq(Atom) /\ wire \in Seq(Atom) /\ DOMAIN inputBuffer = 1 .. b
  BY <1>1, LenProperties DEF InStep, HttpTypes
<1>4. w >= 1 /\ wire[1] = BodyByte /\ \A i \in 1 .. b : inputBuffer[i] = BodyByte
  <2>1. PICK i \in 1 .. body : i = b + 1 /\ ~(i <= b) /\ i - b = 1
    BY <1>2
  <2>2. wire[1] = BodyByte
    BY <1>2, <2>1
  <2>3. \A g \in 1 .. b : g \in 1 .. body /\ g <= b
    BY <1>2
  <2>4. QED
    BY <1>2, <2>2, <2>3
<1>5. BodyIsCut
  <2>1. wire # <<>> /\ Head(wire) = wire[1]
    BY <1>1, <1>3, <1>4
  <2>2. QED
    BY <1>3, <1>4, <2>1 DEF BodyIsCut
<1>6. split' = k
  BY <1>5 DEF ParseBody, InStep, Current
<1>7. length # "" /\ Lengths[length] = body
  <2>1. body # 0
    BY <1>2
  <2>2. QED
    BY <1>2, <2>1 DEF BodyAwaited
<1> DEFINE beyond == [i \in 1 .. body - Len(inputBuffer) |-> [atom |-> "beyond"]]
<1>8. /\ state' = "kGotAll" /\ inputBuffer' = <<>>
      /\ request' = [request EXCEPT !.body = inputBuffer \o beyond]
  <2>1. MayTake(body)
    BY <1>1, <1>2 DEF MayTake
  <2>2. QED
    BY <1>7, <2>1 DEF ParseBody
<1> HIDE DEF beyond, length
<1>9. /\ server' = server /\ sent' = sent /\ out' = out /\ connState' = connState /\ wire' = wire
  BY DEF ParseBody
<1>10. /\ request'.method = request.method /\ request'.path = request.path
       /\ request'.query = request.query /\ request'.version = request.version
       /\ request'.headers = request.headers
  <2>1. DOMAIN request = DOMAIN EmptyRequest
    BY DEF BodyAwaited
  <2>2. QED
    BY <1>8, <2>1 DEF EmptyRequest
<1>11. LineSeen(r)' /\ HeadSeenAs(request, r)'
  BY <1>9, <1>10 DEF BodyAwaited, LineSeen, HeadSeenAs
<1>12. SentTypes' /\ AnswersInOrder'
  <2>1. SentTypes /\ AnswersInOrder /\ IsSequence(out)
    BY DEF HttpInv, SentTypes
  <2>2. split = 0 /\ split' = Current
    BY <1>6 DEF InStep
  <2>3. QED
    BY <1>9, <2>1, <2>2, SameOut, SameSaid
<1>13. HttpTypes'
  BY <1>3, <1>8, <1>9, <1>12 DEF HttpTypes
<1>14. Unread' = wire
  BY <1>3, <1>8, <1>9 DEF Unread
<1>15. k = Len(sent) => \A i \in 1 .. w : wire[i] = BodyByte
  <2>1. ASSUME k = Len(sent), NEW i \in 1 .. w
        PROVE  wire[i] = BodyByte
    <3>1. Len(Unread) = body
      BY <1>2, <2>1, BodyEnds DEF BodyAwaited
    <3>2. b + w = body
      BY <1>1, <1>3, <3>1, UnreadIs
    <3>3. PICK g \in 1 .. body : g = b + i /\ ~(g <= b) /\ g - b = i
      BY <1>1, <3>2
    <3>4. QED
      BY <1>2, <3>3
  <2>2. QED
    BY <2>1
<1>16. BodyIsLeft'
  BY <1>1, <1>4, <1>6, <1>9, <1>14, <1>15 DEF BodyIsLeft
<1>17. OutOfStep'
  <2>1. Current' = k /\ \A i \in 1 .. Len(out') : ~out'[i].close
    BY <1>9 DEF Current, InStep
  <2>2. split' \in 1 .. Len(sent')
    BY <1>6, <1>9
  <2>3. LineSeen(sent[split])' /\ HeadSeenAs(request, sent[split])'
    BY <1>6, <1>11
  <2>4. QED
    BY <1>6, <1>8, <1>13, <1>16, <2>1, <2>2, <2>3 DEF OutOfStep
<1>18. QED
  BY <1>12, <1>17 DEF HttpInv

(* The body of a request is taken.                                         *)
LEMMA BodyStep ==
  ASSUME HttpInv, InStep, connState = "kConnected", ParseBody
  PROVE  HttpInv'
<1>1. state = "kExpectBody"
  BY DEF ParseBody
<1>2. PICK k \in 1 .. Len(sent), p \in Nat : k = Current /\ Placed(p, k, Len(sent)) /\ BodyAwaited(sent[k], p)
  BY <1>1, BodyNext
<1>3. QED
  BY <1>2, WholeBodyStep, CutBodyStep
-----------------------------------------------------------------------------
(* What is answered.                                                       *)

\* The sequence t is s with e behind it.
OneLonger(s, e, t) ==
    /\ IsSequence(t) /\ Len(s) \in Nat /\ Len(t) = Len(s) + 1
    /\ \A i \in 1 .. Len(s) : t[i] = s[i]
    /\ t[Len(s) + 1] = e

(* A response behind the others.                                           *)
LEMMA OneMore ==
  ASSUME NEW s, IsSequence(s), NEW e
  PROVE  OneLonger(s, e, Append(s, e))
<1> DEFINE n == Len(s)
           S == Among(s, n)
           T == S \cup {e}
           t == Append(s, e)
<1>1. s \in Seq(S)
  BY DEF IsSequence
<1>2. n \in Nat
  BY <1>1, LenProperties
<1> HIDE DEF S, n
<1>3. s \in Seq(T) /\ e \in T
  <2>1. S \subseteq T
    OBVIOUS
  <2> HIDE DEF T
  <2>2. s \in Seq(T)
    BY <1>1, <2>1
  <2>3. QED
    BY <2>2 DEF T
<1> HIDE DEF T
<1>4. /\ t \in Seq(T) /\ Len(t) = n + 1
      /\ \A i \in 1 .. n : t[i] = s[i]
      /\ t[n + 1] = e
  BY <1>3, AppendProperties DEF n
<1> HIDE DEF t
<1>5. t \in Seq(Among(t, Len(t)))
  <2>1. DOMAIN t = 1 .. Len(t) /\ t \in [1 .. Len(t) -> T] /\ Len(t) \in Nat
    BY <1>4, LenProperties
  <2>2. \A i \in 1 .. Len(t) : t[i] \in Among(t, Len(t))
    BY DEF Among
  <2>3. t \in [1 .. Len(t) -> Among(t, Len(t))]
    BY <2>1, <2>2
  <2>4. QED
    BY <2>1, <2>3, FunctionIsSeq
<1>6. OneLonger(s, e, t)
  BY <1>2, <1>4, <1>5 DEF n, IsSequence, OneLonger
<1>7. QED
  BY <1>6 DEF t

(* One more answer, to the current request: what it says is asked only as  *)
(* long as the parser is in its place.                                     *)
LEMMA AnswerSaid ==
  ASSUME SentTypes, AnswersInOrder, NEW k \in 1 .. Len(sent), k = Current,
         \A i \in 1 .. Len(out) : ~out[i].close,
         NEW e, out' = Append(out, e), DOMAIN e = ResponseFields,
         split = 0 \/ k <= split => Answers(e, sent[k], k = split), UNCHANGED <<server, sent, split>>
  PROVE  /\ SentTypes' /\ AnswersInOrder' /\ Current' = k + 1
         /\ \A i \in 1 .. Len(out) : out'[i] = out[i]
         /\ Len(out') = k /\ out'[k] = e
<1>1. /\ IsSequence(out') /\ Len(out) \in Nat /\ Len(out') = Len(out) + 1
      /\ \A i \in 1 .. Len(out) : out'[i] = out[i]
      /\ out'[Len(out) + 1] = e
  <2>1. IsSequence(out)
    BY DEF SentTypes
  <2>2. OneLonger(out, e, Append(out, e))
    BY <2>1, OneMore
  <2>3. OneLonger(out, e, out')
    BY <2>2
  <2>4. QED
    BY <2>3 DEF OneLonger
<1>2. Len(sent) \in Nat
  BY LenProperties DEF SentTypes
<1>3. k = Len(out) + 1 /\ Len(out') = k /\ out'[k] = e
  BY <1>1 DEF Current
<1>4. \A i \in 1 .. k : i = k \/ i \in 1 .. Len(out)
  BY <1>1, <1>3
<1>5. SentTypes'
  <2>1. \A i \in 1 .. Len(out) : DOMAIN out[i] = ResponseFields
    BY DEF SentTypes
  <2>2. \A i \in 1 .. Len(out') : DOMAIN out'[i] = ResponseFields
    BY <1>1, <1>3, <1>4, <2>1
  <2>3. sent' \in Seq(Requests)
    BY DEF SentTypes
  <2>4. QED
    BY <1>1, <2>2, <2>3 DEF SentTypes
<1>6. ASSUME NEW i \in 1 .. k
      PROVE  RightAt(i)'
  <2>1. CASE i = k
    <3>1. ~(i < Len(out'))
      BY <1>3, <2>1
    <3>2. PICK r : r = sent[k] /\ r = sent'[k]
      OBVIOUS
    <3>3. (split' = 0 \/ k <= split') => Answers(e, r, k = split)'
      BY <3>2 DEF Answers
    <3>4. QED
      BY <1>3, <2>1, <3>1, <3>2, <3>3 DEF RightAt
  <2>2. CASE i # k
    <3>1. i \in 1 .. Len(out)
      BY <1>4, <2>2
    <3>2. RightAt(i)
      BY <3>1 DEF AnswersInOrder, RightAt
    <3>3. PICK e1, r : e1 = out[i] /\ e1 = out'[i] /\ r = sent[i] /\ r = sent'[i]
      BY <1>1, <3>1
    <3>4. split = 0 \/ i <= split => Answers(e1, r, i = split)
      BY <3>2, <3>3 DEF RightAt
    <3>5. split' = 0 \/ i <= split' => Answers(e1, r, i = split)'
      BY <3>4 DEF Answers
    <3>6. ~out'[i].close
      BY <1>1, <3>1
    <3>7. QED
      BY <3>3, <3>5, <3>6 DEF RightAt
  <2>3. QED
    BY <2>1, <2>2
<1>7. AnswersInOrder'
  <2>1. Len(out') <= Len(sent')
    BY <1>2, <1>3
  <2>2. QED
    BY <1>3, <1>6, <2>1 DEF AnswersInOrder, RightAt
<1>8. QED
  BY <1>1, <1>3, <1>5, <1>7 DEF Current

(* A set of numbers has a least one.                                       *)
LEMMA LeastNumber ==
  ASSUME NEW S \in SUBSET Nat, S # {}
  PROVE  \E m \in S : \A n \in S : m <= n
<1> DEFINE R == OpToRel(<, Nat)
<1>1. IsWellFoundedOn(R, Nat)
  BY NatLessThanWellFounded, Zenon
<1>2. \A m \in Nat, n \in Nat : <<n, m>> \in R <=> n < m
  BY DEF OpToRel
<1> HIDE DEF R
<1>3. PICK m \in S : \A n \in S : <<n, m>> \notin R
  BY <1>1, WFMin
<1>4. \A n \in S : ~(n < m)
  BY <1>2, <1>3
<1>5. QED
  BY <1>4

(* A line that begins with a byte of a body is no request line.            *)
LEMMA LostLine ==
  ASSUME OutOfStep, state = "kExpectRequestLine", HasCRLF
  PROVE  ~IsA("line", Line) /\ split + 1 \in 1 .. Len(sent) /\ Current = split + 1
<1>1. HttpTypes /\ split \in 1 .. Len(sent) /\ BodyIsLeft /\ Current = split + 1
  BY DEF OutOfStep
<1>2. inputBuffer \in Seq(Atom) /\ DOMAIN inputBuffer = 1 .. Len(inputBuffer)
  BY <1>1, LenProperties DEF HttpTypes
<1>3. PICK b \in Nat, w \in Nat : b = Len(inputBuffer) /\ w = Len(wire)
  BY <1>1, UnreadIs
<1>4. /\ Len(Unread) = b + w
      /\ \A i \in 1 .. b : Unread[i] = inputBuffer[i]
  <2>1. \A i \in 1 .. b : i \in 1 .. b + w /\ i <= b
    BY <1>3
  <2>2. QED
    BY <1>1, <1>3, <2>1, UnreadIs
<1>5. PICK e \in 1 .. b : inputBuffer[e] = CRLF
  BY <1>2, <1>3 DEF HasCRLF
<1>6. BodyByte # CRLF /\ BodyByte.atom # "line"
  <2>1. BodyByte.atom = "byte" /\ CRLF.atom = "CRLF"
    BY DEF BodyByte, CRLF
  <2>2. QED
    BY <2>1
<1>7. inputBuffer[1] = BodyByte /\ 1 \in 1 .. b
  <2>1. 1 \in 1 .. b
    BY <1>5
  <2>2. QED
    BY <1>1, <1>4, <2>1 DEF BodyIsLeft
<1>8. split # Len(sent)
  <2>1. SUFFICES ASSUME split = Len(sent) PROVE FALSE
    OBVIOUS
  <2>2. \A i \in 1 .. Len(Unread) : Unread[i] = BodyByte
    BY <1>1, <2>1 DEF BodyIsLeft
  <2>3. e \in 1 .. Len(Unread) /\ Unread[e] = CRLF
    BY <1>4, <1>5
  <2>4. QED
    BY <1>6, <2>2, <2>3
<1>9. split + 1 \in 1 .. Len(sent)
  BY <1>1, <1>8, UnreadIs
<1> DEFINE End(i) == inputBuffer[i] = CRLF /\ \A j \in 1 .. i - 1 : inputBuffer[j] # CRLF
           S == {i \in 1 .. b : inputBuffer[i] = CRLF}
<1>10. PICK m \in S : \A i \in S : m <= i
  <2>1. S \in SUBSET Nat /\ S # {}
    BY <1>5
  <2> HIDE DEF S
  <2>2. QED
    BY <2>1, LeastNumber
<1>11. m \in DOMAIN inputBuffer /\ End(m)
  <2>1. m \in 1 .. b /\ inputBuffer[m] = CRLF
    OBVIOUS
  <2>2. ASSUME NEW j \in 1 .. m - 1
        PROVE  inputBuffer[j] # CRLF
    <3>1. j \in 1 .. b /\ ~(m <= j)
      BY <1>3, <2>1
    <3>2. QED
      BY <1>10, <3>1
  <2>3. QED
    BY <1>2, <1>3, <2>1, <2>2
<1>12. LineEnd = CHOOSE i \in DOMAIN inputBuffer : End(i)
  BY DEF LineEnd
<1> HIDE DEF End
<1>13. LineEnd \in DOMAIN inputBuffer /\ End(LineEnd)
  BY <1>11, <1>12
<1>14. PICK l \in Nat : l = LineEnd /\ l - 1 >= 1 /\ l <= b
  <2>1. LineEnd \in 1 .. b /\ inputBuffer[LineEnd] = CRLF
    BY <1>2, <1>3, <1>13 DEF End
  <2>2. LineEnd # 1
    BY <1>6, <1>7, <2>1
  <2>3. QED
    BY <2>1, <2>2
<1>15. Line[1] = BodyByte
  <2>1. Line = SubSeq(inputBuffer, 1, l - 1)
    BY <1>14 DEF Line
  <2>2. \A i \in 1 .. l - 1 : i \in 1 .. b
    BY <1>3, <1>14
  <2>3. \A i \in 1 .. l - 1 : inputBuffer[i] \in Atom
    BY <1>2, <1>3, <2>2, ElementOfSeq
  <2>4. \A i \in 1 .. (l - 1) - 1 + 1 : SubSeq(inputBuffer, 1, l - 1)[i] = inputBuffer[1 + i - 1]
    BY <2>3, SubSeqProperties
  <2>5. 1 \in 1 .. (l - 1) - 1 + 1 /\ 1 + 1 - 1 = 1
    BY <1>14
  <2>6. QED
    BY <1>7, <2>1, <2>4, <2>5
<1>16. ~IsA("line", Line)
  BY <1>6, <1>15 DEF IsA
<1>17. QED
  BY <1>1, <1>9, <1>16

(* A refused request line is answered with 400, and the connection is left. *)
LEMMA BadRequestStep ==
  ASSUME HttpInv, connState = "kConnected", BadRequest
  PROVE  HttpInv'
<1>1. SentTypes /\ AnswersInOrder /\ (InStep \/ OutOfStep) /\ state = "kExpectRequestLine" /\ HasCRLF
  BY DEF HttpInv, BadRequest
<1> DEFINE e == [Response(TRUE, 400, 0) EXCEPT !.onto = sending.left # 0]
<1>2. /\ out' = Append(out, e) /\ UNCHANGED <<server, sent, split>> /\ connState' = "kDisconnecting"
  BY DEF BadRequest, Send, ShutdownIf
<1>3. e.status = 400 /\ DOMAIN e = ResponseFields
  BY DEF Response, ResponseFields
<1> HIDE DEF e
<1>4. \A i \in 1 .. Len(out) : ~out[i].close
  BY <1>1 DEF InStep, OutOfStep
<1>5. PICK k \in 1 .. Len(sent) :
         k = Current /\ (split = 0 \/ k <= split => Answers(e, sent[k], k = split))
  <2>1. CASE InStep
    <3>1. PICK k \in 1 .. Len(sent) :
            /\ k = Current /\ FreshRequest /\ sent[k] \in Requests
            /\ Len(Line) = 1 /\ Line[1] = RequestLine(sent[k])
      BY <1>1, <2>1, AtStart
    <3>2. ~ProcessRequestLine(request, Line).ok
      BY DEF BadRequest
    <3>3. ~Proper(sent[k])
      BY <3>1, <3>2, LineParsed
    <3>4. Answers(e, sent[k], k = split)
      BY <1>3, <3>3 DEF Answers
    <3>5. QED
      BY <3>1, <3>4
  <2>2. CASE OutOfStep
    <3>1. split + 1 \in 1 .. Len(sent) /\ Current = split + 1 /\ split \in 1 .. Len(sent)
      BY <1>1, <2>2, LostLine DEF OutOfStep
    <3>2. PICK s \in Nat : s = split /\ s + 1 \in 1 .. Len(sent) /\ s # 0 /\ ~(s + 1 <= s)
      BY <3>1
    <3>3. QED
      BY <3>1, <3>2
  <2>3. QED
    BY <1>1, <2>1, <2>2
<1>6. SentTypes' /\ AnswersInOrder'
  BY <1>1, <1>2, <1>3, <1>4, <1>5, AnswerSaid
<1>7. QED
  BY <1>2, <1>6 DEF HttpInv

\* What the servers make of a request: never 400, and closing as it asks.
Suits(response) ==
    /\ DOMAIN response = ResponseFields
    /\ response.status # 400 /\ response.close \in BOOLEAN
    /\ WantsClose(request) => response.close
    /\ server = "FileServer" => response.close = WantsClose(request)

(* A callback that was given the head of r answers r.                      *)
LEMMA SuitsAnswers ==
  ASSUME NEW response, Suits(response), NEW r, LineSeen(r), NEW cut \in BOOLEAN,
         IF cut THEN HeadSeenAs(request, r) ELSE SeenAs(request, r),
         NEW e, e.status = response.status, e.close = response.close, e.seen = request
  PROVE  Answers(e, r, cut)
<1>1. HeadSeenAs(request, r)
  BY DEF SeenAs
<1>2. WantsClose(request) = AsksForClose(r)
  <2>1. /\ request.version = r.version /\ DOMAIN request.headers = DOMAIN r.headers
        /\ \A f \in DOMAIN r.headers : request.headers[f] = r.headers[f]
    BY <1>1 DEF LineSeen, HeadSeenAs
  <2>2. CASE "Connection" \in DOMAIN r.headers
    BY <2>1, <2>2 DEF WantsClose, AsksForClose, GetHeader
  <2>3. CASE "Connection" \notin DOMAIN r.headers
    BY <2>1, <2>3 DEF WantsClose, AsksForClose, GetHeader
  <2>4. QED
    BY <2>2, <2>3
<1>3. Proper(r)
  BY DEF LineSeen
<1>4. e.status # 400 /\ (IF cut THEN HeadSeenAs(e.seen, r) ELSE SeenAs(e.seen, r))
  BY DEF Suits
<1>5. (AsksForClose(r) => e.close) /\ (server = "FileServer" => e.close = AsksForClose(r))
  BY <1>2 DEF Suits
<1>6. QED
  BY <1>3, <1>4, <1>5, Zenon DEF Answers

(* What the connection is given for a response.                            *)
LEMMA ToldAs ==
  ASSUME NEW response, DOMAIN response = ResponseFields, NEW onto
  PROVE  LET e == [[AppendToBuffer(response) EXCEPT !.seen = request] EXCEPT !.onto = onto]
         IN  /\ DOMAIN e = ResponseFields
             /\ e.status = response.status /\ e.close = response.close /\ e.seen = request
             /\ e.onto = onto /\ e.file = response.file /\ e.cut = response.cut
             /\ e.after = response.after /\ e.body = response.body
             /\ e.lengths = AppendToBuffer(response).lengths
<1> DEFINE told == AppendToBuffer(response)
<1>1. /\ DOMAIN told = ResponseFields
      /\ told.status = response.status /\ told.close = response.close
      /\ told.file = response.file /\ told.cut = response.cut /\ told.after = response.after
      /\ told.body = response.body
  <2>1. CASE response.close \/ NeedSendFile(response)
    BY <2>1 DEF AppendToBuffer
  <2>2. CASE ~(response.close \/ NeedSendFile(response))
    <3>1. told = [response EXCEPT !.lengths = @ \cup {response.body}]
      BY <2>2 DEF AppendToBuffer
    <3> HIDE DEF told
    <3>2. QED
      BY <3>1 DEF ResponseFields
  <2>3. QED
    BY <2>1, <2>2
<1> HIDE DEF told
<1>2. QED
  BY <1>1 DEF ResponseFields, told

(* The whole request is answered, and the next one begins.                 *)
LEMMA AnswerStep ==
  ASSUME HttpInv, connState = "kConnected", NEW response, Suits(response), Answer(response)
  PROVE  HttpInv'
<1>1. SentTypes /\ AnswersInOrder /\ HttpTypes /\ (InStep \/ OutOfStep)
  BY DEF HttpInv, InStep, OutOfStep
<1>2. state = "kGotAll"
  BY DEF Answer
<1>3. PICK k \in 1 .. Len(sent) :
         /\ k = Current /\ LineSeen(sent[k])
         /\ IF k = split THEN HeadSeenAs(request, sent[k]) ELSE SeenAs(request, sent[k])
         /\ \/ split = 0 /\ Placed(Len(Atoms(sent[k])), k, Len(sent))
            \/ split = k /\ OutOfStep
  <2>1. CASE InStep
    <3>1. PICK k \in 1 .. Len(sent), p \in Nat : k = Current /\ Placed(p, k, Len(sent)) /\ Parsed(sent[k], p)
      BY <1>2, <2>1, SomeIsOpen
    <3>2. p = Len(Atoms(sent[k])) /\ LineSeen(sent[k]) /\ SeenAs(request, sent[k])
      BY <1>2, <3>1 DEF Parsed, AtLine, AtHeaders, AtBody, AtEnd
    <3>3. split = 0 /\ k # split
      BY <2>1 DEF InStep
    <3>4. QED
      BY <3>1, <3>2, <3>3
  <2>2. CASE OutOfStep
    BY <1>2, <2>2 DEF OutOfStep
  <2>3. QED
    BY <1>1, <2>1, <2>2
<1> DEFINE r == sent[k]
           size == Len(Atoms(r))
           n == Len(sent)
           e == [[AppendToBuffer(response) EXCEPT !.seen = request] EXCEPT !.onto = sending.left # 0]
<1>5. /\ DOMAIN e = ResponseFields
      /\ e.status = response.status /\ e.close = response.close /\ e.seen = request
  BY ToldAs DEF Suits
<1>6. (AppendToBuffer(response).close) = response.close
  BY DEF AppendToBuffer, Suits, ResponseFields
<1>7. /\ out' = Append(out, e) /\ connState' = IF e.close THEN "kDisconnecting" ELSE connState
      /\ request' = Reset(request) /\ state' = "kExpectRequestLine"
      /\ server' = server /\ sent' = sent /\ wire' = wire /\ inputBuffer' = inputBuffer /\ split' = split
  <2>1. out' = Append(out, e)
    BY DEF Answer, Send
  <2>2. [AppendToBuffer(response) EXCEPT !.seen = request].close = e.close
    <3> DEFINE told == AppendToBuffer(response)
    <3> HIDE DEF told
    <3>1. [told EXCEPT !.seen = request].close = [[told EXCEPT !.seen = request] EXCEPT !.onto = sending.left # 0].close
      OBVIOUS
    <3>2. QED
      BY <3>1 DEF told
  <2>3. connState' = IF e.close THEN "kDisconnecting" ELSE connState
    BY <2>2 DEF Answer, ShutdownIf
  <2> HIDE DEF e
  <2>4. QED
    BY <2>1, <2>3 DEF Answer
<1> HIDE DEF e
<1>8. Answers(e, r, k = split)
  <2>1. PICK cut \in BOOLEAN : cut = (k = split)
    OBVIOUS
  <2>2. IF cut THEN HeadSeenAs(request, r) ELSE SeenAs(request, r)
    BY <1>3, <2>1
  <2>3. Answers(e, r, cut)
    BY <1>3, <1>5, <2>2, SuitsAnswers
  <2>4. QED
    BY <2>1, <2>3
<1>9. \A i \in 1 .. Len(out) : ~out[i].close
  BY <1>1 DEF InStep, OutOfStep
<1>10. /\ SentTypes' /\ AnswersInOrder' /\ Current' = k + 1
       /\ \A i \in 1 .. Len(out) : out'[i] = out[i]
       /\ Len(out') = k /\ out'[k] = e
  BY <1>1, <1>3, <1>5, <1>7, <1>8, <1>9, AnswerSaid
<1>11. CASE e.close
  BY <1>7, <1>10, <1>11 DEF HttpInv
<1>12. CASE ~e.close
  <2>1. HttpTypes'
    BY <1>1, <1>7, <1>10 DEF HttpTypes
  <2>2. n \in Nat /\ k \in Nat /\ k <= n /\ Len(out) \in Nat /\ k = Len(out) + 1
    BY <1>1, <1>3, UnreadIs DEF Current
  <2>3. \A i \in 1 .. Len(out') : ~out'[i].close
    <3>1. ASSUME NEW i \in 1 .. Len(out')
          PROVE  ~out'[i].close
      <4>1. i = k \/ i \in 1 .. Len(out)
        BY <1>10, <2>2
      <4>2. QED
        BY <1>9, <1>10, <1>12, <4>1
    <3>2. QED
      BY <3>1
  <2>4. Unread' = Unread /\ sent' = sent /\ n' = n
    BY <1>7 DEF Unread
  <2>5. CASE split = 0 /\ Placed(size, k, n)
    <3>1. Placed(0, k + 1, n)'
      <4>1. PICK c \in [Nat -> Int] : c[k] = 0 - size /\ LaidOut(c, k, n)
        BY <2>5 DEF Placed
      <4>2. k \in k .. n /\ k + 1 \in Nat /\ k + 1 .. n + 1 \subseteq k .. n + 1 /\ k + 1 .. n \subseteq k .. n
        BY <2>2
      <4>3. c[k + 1] = c[k] + size
        BY <4>1, <4>2 DEF LaidOut, Laid
      <4>4. size \in Nat
        <5>1. Atoms(r) \in Seq(Atom)
          BY <1>1, UnreadIs, AtomsAre
        <5>2. QED
          BY <5>1, LenProperties
      <4>5. c[k + 1] = 0
        BY <4>1, <4>3, <4>4
      <4>6. Laid(Unread', sent', c, k + 1, n)
        BY <2>4, <4>1, <4>2 DEF LaidOut, Laid
      <4>7. QED
        BY <2>4, <4>1, <4>5, <4>6 DEF Placed, LaidOut
    <3>2. AtLine(0)' /\ DOMAIN request' = DOMAIN EmptyRequest
      <4>1. request' = [EmptyRequest EXCEPT !.body = request.body]
        BY <1>7 DEF Reset
      <4>2. request'.body = request.body /\ DOMAIN request' = DOMAIN EmptyRequest
        BY <4>1 DEF EmptyRequest
      <4>3. request' = [EmptyRequest EXCEPT !.body = request'.body]
        BY <4>1, <4>2
      <4>4. QED
        BY <1>7, <4>2, <4>3 DEF AtLine, FreshRequest
    <3>3. InPlace(0, k + 1, n)'
      BY <3>1, <3>2 DEF InPlace, Parsed
    <3>4. \E q \in Nat : InPlace(q, Current, n)'
      BY <1>10, <3>3
    <3>5. Current' <= n + 1 /\ split' = 0
      BY <1>7, <1>10, <2>2, <2>5
    <3>6. InStep'
      BY <2>1, <2>3, <2>4, <3>4, <3>5 DEF InStep
    <3>7. QED
      BY <1>10, <3>6 DEF HttpInv
  <2>6. CASE split = k /\ OutOfStep
    <3>1. BodyIsLeft'
      BY <1>7, <2>4, <2>6 DEF BodyIsLeft, OutOfStep
    <3>2. split' \in 1 .. Len(sent') /\ Current' = split' + 1
      BY <1>7, <1>10, <2>6
    <3>3. OutOfStep'
      BY <1>7, <2>1, <2>3, <3>1, <3>2 DEF OutOfStep
    <3>4. QED
      BY <1>10, <3>3 DEF HttpInv
  <2>7. QED
    BY <1>3, <2>5, <2>6
<1>13. QED
  BY <1>11, <1>12
-----------------------------------------------------------------------------
(* Reads and sends.                                                        *)

(* A read moves atoms from the wire to the buffer.                         *)
LEMMA ReadStep ==
  ASSUME HttpInv, connState = "kConnected", NEW n \in DOMAIN wire, OnMessage(n)
  PROVE  HttpInv'
<1>1. SentTypes /\ AnswersInOrder /\ HttpTypes /\ (InStep \/ OutOfStep)
  BY DEF HttpInv, InStep, OutOfStep
<1>2. PICK b \in Seq(Atom), w \in Seq(Atom) : b = inputBuffer /\ w = wire
  BY <1>1 DEF HttpTypes
<1>3. n \in Nat /\ n >= 1 /\ n <= Len(w) /\ Len(w) \in Nat
  BY <1>2, LenProperties
<1> DEFINE first == SubSeq(w, 1, n)
           rest == SubSeq(w, n + 1, Len(w))
<1>4. first \in Seq(Atom) /\ rest \in Seq(Atom) /\ first \o rest = w
  BY <1>3, SplitSeq
<1>5. inputBuffer' = b \o first /\ wire' = rest
  BY <1>2 DEF OnMessage
<1> HIDE DEF first, rest
<1>6. /\ server' = server /\ sent' = sent /\ out' = out /\ connState' = connState
      /\ state' = state /\ request' = request /\ split' = split
  BY DEF OnMessage
<1>7. inputBuffer' \in Seq(Atom) /\ wire' \in Seq(Atom) /\ Unread' = Unread
  <2>1. b \o first \in Seq(Atom)
    BY <1>4, ConcatProperties
  <2>2. (b \o first) \o rest = b \o (first \o rest)
    <3>1. b \in Seq(Atom) /\ first \in Seq(Atom) /\ rest \in Seq(Atom)
      BY <1>4
    <3>2. QED
      BY <3>1, ConcatAssociative
  <2>3. QED
    BY <1>2, <1>4, <1>5, <2>1, <2>2 DEF Unread
<1>8. SentTypes' /\ AnswersInOrder'
  BY <1>1, <1>6, SameOut, SameSaid DEF SentTypes
<1>9. HttpTypes'
  BY <1>7, <1>8 DEF HttpTypes
<1>10. \A p \in Nat : InPlace(p, Current, Len(sent)) => InPlace(p, Current, Len(sent))'
  BY <1>6, <1>7 DEF InPlace, Placed, LaidOut, Current, Parsed, AtLine, AtHeaders, AtBody, AtEnd,
              LineSeen, HeadersSeen, FreshRequest
<1>11. InStep => InStep'
  BY <1>6, <1>9, <1>10 DEF InStep, Current
<1>12. OutOfStep => OutOfStep'
  BY <1>6, <1>7, <1>9 DEF OutOfStep, BodyIsLeft, Current, LineSeen
<1>13. QED
  BY <1>1, <1>8, <1>11, <1>12 DEF HttpInv

(* Another request behind those that are unread.                           *)
LEMMA LaidMore ==
  ASSUME NEW u \in Seq(Atom), NEW s \in Seq(Requests), NEW r \in Requests, NEW k \in Nat \ {0},
         k <= Len(s) + 1, NEW c, Laid(u, s, c, k, Len(s))
  PROVE  \E d \in [Nat -> Int] : d[k] = c[k] /\ Laid(u \o Atoms(r), Append(s, r), d, k, Len(s) + 1)
<1> DEFINE a == Atoms(r)
           v == u \o a
           t == Append(s, r)
<1>1. PICK n \in Nat : n = Len(s)
  BY LenProperties
<1>2. PICK size \in Nat : size = Len(u)
  BY LenProperties
<1>3. a \in Seq(Atom)
  BY AtomsAre
<1> HIDE DEF a
<1>4. PICK more \in Nat : more = Len(a)
  BY <1>3, LenProperties
<1>5. /\ Len(v) = size + more
      /\ \A i \in 1 .. size + more : v[i] = IF i <= size THEN u[i] ELSE a[i - size]
  BY <1>2, <1>3, <1>4, ConcatProperties
<1>6. t[n + 1] = r /\ \A i \in 1 .. n : t[i] = s[i]
  BY <1>1, AppendProperties
<1> HIDE DEF v, t
<1>7. /\ c \in [Nat -> Int] /\ c[n + 1] = size /\ \A i \in k .. n + 1 : c[i] <= size
      /\ \A i \in k .. n : c[i + 1] = c[i] + Len(Atoms(s[i]))
      /\ \A i \in k .. n : \A j \in 1 .. Len(Atoms(s[i])) :
            c[i] + j >= 1 => u[c[i] + j] = Atoms(s[i])[j]
  BY <1>1, <1>2 DEF Laid
<1>8. k <= n + 1
  BY <1>1
<1>9. \A i \in k .. n + 1 : i \in Nat /\ c[i] \in Int
  BY <1>1, <1>7
<1> DEFINE d == [i \in Nat |-> IF i = n + 2 THEN size + more ELSE c[i]]
<1>10. d \in [Nat -> Int]
  BY <1>7
<1>11. d[n + 2] = size + more /\ \A i \in k .. n + 1 : d[i] = c[i]
  <2>1. n + 2 \in Nat /\ \A i \in k .. n + 1 : i \in Nat /\ i # n + 2
    BY <1>1
  <2>2. QED
    BY <2>1
<1> HIDE DEF d
<1>12. d[k] = c[k] /\ d[n + 1] = size
  <2>1. k \in k .. n + 1 /\ n + 1 \in k .. n + 1
    BY <1>8
  <2>2. QED
    BY <1>7, <1>11, <2>1
<1>13. ASSUME NEW i \in k .. (n + 1) + 1
       PROVE  d[i] <= size + more
  <2>1. CASE i = n + 2
    BY <1>11, <2>1
  <2>2. CASE i # n + 2
    <3>1. i \in k .. n + 1
      BY <1>1, <2>2
    <3>2. PICK x \in Int : x = c[i] /\ x <= size /\ d[i] = x
      BY <1>7, <1>9, <1>11, <3>1
    <3>3. x <= size + more
      BY <1>2, <1>4, <3>2
    <3>4. QED
      BY <3>2, <3>3
  <2>3. QED
    BY <2>1, <2>2
<1>14. ASSUME NEW i \in k .. n + 1
       PROVE  /\ d[i + 1] = d[i] + Len(Atoms(t[i]))
              /\ \A j \in 1 .. Len(Atoms(t[i])) : d[i] + j >= 1 => v[d[i] + j] = Atoms(t[i])[j]
  <2>1. CASE i = n + 1
    <3>1. Atoms(t[i]) = a /\ d[i] = size
      BY <1>6, <1>12, <2>1 DEF a
    <3>2. d[i + 1] = size + more
      <4>1. i + 1 = n + 2
        BY <2>1
      <4>2. QED
        BY <1>11, <4>1
    <3>3. ASSUME NEW j \in 1 .. more
          PROVE  v[size + j] = a[j]
      <4>1. PICK g \in Nat : g = size + j
        OBVIOUS
      <4>2. g \in 1 .. size + more /\ ~(g <= size) /\ g - size = j
        BY <4>1
      <4>3. v[g] = a[j]
        BY <1>5, <4>2
      <4>4. QED
        BY <4>1, <4>3
    <3>4. QED
      BY <1>4, <3>1, <3>2, <3>3
  <2>2. CASE i # n + 1
    <3>1. i \in k .. n /\ i \in 1 .. n /\ i + 1 \in k .. n + 1
      BY <1>1, <2>2
    <3>2. PICK z \in Nat : z = Len(Atoms(s[i])) /\ t[i] = s[i]
      <4>1. s[i] \in Requests
        BY <1>1, <3>1, ElementOfSeq
      <4>2. Atoms(s[i]) \in Seq(Atom)
        BY <4>1, AtomsAre
      <4>3. Len(Atoms(s[i])) \in Nat
        BY <4>2, LenProperties
      <4>4. QED
        BY <1>6, <3>1, <4>3
    <3>3. PICK x \in Int : x = c[i] /\ d[i] = x
      BY <1>9, <1>11, <3>1
    <3>4. PICK g \in k .. n + 1 : g = i + 1
      BY <3>1
    <3>5. c[g] = x + z /\ c[g] <= size /\ d[g] = c[g]
      BY <1>7, <1>11, <3>1, <3>2, <3>3, <3>4
    <3>6. d[i + 1] = x + z
      <4>1. d[i + 1] = d[g]
        BY <3>4
      <4>2. QED
        BY <3>5, <4>1
    <3>7. x + z <= size
      BY <3>5
    <3>8. ASSUME NEW j \in 1 .. z, x + j >= 1
          PROVE  v[x + j] = Atoms(s[i])[j]
      <4>1. PICK o \in Int : o = x + j
        OBVIOUS
      <4>2. o >= 1 /\ o <= size
        BY <1>2, <3>2, <3>7, <3>8, <4>1
      <4>3. o \in 1 .. size + more /\ o <= size
        BY <1>2, <1>4, <4>1, <4>2
      <4>4. v[o] = u[o]
        BY <1>5, <4>3
      <4>5. u[c[i] + j] = Atoms(s[i])[j]
        BY <1>7, <3>1, <3>2, <3>3, <3>8
      <4>6. QED
        BY <3>3, <4>1, <4>4, <4>5
    <3>9. QED
      BY <3>2, <3>3, <3>6, <3>8
  <2>3. QED
    BY <2>1, <2>2
<1>15. (n + 1) + 1 = n + 2
  OBVIOUS
<1>16. Laid(v, t, d, k, n + 1)
  BY <1>5, <1>10, <1>11, <1>13, <1>14, <1>15 DEF Laid
<1>17. QED
  BY <1>1, <1>10, <1>12, <1>16 DEF v, t, a

(* The peer sends another request.                                         *)
LEMMA PeerStep ==
  ASSUME HttpInv, NEW r \in Requests, PeerSends(r)
  PROVE  HttpInv'
<1>1. SentTypes /\ AnswersInOrder
  BY DEF HttpInv
<1>2. /\ sent' = Append(sent, r) /\ wire' = wire \o Atoms(r) /\ inputBuffer' = inputBuffer
      /\ server' = server /\ out' = out /\ connState' = connState /\ state' = state /\ request' = request
      /\ split' = split
  BY DEF PeerSends
<1>3. PICK s \in Seq(Requests), n \in Nat : s = sent /\ n = Len(s)
  BY <1>1, LenProperties DEF SentTypes
<1>4. /\ sent' \in Seq(Requests) /\ Len(sent') = n + 1
      /\ \A i \in 1 .. n : sent'[i] = sent[i]
      /\ sent'[n + 1] = r
  BY <1>2, <1>3, AppendProperties
<1>5. SentTypes'
  BY <1>1, <1>2, <1>4 DEF SentTypes
<1>6. AnswersInOrder'
  <2>1. Len(out) \in Nat
    BY <1>1, LenProperties DEF SentTypes, IsSequence
  <2>2. Len(out) <= n
    BY <1>1, <1>3 DEF AnswersInOrder
  <2>3. Len(out') <= Len(sent')
    BY <1>2, <1>3, <1>4, <2>1, <2>2
  <2>4. \A i \in 1 .. Len(out') : i \in 1 .. Len(out) /\ sent'[i] = sent[i]
    BY <1>2, <1>3, <1>4, <2>1, <2>2
  <2>5. ASSUME NEW i \in 1 .. Len(out')
        PROVE  RightAt(i)'
    <3>1. RightAt(i) /\ sent'[i] = sent[i]
      BY <1>1, <2>4 DEF AnswersInOrder, RightAt
    <3>2. QED
      BY <1>2, <3>1 DEF RightAt, Answers
  <2>6. QED
    BY <2>3, <2>5 DEF AnswersInOrder, RightAt
<1>7. ASSUME HttpTypes
      PROVE  /\ HttpTypes' /\ Unread \in Seq(Atom) /\ Unread' = Unread \o Atoms(r)
             /\ Atoms(r) \in Seq(Atom)
  <2>1. PICK b \in Seq(Atom), w \in Seq(Atom) : b = inputBuffer /\ w = wire
    BY <1>7 DEF HttpTypes
  <2>2. PICK a \in Seq(Atom) : a = Atoms(r)
    BY AtomsAre
  <2>3. b \o w \in Seq(Atom) /\ w \o a \in Seq(Atom)
    BY ConcatProperties
  <2>4. (b \o w) \o a = b \o (w \o a)
    BY ConcatAssociative
  <2>5. HttpTypes'
    BY <1>2, <1>5, <1>7, <2>1, <2>2, <2>3 DEF HttpTypes
  <2>6. QED
    BY <1>2, <2>1, <2>2, <2>3, <2>4, <2>5 DEF Unread
<1>8. ASSUME InStep
      PROVE  InStep'
  <2>1. HttpTypes /\ HttpTypes'
    BY <1>7, <1>8 DEF InStep
  <2>2. PICK u \in Seq(Atom) : u = Unread /\ Unread' = u \o Atoms(r)
    BY <1>7, <2>1
  <2>3. PICK k \in Nat \ {0} : k = Current /\ k <= n + 1 /\ Current' = k
    <3>1. Len(out) \in Nat
      BY <2>1, UnreadIs
    <3>2. QED
      BY <1>2, <1>3, <1>8, <3>1 DEF Current, InStep
  <2>4. PICK p \in Nat : InPlace(p, k, n)
    BY <1>3, <1>8, <2>3 DEF InStep
  <2>5. Placed(p, k, n + 1)'
    <3>1. PICK c : c[k] = 0 - p /\ Laid(u, s, c, k, Len(s))
      BY <1>3, <2>2, <2>4 DEF InPlace, Placed, LaidOut
    <3>2. k <= Len(s) + 1
      BY <1>3, <2>3
    <3>3. PICK d \in [Nat -> Int] : d[k] = c[k] /\ Laid(u \o Atoms(r), Append(s, r), d, k, Len(s) + 1)
      BY <3>1, <3>2, LaidMore
    <3>4. d[k] = 0 - p /\ Laid(Unread', sent', d, k, n + 1)
      BY <1>2, <1>3, <2>2, <3>1, <3>3
    <3>5. QED
      BY <3>4 DEF Placed, LaidOut
  <2>6. Parsed(sent[k], p)' /\ ~(k > n + 1)
    <3>1. CASE k <= n
      <4>1. Parsed(sent[k], p) /\ k \in 1 .. n
        BY <1>3, <2>4, <3>1 DEF InPlace
      <4>2. sent'[k] = sent[k]
        BY <1>4, <4>1
      <4>3. Parsed(sent[k], p)'
        BY <1>2, <4>1, <4>2 DEF Parsed, AtLine, AtHeaders, AtBody, AtEnd, LineSeen, HeadersSeen, FreshRequest
      <4>4. QED
        BY <2>3, <4>3
    <3>2. CASE k > n
      <4>1. AtLine(p)
        BY <1>3, <2>4, <3>2 DEF InPlace
      <4>2. request = [EmptyRequest EXCEPT !.body = request.body]
        BY <4>1 DEF AtLine, FreshRequest
      <4>3. DOMAIN request = DOMAIN EmptyRequest
        BY <4>2 DEF EmptyRequest
      <4>4. Parsed(sent[k], p)'
        BY <1>2, <4>1, <4>3 DEF Parsed, AtLine, FreshRequest
      <4>5. QED
        BY <2>3, <4>4
    <3>3. QED
      BY <2>3, <3>1, <3>2
  <2>7. InPlace(p, k, n + 1)'
    BY <2>5, <2>6 DEF InPlace
  <2>8. \E q \in Nat : InPlace(q, Current, Len(sent))'
    BY <1>4, <2>3, <2>7
  <2>9. Current' <= Len(sent') + 1
    BY <1>4, <2>3
  <2>10. QED
    BY <1>2, <1>8, <2>1, <2>8, <2>9 DEF InStep
<1>9. ASSUME OutOfStep
      PROVE  OutOfStep'
  <2>1. HttpTypes /\ HttpTypes' /\ BodyIsLeft /\ split \in 1 .. n
    BY <1>3, <1>7, <1>9 DEF OutOfStep
  <2>2. Len(Unread') >= 1 /\ Unread'[1] = BodyByte
    <3>1. PICK u \in Seq(Atom), a \in Seq(Atom) : u = Unread /\ Unread' = u \o a
      BY <1>7, <2>1
    <3>2. Len(u) >= 1 /\ u[1] = BodyByte /\ Len(u) \in Nat /\ Len(a) \in Nat
      BY <2>1, <3>1, LenProperties DEF BodyIsLeft
    <3>3. Len(u \o a) = Len(u) + Len(a) /\ (u \o a)[1] = u[1]
      <4>1. 1 \in 1 .. Len(u) + Len(a) /\ 1 <= Len(u)
        BY <3>2
      <4>2. QED
        BY <4>1, ConcatProperties
    <3>4. QED
      BY <3>1, <3>2, <3>3
  <2>3. split' # Len(sent') /\ split' \in 1 .. Len(sent') /\ sent'[split'] = sent[split]
    BY <1>2, <1>3, <1>4, <2>1
  <2>4. BodyIsLeft'
    BY <2>2, <2>3 DEF BodyIsLeft
  <2>5. Current' = Current /\ \A i \in 1 .. Len(out') : ~out'[i].close
    BY <1>2, <1>9 DEF Current, OutOfStep
  <2>6. \/ /\ state' = "kGotAll" /\ Current' = split'
           /\ LineSeen(sent[split])' /\ HeadSeenAs(request, sent[split])'
        \/ state' = "kExpectRequestLine" /\ Current' = split' + 1
    BY <1>2, <1>9, <2>3, <2>5 DEF OutOfStep, LineSeen
  <2>7. QED
    BY <2>1, <2>3, <2>4, <2>5, <2>6 DEF OutOfStep
<1>10. QED
  BY <1>2, <1>5, <1>6, <1>8, <1>9 DEF HttpInv
-----------------------------------------------------------------------------
(* Every step.                                                             *)

(* Nothing has been read, sent or said at first.                           *)
LEMMA HttpStarts ==
  HttpInit => HttpInv
<1> SUFFICES ASSUME HttpInit
             PROVE  HttpInv
  OBVIOUS
<1>1. /\ sent = <<>> /\ out = <<>> /\ wire = <<>> /\ inputBuffer = <<>>
      /\ state = "kExpectRequestLine" /\ request = EmptyRequest
  BY DEF HttpInit
<1>2. SentTypes /\ Len(sent) = 0 /\ Len(out) = 0 /\ split = 0
  <2>1. \A i \in 1 .. 0 : FALSE
    OBVIOUS
  <2>2. QED
    BY <1>1, <2>1 DEF SentTypes, IsSequence, HttpInit
<1>3. HttpTypes
  BY <1>1, <1>2 DEF HttpTypes
<1>4. AnswersInOrder
  BY <1>2 DEF AnswersInOrder
<1>5. AtLine(0)
  <2>1. request.body = <<>> /\ request = [EmptyRequest EXCEPT !.body = request.body]
    BY <1>1 DEF EmptyRequest
  <2>2. QED
    BY <1>1, <2>1 DEF AtLine, FreshRequest
<1>6. Placed(0, 1, 0)
  <2> DEFINE c == [i \in Nat |-> 0]
  <2>1. c \in [Nat -> Int] /\ \A i \in Nat : c[i] = 0
    OBVIOUS
  <2> HIDE DEF c
  <2>2. Len(Unread) = 0
    BY <1>1 DEF Unread
  <2>3. \A i \in 1 .. 0 : FALSE
    OBVIOUS
  <2>4. \A i \in 1 .. 0 + 1 : i \in Nat
    OBVIOUS
  <2>5. Laid(Unread, sent, c, 1, 0)
    BY <2>1, <2>2, <2>3, <2>4 DEF Laid
  <2>6. c[1] = 0 - 0
    BY <2>1
  <2>7. QED
    BY <2>1, <2>5, <2>6 DEF Placed, LaidOut
<1>7. InPlace(0, 1, 0)
  BY <1>5, <1>6 DEF InPlace
<1>8. Current = 1
  BY <1>2 DEF Current
<1>9. InStep
  BY <1>1, <1>2, <1>3, <1>7, <1>8 DEF InStep
<1>10. QED
  BY <1>2, <1>4, <1>9 DEF HttpInv

(* What an HttpServer answers suits the request.                           *)
LEMMA HttpServerStep ==
  ASSUME HttpInv, connState = "kConnected", HttpServerAnswers
  PROVE  HttpInv'
<1>1. server = "HttpServer"
  BY DEF HttpServerAnswers
<1>2. CASE \E body \in 0..1, more \in BOOLEAN : Answer(Response(WantsClose(request) \/ more, 200, body))
  <2>1. PICK body \in 0 .. 1, more \in BOOLEAN : Answer(Response(WantsClose(request) \/ more, 200, body))
    BY <1>2
  <2> DEFINE response == Response(WantsClose(request) \/ more, 200, body)
  <2>2. /\ DOMAIN response = ResponseFields
        /\ response.status = 200 /\ response.close = (WantsClose(request) \/ more)
    BY DEF Response, ResponseFields
  <2> HIDE DEF response
  <2>3. Suits(response)
    <3>1. response.close \in BOOLEAN /\ (WantsClose(request) => response.close)
      BY <2>2, Zenon
    <3>2. response.status # 400
      BY <2>2
    <3>3. server # "FileServer"
      BY <1>1
    <3>4. QED
      BY <2>2, <3>1, <3>2, <3>3 DEF Suits
  <2>4. Answer(response)
    BY <2>1 DEF response
  <2>5. QED
    BY <2>3, <2>4, AnswerStep
<1>3. CASE Answer(Response(TRUE, 404, 0))
  <2> DEFINE response == Response(TRUE, 404, 0)
  <2>1. /\ DOMAIN response = ResponseFields
        /\ response.status = 404 /\ response.close
    BY DEF Response, ResponseFields
  <2> HIDE DEF response
  <2>2. Suits(response)
    BY <1>1, <2>1 DEF Suits
  <2>3. Answer(response)
    BY <1>3 DEF response
  <2>4. QED
    BY <2>2, <2>3, AnswerStep
<1>4. QED
  BY <1>2, <1>3 DEF HttpServerAnswers

(* What a FileServer answers suits the request.                            *)
LEMMA FileServerSuits ==
  ASSUME NEW opened, NEW close \in BOOLEAN, close = WantsClose(request), NEW response,
         response \in {Response(close, 200, 1), SetResponseBody(request, close, opened)}
  PROVE  Suits(response)
<1> DEFINE Right(e) == /\ DOMAIN e = ResponseFields
                      /\ e.status # 400 /\ e.close = close
<1>1. \A status \in {200, 206, 404}, body \in {0, 1, 2, 3} : Right(Response(close, status, body))
  BY DEF Response, ResponseFields
<1>2. Right(SetResponseBody(request, close, opened))
  <2> DEFINE p == request.path
             range == GetHeader(request, "Range")
             slice == FileSlice(p, Files[p].size, range)
             status == IF range = "" THEN 200 ELSE 206
             plain == Response(close, status, 0)
             whole == [plain EXCEPT !.file = slice, !.lengths = {slice.count},
                                    !.cut = IF opened THEN "no" ELSE "unopened"]
  <2>1. Right(plain)
    <3>1. status \in {200, 206, 404} /\ 0 \in {0, 1, 2, 3}
      OBVIOUS
    <3> HIDE DEF status, Right
    <3>2. QED
      BY <1>1, <3>1
  <2>2. Right(whole)
    <3> HIDE DEF plain, slice
    <3>1. DOMAIN whole = DOMAIN plain /\ whole.status = plain.status /\ whole.close = plain.close
      BY <2>1
    <3>2. QED
      BY <2>1, <3>1
  <2>3. SetResponseBody(request, close, opened) \in {Response(close, 404, 2), Response(close, 200, 3), whole}
    BY DEF SetResponseBody
  <2> HIDE DEF whole, Right
  <2>4. QED
    BY <1>1, <2>2, <2>3
<1>3. Right(response)
  <2> HIDE DEF Right
  <2>1. QED
    BY <1>1, <1>2
<1>4. QED
  BY <1>3 DEF Suits

(* A FileServer answers.                                                   *)
LEMMA FileServerStep ==
  ASSUME HttpInv, connState = "kConnected", FileServerAnswers
  PROVE  HttpInv'
<1> DEFINE close == WantsClose(request)
<1>1. PICK opened \in Opens :
          Answer(IF request.path = "/favicon.ico" THEN Response(close, 200, 1)
                 ELSE SetResponseBody(request, close, opened))
  BY DEF FileServerAnswers
<1>2. close \in BOOLEAN
  BY DEF WantsClose
<1>3. PICK response : /\ response \in {Response(close, 200, 1), SetResponseBody(request, close, opened)}
                      /\ Answer(response)
  BY <1>1
<1> HIDE DEF close
<1>4. close = WantsClose(request)
  BY DEF close
<1>5. Suits(response)
  BY <1>2, <1>3, <1>4, FileServerSuits
<1>6. QED
  BY <1>3, <1>5, AnswerStep

(* On a connection that is being left nothing more is said.                *)
LEMMA NothingSaidAnyMore ==
  ASSUME HttpInv, connState # "kConnected", Read \/ Handle
  PROVE  HttpInv'
<1>1. server' = server /\ sent' = sent /\ out' = out /\ connState' = connState
  BY DEF Read, OnMessage, Handle, Parse, ParseRequestLine, ParseHeader, ParseBody, NeedsMore,
         BadRequest, HttpServerAnswers, FileServerAnswers, Answer, Send, ShutdownIf
<1>2. split' = split \/ (split = 0 /\ split' = Current)
  BY DEF Read, OnMessage, Handle, Parse, ParseRequestLine, ParseHeader, ParseBody, NeedsMore,
         BadRequest, HttpServerAnswers, FileServerAnswers, Answer, Current
<1>3. SentTypes' /\ AnswersInOrder'
  BY <1>1, <1>2, SameOut, SameSaid DEF HttpInv, SentTypes
<1>4. QED
  BY <1>1, <1>3 DEF HttpInv

(* What is recorded of a file changes no answer.                           *)
LEMMA SameWithField ==
  ASSUME SentTypes, NEW i, NEW v,
         out' = [out EXCEPT ![i].after = v] \/ out' = [out EXCEPT ![i].cut = v]
  PROVE  SameAnswers(out, out')
<1>1. PICK n \in Nat : n = Len(out) /\ DOMAIN out = 1 .. n /\ \A h \in 1 .. n : DOMAIN out[h] = ResponseFields
  BY LenProperties DEF SentTypes, IsSequence
<1>2. DOMAIN out' = 1 .. n /\ out' = [h \in 1 .. n |-> out'[h]]
  BY <1>1
<1>3. ASSUME NEW h \in 1 .. n
      PROVE  /\ DOMAIN out'[h] = DOMAIN out[h] /\ out'[h].status = out[h].status
             /\ out'[h].close = out[h].close /\ out'[h].seen = out[h].seen
  <2>1. DOMAIN out[h] = ResponseFields
    BY <1>1
  <2>2. CASE out' = [out EXCEPT ![i].after = v]
    <3>1. out'[h] = out[h] \/ out'[h] = [out[h] EXCEPT !.after = v]
      BY <1>1, <2>2
    <3>2. QED
      BY <2>1, <3>1 DEF ResponseFields
  <2>3. CASE out' = [out EXCEPT ![i].cut = v]
    <3>1. out'[h] = out[h] \/ out'[h] = [out[h] EXCEPT !.cut = v]
      BY <1>1, <2>3
    <3>2. QED
      BY <2>1, <3>1 DEF ResponseFields
  <2>4. QED
    BY <2>2, <2>3
<1>4. IsSequence(out') /\ Len(out') = n
  <2>1. PICK q : q = out'
    OBVIOUS
  <2>2. q \in [1 .. n -> {q[h] : h \in 1 .. n}]
    BY <1>2, <2>1
  <2>3. q \in Seq({q[h] : h \in 1 .. n}) /\ Len(q) = n
    BY <2>2, FunctionIsSeq
  <2>4. IsSequence(q)
    BY <2>3 DEF IsSequence, Among
  <2>5. QED
    BY <2>1, <2>3, <2>4
<1>5. QED
  BY <1>1, <1>3, <1>4 DEF SameAnswers

(* The connection sends a part of a file, or gives it up.                  *)
LEMMA FileStep ==
  ASSUME HttpInv, FileIsSent \/ FileIsGivenUp
  PROVE  HttpInv'
<1>1. SentTypes /\ Len(out) \in Nat
  BY LenProperties DEF HttpInv, SentTypes, IsSequence
<1>2. \E i, v : out' = [out EXCEPT ![i].after = v] \/ out' = [out EXCEPT ![i].cut = v]
  <2>1. CASE FileIsSent
    <3>1. PICK m : out' = [out EXCEPT ![Len(out)].after = Follows(@, m)]
      BY <2>1 DEF FileIsSent
    <3>2. PICK i \in Nat : i = Len(out)
      BY <1>1
    <3>3. PICK v : v = Follows(out[i].after, m)
      OBVIOUS
    <3>4. out' = [out EXCEPT ![i].after = v]
      BY <3>1, <3>2, <3>3
    <3>5. QED
      BY <3>4
  <2>2. CASE FileIsGivenUp
    BY <2>2 DEF FileIsGivenUp
  <2>3. QED
    BY <2>1, <2>2
<1>3. SameAnswers(out, out')
  BY <1>1, <1>2, SameWithField
<1>4. UNCHANGED <<server, sent, connState, wire, split, inputBuffer, state, request>>
  BY DEF FileIsSent, FileIsGivenUp, fileGoesOn
<1>5. QED
  BY <1>3, <1>4, NothingMoves

(* The invariant is kept by every step.                                    *)
LEMMA HttpSteps ==
  HttpInv /\ [HttpNext]_httpVars => HttpInv'
<1> SUFFICES ASSUME HttpInv, [HttpNext]_httpVars
             PROVE  HttpInv'
  OBVIOUS
<1>1. CASE \E r \in Requests : PeerSends(r)
  BY <1>1, PeerStep
<1>2. CASE UNCHANGED httpVars \/ PeerReceives
  <2>1. UNCHANGED <<server, sent, connState, wire, split, inputBuffer, state, request>> /\ out' = out
    BY <1>2 DEF httpVars, PeerReceives
  <2>2. SameAnswers(out, out')
    BY <2>1, SameOut DEF HttpInv, SentTypes
  <2>3. QED
    BY <2>1, <2>2, NothingMoves
<1>3. CASE connState # "kConnected" /\ (Read \/ Handle)
  BY <1>3, NothingSaidAnyMore
<1>4. CASE connState = "kConnected" /\ (Read \/ Handle)
  <2>1. (InStep \/ OutOfStep) /\ SentTypes /\ AnswersInOrder
    BY <1>4 DEF HttpInv
  <2>2. SameAnswers(out, out)
    BY <2>1 DEF SentTypes, SameAnswers
  <2>3. CASE Read
    BY <1>4, <2>3, ReadStep DEF Read
  <2>4. CASE ParseRequestLine
    <3>1. InStep
      <4>1. ProcessRequestLine(request, Line).ok /\ state = "kExpectRequestLine" /\ HasCRLF
        BY <2>4 DEF ParseRequestLine
      <4>2. IsA("line", Line)
        BY <4>1 DEF ProcessRequestLine
      <4>3. QED
        BY <2>1, <4>1, <4>2, LostLine
    <3>2. InStep'
      BY <2>4, <3>1, RequestLineStep
    <3>3. UNCHANGED <<server, sent, out, split>>
      BY <2>4 DEF ParseRequestLine
    <3>4. QED
      BY <2>1, <2>2, <3>2, <3>3, SameSaid DEF HttpInv
  <2>5. CASE ParseHeader
    <3>1. InStep
      BY <2>1, <2>5 DEF OutOfStep, ParseHeader
    <3>2. InStep'
      BY <2>5, <3>1, HeaderStep
    <3>3. UNCHANGED <<server, sent, out, split>>
      BY <2>5 DEF ParseHeader
    <3>4. QED
      BY <2>1, <2>2, <3>2, <3>3, SameSaid DEF HttpInv
  <2>6. CASE ParseBody
    <3>1. InStep
      BY <2>1, <2>6 DEF OutOfStep, ParseBody
    <3>2. QED
      BY <1>4, <2>6, <3>1, BodyStep
  <2>7. CASE NeedsMore
    <3>1. UNCHANGED <<server, sent, connState, wire, split, inputBuffer, state, request>> /\ out' = out
      BY <2>7 DEF NeedsMore
    <3>2. QED
      BY <2>2, <3>1, NothingMoves
  <2>8. CASE BadRequest
    BY <1>4, <2>8, BadRequestStep
  <2>9. CASE HttpServerAnswers
    BY <1>4, <2>9, HttpServerStep
  <2>10. CASE FileServerAnswers
    BY <1>4, <2>10, FileServerStep
  <2>11. QED
    BY <1>4, <2>3, <2>4, <2>5, <2>6, <2>7, <2>8, <2>9, <2>10 DEF Handle, Parse
<1>5. CASE FileIsSent \/ FileIsGivenUp
  BY <1>5, FileStep
<1>6. QED
  BY <1>1, <1>2, <1>3, <1>4, <1>5 DEF HttpNext

(* Every response of an HttpServer or a FileServer answers the request of   *)
(* its place, which HttpContext handed over just as the peer sent it,      *)
(* however the bytes were cut into reads and whatever was parsed before on *)
(* the same context; and nothing follows a response that closes.  Of the   *)
(* first request that was taken before its body had been read only the     *)
(* head is right, and of those behind it nothing is said.                  *)
THEOREM RequestsAreAnswered ==
  HttpSpec => []AnswersInOrder
<1>1. HttpInv => AnswersInOrder
  BY DEF HttpInv
<1>2. QED
  BY HttpStarts, HttpSteps, <1>1, PTL DEF HttpSpec
-----------------------------------------------------------------------------
(* Where a response ends.                                                  *)

\* The slice of a file that a range asks for, and what more than the file has.
Slice(file, range) ==
    LET size == Files[file.path].size IN
    /\ file.path \in DOMAIN Files /\ size \in Nat /\ file.offset \in Nat /\ file.count \in Int
    /\ AskedBytes(size, range) = {k \in 0 .. size - 1 : file.offset <= k /\ k < file.offset + file.count}
    /\ InFile(size, range) => file.count >= 0 /\ file.offset + file.count <= size

\* The first m bytes of the slice have followed r.
Followed(r, m) ==
    /\ m \in Nat /\ r.after.count = m /\ r.after.offset \in Nat
    /\ m # 0 => /\ r.after.path = r.file.path /\ r.after.offset = r.file.offset
                /\ r.file.offset + m <= Files[r.file.path].size

\* A response without a file, and one with a file of which so many bytes are left to send.
Plain(r) == r.after = NoFile /\ r.cut = "no" /\ (r.lengths = {r.body} \/ (r.lengths = {} /\ r.close))

Opened(r, left) ==
    /\ r.lengths = {r.file.count}
    /\ \E m \in Nat :
          /\ Followed(r, m) /\ (m # 0 => m <= r.file.count)
          /\ left > 0 => m = r.file.count - left
          /\ left < 0 => m = 0 /\ r.file.count = left
          /\ left = 0 /\ r.cut = "no" => m = r.file.count
          /\ r.cut = "end" => r.file.count < 0 \/ (m < r.file.count /\ r.file.offset + m >= Files[r.file.path].size)

WithFile(r, left) ==
    /\ r.file # NoFile /\ r.body = 0 /\ left \in Int /\ Slice(r.file, GetHeader(r.seen, "Range"))
    /\ left # 0 => r.cut = "no"
    /\ IF r.cut = "unopened" THEN Followed(r, 0) ELSE Opened(r, left)

KeptAs(r, left) == IF r.file = NoFile THEN left = 0 /\ Plain(r) ELSE WithFile(r, left)

\* What of the file of the i-th response is left to send.
LeftOf(i) == IF sending.of = i THEN sending.left ELSE 0

\* The responses behind the one whose file goes out have come into the file.
OneGoesOut ==
    /\ sending.of \in 1 .. Len(out) /\ sending.left \in Int
    /\ \A j \in sending.of + 1 .. Len(out) : out[j].onto

\* Nothing has come between the i-th response and its file, and its file was not cut short.
Undisturbed(i) == ~out[i].onto /\ (i < Len(out) => ~out[i + 1].onto)

FilesInv ==
    /\ sending.left # 0 => OneGoesOut
    /\ \A i \in 1 .. Len(out) : Undisturbed(i) => KeptAs(out[i], LeftOf(i))

\* A peer that waits for a response has got all before it, and their files.
WindowInv ==
    window = 1 =>
       /\ got \in Nat /\ got <= Len(out) /\ Len(sent) <= got + 1
       /\ \A i \in 1 .. Len(out) : ~out[i].onto
       /\ sending.left # 0 => sending.of > got

FramedInv == FilesInv /\ WindowInv

\* What FileSlice makes of the first and the last that are asked for, -1 where left out.
FirstOf(b, e, size) == IF b = -1 THEN size - e ELSE b
LastOf(b, e, size) == IF b = -1 \/ e = -1 THEN size - 1 ELSE e
Asks(b, e, size, k) == IF b = -1 THEN k >= size - e ELSE k >= b /\ (e # -1 => k <= e)
LiesWithin(b, e, size) == IF b = -1 THEN e \in 1 .. size ELSE b < size /\ (e # -1 => e \in b .. size - 1)

Numbers(b, e, size, offset, count) ==
    /\ offset = (IF FirstOf(b, e, size) < 0 THEN 0 ELSE FirstOf(b, e, size))
    /\ count = LastOf(b, e, size) - FirstOf(b, e, size) + 1
    /\ \A k \in 0 .. size - 1 : (offset <= k /\ k < offset + count) <=> Asks(b, e, size, k)
    /\ LiesWithin(b, e, size) => count >= 0 /\ offset + count <= size

(* The arithmetic of a range.                                              *)
LEMMA RangeNumbers ==
  ASSUME NEW size \in Nat, NEW b \in Nat \cup {-1}, NEW e \in Nat \cup {-1}, b # -1 \/ e # -1
  PROVE  \E offset \in Nat, count \in Int : Numbers(b, e, size, offset, count)
<1>1. CASE b = -1
  <2>1. PICK offset \in Nat, count \in Int : offset = (IF size - e < 0 THEN 0 ELSE size - e) /\ count = e
    BY <1>1
  <2>2. FirstOf(b, e, size) = size - e /\ LastOf(b, e, size) = size - 1
    BY <1>1 DEF FirstOf, LastOf
  <2>3. count = LastOf(b, e, size) - FirstOf(b, e, size) + 1
    BY <1>1, <2>1, <2>2
  <2>4. \A k \in 0 .. size - 1 : (offset <= k /\ k < offset + count) <=> Asks(b, e, size, k)
    BY <1>1, <2>1 DEF Asks
  <2>5. LiesWithin(b, e, size) => count >= 0 /\ offset + count <= size
    BY <1>1, <2>1 DEF LiesWithin
  <2>6. Numbers(b, e, size, offset, count)
    BY <2>1, <2>2, <2>3, <2>4, <2>5 DEF Numbers
  <2>7. QED
    BY <2>6
<1>2. CASE b # -1 /\ e = -1
  <2>1. PICK offset \in Nat, count \in Int : offset = b /\ count = size - b
    BY <1>2
  <2>2. FirstOf(b, e, size) = b /\ LastOf(b, e, size) = size - 1
    BY <1>2 DEF FirstOf, LastOf
  <2>3. count = LastOf(b, e, size) - FirstOf(b, e, size) + 1 /\ ~(b < 0)
    BY <1>2, <2>1, <2>2
  <2>4. \A k \in 0 .. size - 1 : (offset <= k /\ k < offset + count) <=> Asks(b, e, size, k)
    BY <1>2, <2>1 DEF Asks
  <2>5. LiesWithin(b, e, size) => count >= 0 /\ offset + count <= size
    BY <1>2, <2>1 DEF LiesWithin
  <2>6. Numbers(b, e, size, offset, count)
    BY <2>1, <2>2, <2>3, <2>4, <2>5 DEF Numbers
  <2>7. QED
    BY <2>6
<1>3. CASE b # -1 /\ e # -1
  <2>1. PICK offset \in Nat, count \in Int : offset = b /\ count = e - b + 1
    BY <1>3
  <2>2. FirstOf(b, e, size) = b /\ LastOf(b, e, size) = e
    BY <1>3 DEF FirstOf, LastOf
  <2>3. count = LastOf(b, e, size) - FirstOf(b, e, size) + 1 /\ ~(b < 0)
    BY <1>3, <2>1, <2>2
  <2>4. \A k \in 0 .. size - 1 : (offset <= k /\ k < offset + count) <=> Asks(b, e, size, k)
    BY <1>3, <2>1 DEF Asks
  <2>5. LiesWithin(b, e, size) => count >= 0 /\ offset + count <= size
    BY <1>3, <2>1 DEF LiesWithin
  <2>6. Numbers(b, e, size, offset, count)
    BY <2>1, <2>2, <2>3, <2>4, <2>5 DEF Numbers
  <2>7. QED
    BY <2>6
<1>4. QED
  BY <1>1, <1>2, <1>3

(* All bytes of a file.                                                    *)
LEMMA WholeNumbers ==
  ASSUME NEW size \in Nat
  PROVE  /\ 0 .. size - 1 = {k \in 0 .. size - 1 : 0 <= k /\ k < 0 + size}
         /\ size >= 0 /\ 0 + size <= size /\ size \in Int /\ 0 \in Nat
OBVIOUS

\* What is asked of the file p begins at offset, and is so many bytes long.
SliceAt(file, p, range, offset, count) ==
    /\ file = [path |-> p, offset |-> offset, count |-> count]
    /\ AskedBytes(Files[p].size, range) = {k \in 0 .. Files[p].size - 1 : offset <= k /\ k < offset + count}
    /\ InFile(Files[p].size, range) => count >= 0 /\ offset + count <= Files[p].size

(* A slice of that place and length is the one that was asked for.         *)
LEMMA SliceIsThere ==
  ASSUME NEW p \in DOMAIN Files, NEW range, NEW file, NEW offset \in Nat, NEW count \in Int,
         SliceAt(file, p, range, offset, count)
  PROVE  file # NoFile /\ Slice(file, range)
<1>1. file.path = p /\ file.offset = offset /\ file.count = count
  BY DEF SliceAt
<1>2. NoFile.path = "" /\ p # ""
  BY HttpAssumption DEF NoFile
<1>3. file # NoFile
  BY <1>1, <1>2, Zenon
<1>4. Files[p].size \in Nat
  BY HttpAssumption
<1>5. Slice(file, range)
  BY <1>1, <1>4, Zenon DEF Slice, SliceAt
<1>6. QED
  BY <1>3, <1>5

(* Without a range that is the whole file.                                 *)
LEMMA WholeSlice ==
  ASSUME NEW p, NEW size \in Nat
  PROVE  FileSlice(p, size, "") = [path |-> p, offset |-> 0, count |-> size]
<1> DEFINE asked == IF "" = "" THEN [beg |-> 0, end |-> size - 1] ELSE Ranges[""]
           beg == IF asked.beg = -1 THEN size - asked.end ELSE asked.beg
           end == IF asked.beg = -1 \/ asked.end = -1 THEN size - 1 ELSE asked.end
<1>1. FileSlice(p, size, "") = [path |-> p, offset |-> IF beg < 0 THEN 0 ELSE beg, count |-> end - beg + 1]
  BY Zenon DEF FileSlice
<1>2. asked.beg = 0 /\ asked.end = size - 1
  OBVIOUS
<1> HIDE DEF asked
<1>3. beg = 0 /\ end = size - 1
  BY <1>2
<1> HIDE DEF beg, end
<1>4. (IF beg < 0 THEN 0 ELSE beg) = 0 /\ end - beg + 1 = size
  BY <1>3
<1>5. QED
  BY <1>1, <1>4

(* sendFile is told to send the bytes that were asked for.                 *)
LEMMA SliceIsAsked ==
  ASSUME NEW p \in DOMAIN Files, NEW range, range = "" \/ range \in DOMAIN Ranges,
         NEW file, file = FileSlice(p, Files[p].size, range)
  PROVE  file # NoFile /\ Slice(file, range)
<1>1. PICK size \in Nat : size = Files[p].size
  BY HttpAssumption
<1>2. CASE range = ""
  <2>1. file = FileSlice(p, size, "")
    BY <1>1, <1>2, Zenon
  <2>3. file = [path |-> p, offset |-> 0, count |-> size]
    BY <1>1, <2>1, WholeSlice
  <2>4. AskedBytes(size, range) = {k \in 0 .. size - 1 : TRUE}
    BY <1>2, Zenon DEF AskedBytes
  <2>5. AskedBytes(size, range) = {k \in 0 .. size - 1 : 0 <= k /\ k < 0 + size}
    BY <1>1, <2>4, WholeNumbers
  <2>6. size >= 0 /\ 0 + size <= size /\ size \in Int /\ 0 \in Nat
    BY <1>1, WholeNumbers
  <2>7. SliceAt(file, p, range, 0, size)
    BY <1>1, <2>3, <2>5, <2>6, Zenon DEF SliceAt
  <2>8. QED
    BY <2>6, <2>7, SliceIsThere, Zenon
<1>3. CASE range # ""
  <2>1. range \in DOMAIN Ranges
    BY <1>3
  <2>2. PICK b, e : b = Ranges[range].beg /\ e = Ranges[range].end
    OBVIOUS
  <2>3. b \in Nat \cup {-1} /\ e \in Nat \cup {-1} /\ (b # -1 \/ e # -1)
    BY <2>1, <2>2, HttpAssumption
  <2>4. file = [path |-> p, offset |-> IF FirstOf(b, e, size) < 0 THEN 0 ELSE FirstOf(b, e, size),
                count |-> LastOf(b, e, size) - FirstOf(b, e, size) + 1]
    BY <1>1, <1>3, <2>2, Zenon DEF FileSlice, FirstOf, LastOf
  <2>5. AskedBytes(size, range) = {k \in 0 .. size - 1 : Asks(b, e, size, k)}
    BY <1>3, <2>2, Zenon DEF AskedBytes, Asks
  <2>6. InFile(size, range) => LiesWithin(b, e, size)
    BY <1>3, <2>2, Zenon DEF InFile, LiesWithin
  <2>7. PICK offset \in Nat, count \in Int : Numbers(b, e, size, offset, count)
    BY <1>1, <2>3, RangeNumbers
  <2>8. file = [path |-> p, offset |-> offset, count |-> count]
    BY <2>4, <2>7, Zenon DEF Numbers
  <2>9. AskedBytes(size, range) = {k \in 0 .. size - 1 : offset <= k /\ k < offset + count}
    BY <2>5, <2>7 DEF Numbers
  <2>10. InFile(size, range) => count >= 0 /\ offset + count <= size
    BY <2>6, <2>7, Zenon DEF Numbers
  <2>11. SliceAt(file, p, range, offset, count)
    BY <1>1, <2>8, <2>9, <2>10, Zenon DEF SliceAt
  <2>12. QED
    BY <2>7, <2>11, SliceIsThere, Zenon
<1>4. QED
  BY <1>2, <1>3

\* The first m bytes of what lies from one place on, and what they are of it.
LEMMA BytesFromTheFront ==
  ASSUME NEW size \in Nat, NEW offset \in Nat, NEW count \in Int, NEW asked,
         asked = {k \in 0 .. size - 1 : offset <= k /\ k < offset + count},
         NEW m \in Nat, NEW at \in Nat, NEW bytes, bytes = at .. at + m - 1,
         m # 0 => at = offset /\ offset + m <= size /\ m <= count
  PROVE  /\ bytes \subseteq asked /\ (bytes # {} => \A k \in asked : k >= at)
         /\ m = count \/ count < 0 \/ (m < count /\ offset + m >= size) => bytes = asked
<1>1. CASE m = 0
  <2>1. bytes = {}
    BY <1>1
  <2>2. count = 0 \/ count < 0 \/ offset >= size => asked = {}
    OBVIOUS
  <2>3. m = count \/ count < 0 \/ (m < count /\ offset + m >= size) => asked = {}
    BY <1>1, <2>2
  <2>4. QED
    BY <2>1, <2>3, Zenon
<1>2. CASE m # 0
  <2>1. at = offset /\ offset + m <= size /\ m <= count /\ m > 0
    BY <1>2
  <2>2. bytes \subseteq asked
    BY <2>1
  <2>3. \A k \in asked : k >= at
    BY <2>1
  <2>4. ASSUME m = count \/ count < 0 \/ (m < count /\ offset + m >= size)
        PROVE  asked \subseteq bytes
    BY <2>1, <2>4
  <2>5. QED
    BY <2>2, <2>3, <2>4, Zenon
<1>3. QED
  BY <1>1, <1>2

(* A response with a file is followed by its bytes.                        *)
LEMMA FileIsFramed ==
  ASSUME NEW r, r.file # NoFile, NEW left, WithFile(r, left)
  PROVE  FollowedRightly(r, left # 0)
<1> DEFINE range == GetHeader(r.seen, "Range")
           bytes == SentBytes(r.after)
<1>1. PICK size, offset, count : size = Files[r.file.path].size /\ offset = r.file.offset /\ count = r.file.count
  OBVIOUS
<1>2. PICK asked : asked = AskedBytes(size, range)
  OBVIOUS
<1>3. /\ size \in Nat /\ offset \in Nat /\ count \in Int
      /\ asked = {k \in 0 .. size - 1 : offset <= k /\ k < offset + count}
      /\ InFile(size, range) => count >= 0 /\ offset + count <= size
  BY <1>1, <1>2, Zenon DEF WithFile, Slice
<1>4. r.body = 0 /\ left \in Int /\ (left # 0 => r.cut = "no")
  BY DEF WithFile
<1>5. PICK m \in Nat : /\ Followed(r, m) /\ (r.cut = "unopened" => m = 0)
                       /\ r.cut # "unopened" =>
                             /\ r.lengths = {count} /\ (m # 0 => m <= count)
                             /\ left > 0 => m = count - left
                             /\ left = 0 /\ r.cut = "no" => m = count
                             /\ r.cut = "end" => count < 0 \/ (m < count /\ offset + m >= size)
  <2>1. CASE r.cut = "unopened"
    <3>1. Followed(r, 0)
      BY <2>1, Zenon DEF WithFile
    <3>2. 0 \in Nat
      OBVIOUS
    <3>3. QED
      BY <2>1, <3>1, <3>2
  <2>2. CASE r.cut # "unopened"
    BY <1>1, <2>2, Zenon DEF WithFile, Opened
  <2>3. QED
    BY <2>1, <2>2
<1>6. PICK at : at = r.after.offset
  OBVIOUS
<1>7. /\ r.after.count = m /\ at \in Nat
      /\ m # 0 => r.after.path = r.file.path /\ at = offset /\ offset + m <= size
  BY <1>1, <1>5, <1>6, Zenon DEF Followed
<1>8. bytes = at .. at + m - 1
  BY <1>6, <1>7, Zenon DEF SentBytes
<1>9. m # 0 => r.cut # "unopened" /\ m <= count
  BY <1>5, Zenon
<1> HIDE DEF bytes
<1>10. /\ bytes \subseteq asked /\ (bytes # {} => \A k \in asked : k >= at)
       /\ m = count \/ count < 0 \/ (m < count /\ offset + m >= size) => bytes = asked
  BY <1>3, <1>7, <1>8, <1>9, BytesFromTheFront
<1>11. ~(left # 0) /\ r.cut \in {"no", "end"} => bytes = asked
  <2>1. CASE r.cut = "unopened"
    BY <2>1
  <2>2. CASE r.cut # "unopened"
    BY <1>5, <1>10, <2>2
  <2>3. QED
    BY <2>1, <2>2
<1>12. ~(left # 0) /\ r.cut = "no" => m = count
  BY <1>5
<1>13. r.cut = "end" => ~InFile(size, range)
  <2>1. SUFFICES ASSUME r.cut = "end", InFile(size, range)
                 PROVE  FALSE
    OBVIOUS
  <2>2. count >= 0 /\ offset + count <= size
    BY <1>3, <2>1
  <2>3. count < 0 \/ (m < count /\ offset + m >= size)
    BY <1>5, <2>1
  <2>4. QED
    BY <1>3, <2>2, <2>3
<1>14. /\ r.cut # "unopened" => r.lengths = {r.file.count} /\ (r.after.count = 0 \/ r.after.count <= r.file.count)
       /\ r.after.count # 0 => r.after.path = r.file.path /\ r.cut # "unopened"
  BY <1>1, <1>5, <1>7, <1>9, Zenon
<1>15. QED
  BY <1>1, <1>2, <1>4, <1>6, <1>7, <1>10, <1>11, <1>12, <1>13, <1>14, Zenon DEF FollowedRightly, bytes

(* So is a response with or without one.                                   *)
LEMMA KeptIsFramed ==
  ASSUME NEW r, NEW left, KeptAs(r, left)
  PROVE  FollowedRightly(r, left # 0)
<1>1. CASE r.file = NoFile
  BY <1>1, Zenon DEF KeptAs, Plain, FollowedRightly
<1>2. CASE r.file # NoFile
  <2>1. WithFile(r, left)
    BY <1>2, Zenon DEF KeptAs
  <2>2. QED
    BY <1>2, <2>1, FileIsFramed
<1>3. QED
  BY <1>1, <1>2

(* A number from one on.                                                   *)
LEMMA Between ==
  ASSUME NEW left \in Int, NEW n \in 1 .. left
  PROVE  left > 0 /\ n \in Nat /\ n # 0 /\ n <= left
OBVIOUS

(* More of the file follows.                                               *)
LEMMA FileGoesOn ==
  ASSUME NEW r, DOMAIN r = ResponseFields, r.file # NoFile, NEW left, WithFile(r, left),
         left > 0, NEW n \in Nat, n # 0, n <= left, NEW position, position = r.file.offset + (r.file.count - left),
         position + n <= Files[r.file.path].size,
         NEW q, q = [r EXCEPT !.after = [path |-> r.file.path,
                                         offset |-> IF r.after.count = 0 THEN position ELSE r.after.offset,
                                         count |-> r.after.count + n]]
  PROVE  WithFile(q, left - n)
<1>1. PICK size, offset, count : size = Files[r.file.path].size /\ offset = r.file.offset /\ count = r.file.count
  OBVIOUS
<1>2. size \in Nat /\ offset \in Nat /\ count \in Int
  BY <1>1, Zenon DEF WithFile, Slice
<1>3. left \in Int /\ left > 0 /\ n \in Nat /\ n # 0 /\ n <= left
  BY Zenon DEF WithFile
<1>4. r.cut = "no" /\ Opened(r, left)
  <2>0. left # 0
    BY <1>3
  <2>1. r.cut = "no"
    BY <2>0, Zenon DEF WithFile
  <2>2. QED
    BY <2>1 DEF WithFile
<1>5. PICK m \in Nat : Followed(r, m) /\ m = count - left
  BY <1>1, <1>3, <1>4 DEF Opened
<1>6. r.after.count = m /\ r.after.offset \in Nat /\ (m # 0 => r.after.offset = offset)
  BY <1>1, <1>5, Zenon DEF Followed
<1>7. position = offset + m /\ offset + (m + n) <= size
  BY <1>1, <1>2, <1>3, <1>5
<1>8. (IF r.after.count = 0 THEN position ELSE r.after.offset) = offset
  <2>1. CASE m = 0
    BY <1>2, <1>6, <1>7, <2>1
  <2>2. CASE m # 0
    BY <1>6, <2>2
  <2>3. QED
    BY <2>1, <2>2
<1>9. /\ q.after = [path |-> r.file.path, offset |-> offset, count |-> m + n]
      /\ q.file = r.file /\ q.body = r.body /\ q.seen = r.seen /\ q.cut = r.cut /\ q.lengths = r.lengths
  <2>1. PICK v : v = [path |-> r.file.path,
                      offset |-> IF r.after.count = 0 THEN position ELSE r.after.offset,
                      count |-> r.after.count + n]
    OBVIOUS
  <2>2. v = [path |-> r.file.path, offset |-> offset, count |-> m + n]
    BY <1>6, <1>8, <2>1, Zenon
  <2>3. q = [r EXCEPT !.after = v]
    BY <2>1, Zenon
  <2>4. QED
    BY <2>2, <2>3 DEF ResponseFields
<1>10. Followed(q, m + n)
  <2>1. m + n \in Nat
    BY <1>3, <1>5
  <2>2. q.after.path = r.file.path /\ q.after.offset = offset /\ q.after.count = m + n
    BY <1>9
  <2>3. QED
    BY <1>1, <1>2, <1>7, <1>9, <2>1, <2>2, Zenon DEF Followed
<1>11. m + n \in Nat /\ m + n <= count /\ m + n = count - (left - n) /\ left - n \in Int /\ ~(left - n < 0)
  BY <1>2, <1>3, <1>5
<1>12. q.lengths = {q.file.count} /\ q.cut = "no" /\ count = q.file.count
  BY <1>1, <1>4, <1>9, Zenon DEF Opened
<1>13. left - n = 0 => m + n = count
  BY <1>2, <1>11
<1>14. Opened(q, left - n)
  <2>1. q.cut # "end"
    BY <1>12
  <2>2. QED
    BY <1>10, <1>11, <1>12, <1>13, <2>1, Zenon DEF Opened
<1>15. q.cut # "unopened"
  BY <1>12
<1>16. q.file # NoFile /\ q.body = 0 /\ Slice(q.file, GetHeader(q.seen, "Range"))
  BY <1>9, Zenon DEF WithFile
<1>17. QED
  BY <1>11, <1>12, <1>14, <1>15, <1>16, Zenon DEF WithFile

(* The rest of the file does not follow.                                   *)
LEMMA FileIsCut ==
  ASSUME NEW r, DOMAIN r = ResponseFields, r.file # NoFile, NEW left, WithFile(r, left), left # 0,
         NEW why, why \in {"end", "error"},
         why = "end" => left < 0 \/ r.file.offset + (r.file.count - left) >= Files[r.file.path].size,
         NEW q, q = [r EXCEPT !.cut = why]
  PROVE  WithFile(q, 0)
<1>1. PICK size, offset, count : size = Files[r.file.path].size /\ offset = r.file.offset /\ count = r.file.count
  OBVIOUS
<1>2. size \in Nat /\ offset \in Nat /\ count \in Int /\ left \in Int
  BY <1>1, Zenon DEF WithFile, Slice
<1>3. r.cut = "no" /\ Opened(r, left)
  <2>1. r.cut = "no"
    BY Zenon DEF WithFile
  <2>2. QED
    BY <2>1 DEF WithFile
<1>4. PICK m \in Nat : /\ Followed(r, m) /\ (m # 0 => m <= count)
                       /\ left > 0 => m = count - left
                       /\ left < 0 => m = 0 /\ count = left
  BY <1>1, <1>3, Zenon DEF Opened
<1>5. /\ q.after = r.after /\ q.cut = why
      /\ q.file = r.file /\ q.body = r.body /\ q.seen = r.seen /\ q.lengths = r.lengths
  BY DEF ResponseFields
<1>6. Followed(q, m)
  BY <1>4, <1>5, Zenon DEF Followed
<1>7. why = "end" => count < 0 \/ (m < count /\ offset + m >= size)
  <2>1. CASE left < 0
    BY <1>4, <2>1
  <2>2. CASE left > 0
    BY <1>1, <1>2, <1>4, <2>2
  <2>3. QED
    BY <1>2, <2>1, <2>2
<1>8. q.lengths = {q.file.count}
  BY <1>3, <1>5, Zenon DEF Opened
<1>9. q.cut # "no" /\ q.cut # "unopened" /\ (q.cut = "end" => why = "end")
  BY <1>5
<1>10. ~(0 > 0) /\ ~(0 < 0) /\ 0 \in Int
  OBVIOUS
<1>11. Opened(q, 0)
  BY <1>1, <1>4, <1>5, <1>6, <1>7, <1>8, <1>9, <1>10, Zenon DEF Opened
<1>12. q.file # NoFile /\ q.body = 0 /\ Slice(q.file, GetHeader(q.seen, "Range"))
  BY <1>5, Zenon DEF WithFile
<1>13. QED
  BY <1>9, <1>10, <1>11, <1>12, Zenon DEF WithFile

\* A response as a server makes it, before it is told to the connection.
Untold(r) ==
    /\ DOMAIN r = ResponseFields /\ r.after = NoFile
    /\ IF r.file = NoFile THEN r.cut = "no" /\ r.lengths = {}
       ELSE /\ r.body = 0 /\ r.lengths = {r.file.count} /\ r.cut \in {"no", "unopened"}
            /\ Slice(r.file, GetHeader(request, "Range"))

\* What of its file is to be sent when it is told.
ToSend(r) == IF NeedSendFile(r) THEN r.file.count ELSE 0

(* It is well framed when it is told.                                      *)
LEMMA ToldWell ==
  ASSUME NEW response, Untold(response), NEW onto,
         NEW e, e = [[AppendToBuffer(response) EXCEPT !.seen = request] EXCEPT !.onto = onto]
  PROVE  KeptAs(e, ToSend(response)) /\ ToSend(response) \in Int
<1>1. /\ e.seen = request /\ e.file = response.file /\ e.cut = response.cut /\ e.close = response.close
      /\ e.after = response.after /\ e.body = response.body
      /\ e.lengths = AppendToBuffer(response).lengths
  BY ToldAs DEF Untold
<1>2. e.after.count = 0 /\ e.after.offset \in Nat
  <2>1. e.after = NoFile
    BY <1>1, Zenon DEF Untold
  <2>2. NoFile.count = 0 /\ NoFile.offset = 0 /\ 0 \in Nat
    BY DEF NoFile
  <2>3. QED
    BY <2>1, <2>2, Zenon
<1>3. CASE response.file = NoFile
  <2>1. ToSend(response) = 0 /\ ~NeedSendFile(response)
    BY <1>3, Zenon DEF ToSend, NeedSendFile
  <2>2. e.lengths = IF response.close THEN {} ELSE {} \cup {response.body}
    <3>1. CASE response.close
      BY <1>1, <1>3, <3>1, Zenon DEF AppendToBuffer, Untold
    <3>2. CASE ~response.close
      <4>1. AppendToBuffer(response) = [response EXCEPT !.lengths = @ \cup {response.body}]
        BY <2>1, <3>2, Zenon DEF AppendToBuffer
      <4>2. response.lengths = {} /\ DOMAIN response = ResponseFields
        BY <1>3, Zenon DEF Untold
      <4>3. AppendToBuffer(response).lengths = {} \cup {response.body}
        BY <4>1, <4>2 DEF ResponseFields
      <4>4. QED
        BY <1>1, <3>2, <4>3, Zenon
    <3>3. QED
      BY <3>1, <3>2
  <2>3. e.lengths = {e.body} \/ (e.lengths = {} /\ e.close)
    <3>1. {} \cup {response.body} = {response.body}
      OBVIOUS
    <3>2. QED
      BY <1>1, <2>2, <3>1, Zenon
  <2>4. Plain(e)
    BY <1>1, <1>3, <2>3, Zenon DEF Plain, Untold
  <2>5. 0 \in Int
    OBVIOUS
  <2>6. QED
    BY <1>1, <1>3, <2>1, <2>4, <2>5, Zenon DEF KeptAs
<1>4. CASE response.file # NoFile
  <2>1. /\ e.file # NoFile /\ e.body = 0 /\ Slice(e.file, GetHeader(e.seen, "Range"))
    BY <1>1, <1>4, Zenon DEF Untold
  <2>2. Followed(e, 0)
    <3>1. 0 \in Nat
      OBVIOUS
    <3>2. QED
      BY <1>2, <3>1, Zenon DEF Followed
  <2>3. response.cut \in {"no", "unopened"} /\ response.lengths = {response.file.count}
    BY <1>4, Zenon DEF Untold
  <2>4. CASE response.cut = "unopened"
    <3>1. ToSend(response) = 0
      BY <2>4, Zenon DEF ToSend, NeedSendFile
    <3>2. 0 \in Int /\ e.cut = "unopened"
      BY <1>1, <2>4
    <3>3. WithFile(e, 0)
      BY <2>1, <2>2, <3>2, Zenon DEF WithFile
    <3>4. QED
      BY <2>1, <3>1, <3>2, <3>3, Zenon DEF KeptAs
  <2>5. CASE response.cut = "no"
    <3>1. NeedSendFile(response) /\ ToSend(response) = response.file.count
      BY <1>4, <2>5 DEF ToSend, NeedSendFile
    <3>2. e.lengths = {e.file.count}
      BY <1>1, <2>3, <3>1, Zenon DEF AppendToBuffer
    <3>3. PICK count \in Int : count = e.file.count /\ ToSend(response) = count
      BY <1>1, <2>1, <3>1, Zenon DEF Slice
    <3>4. e.cut = "no" /\ e.cut # "end" /\ e.cut # "unopened"
      BY <1>1, <2>5
    <3>5. /\ 0 \in Nat /\ (count > 0 => 0 = count - count) /\ (count = 0 => 0 = count)
      BY <3>3
    <3>6. Opened(e, count)
      BY <2>2, <3>2, <3>3, <3>4, <3>5, Zenon DEF Opened
    <3>7. WithFile(e, count)
      BY <2>1, <3>3, <3>4, <3>6, Zenon DEF WithFile
    <3>8. QED
      BY <2>1, <3>3, <3>7, Zenon DEF KeptAs
  <2>6. QED
    BY <2>3, <2>4, <2>5
<1>5. QED
  BY <1>3, <1>4

-----------------------------------------------------------------------------
(* The steps.                                                              *)

(* What an unfinished file keeps of the others.                            *)
LEMMA OthersAreDone ==
  ASSUME FilesInv, NEW i \in 1 .. Len(out), Undisturbed(i), Len(out) \in Nat, LeftOf(i) # 0
  PROVE  i = sending.of /\ i = Len(out) /\ sending.left # 0 /\ LeftOf(i) = sending.left
<1>1. i = sending.of /\ sending.left # 0 /\ LeftOf(i) = sending.left
  BY Zenon DEF LeftOf
<1>2. OneGoesOut
  BY <1>1, Zenon DEF FilesInv
<1>3. ASSUME i # Len(out)
      PROVE  FALSE
  <2>1. i < Len(out) /\ i + 1 \in sending.of + 1 .. Len(out)
    BY <1>1, <1>3
  <2>2. out[i + 1].onto
    BY <1>2, <2>1, Zenon DEF OneGoesOut
  <2>3. QED
    BY <2>1, <2>2, Zenon DEF Undisturbed
<1>4. QED
  BY <1>1, <1>3

(* One more response is handed to the connection, with a file or without.  *)
LEMMA OneMoreSent ==
  ASSUME FilesInv, IsSequence(out), NEW e, out' = Append(out, e), e.onto = (sending.left # 0),
         NEW left \in Int, KeptAs(e, left),
         (sending' = sending /\ left = 0) \/ sending' = Sending(Len(out) + 1, left)
  PROVE  FilesInv'
<1>1. PICK n \in Nat : n = Len(out)
  BY LenProperties DEF IsSequence
<1>2. /\ Len(out') = n + 1 /\ out'[n + 1] = e
      /\ \A i \in 1 .. n : out'[i] = out[i]
  BY <1>1, OneMore DEF OneLonger
<1>3. CASE sending' = sending /\ left = 0
  <2>1. sending'.of = sending.of /\ sending'.left = sending.left
    BY <1>3
  <2>2. sending'.left # 0 => OneGoesOut'
    <3>1. SUFFICES ASSUME sending'.left # 0
                   PROVE  OneGoesOut'
      OBVIOUS
    <3>2. OneGoesOut /\ e.onto
      BY <2>1, <3>1 DEF FilesInv
    <3>3. sending.of \in 1 .. n /\ sending.left \in Int /\ \A j \in sending.of + 1 .. n : out[j].onto
      BY <1>1, <3>2 DEF OneGoesOut
    <3>4. ASSUME NEW j \in sending.of + 1 .. n + 1
          PROVE  out'[j].onto
      <4>1. j = n + 1 \/ (j \in sending.of + 1 .. n /\ j \in 1 .. n)
        BY <3>3
      <4>2. QED
        BY <1>2, <3>2, <3>3, <4>1, Zenon
    <3>5. sending'.of \in 1 .. n + 1
      BY <2>1, <3>3
    <3>6. QED
      BY <1>2, <2>1, <3>3, <3>4, <3>5, Zenon DEF OneGoesOut
  <2>3. ASSUME NEW i \in 1 .. n + 1, Undisturbed(i)'
        PROVE  KeptAs(out'[i], LeftOf(i)')
    <3>1. CASE i = n + 1
      <4>1. ~e.onto
        BY <1>2, <2>3, <3>1, Zenon DEF Undisturbed
      <4>2. LeftOf(i)' = 0
        BY <2>1, <4>1, Zenon DEF LeftOf
      <4>3. QED
        BY <1>2, <1>3, <3>1, <4>2, Zenon
    <3>2. CASE i \in 1 .. n
      <4>1. Undisturbed(i)
        <5>1. i < n => i + 1 \in 1 .. n /\ i < n + 1
          BY <3>2
        <5>2. QED
          BY <1>1, <1>2, <2>3, <3>2, <5>1, Zenon DEF Undisturbed
      <4>2. LeftOf(i)' = LeftOf(i)
        BY <2>1, Zenon DEF LeftOf
      <4>3. KeptAs(out[i], LeftOf(i))
        BY <1>1, <3>2, <4>1, Zenon DEF FilesInv
      <4>4. QED
        BY <1>2, <3>2, <4>2, <4>3, Zenon
    <3>3. QED
      BY <1>1, <2>3, <3>1, <3>2
  <2>4. QED
    BY <1>2, <2>2, <2>3, Zenon DEF FilesInv
<1>4. CASE sending' = Sending(n + 1, left)
  <2>1. sending'.left = left /\ (left # 0 => sending'.of = n + 1)
    BY <1>4 DEF Sending, NotSending
  <2>2. sending'.left # 0 => OneGoesOut'
    <3>1. n + 1 \in 1 .. n + 1 /\ n + 1 + 1 .. n + 1 = {}
      BY <1>1
    <3>2. QED
      BY <1>2, <2>1, <3>1 DEF OneGoesOut
  <2>3. ASSUME NEW i \in 1 .. n + 1, Undisturbed(i)'
        PROVE  KeptAs(out'[i], LeftOf(i)')
    <3>1. CASE i = n + 1
      <4>1. LeftOf(i)' = left
        BY <2>1, <3>1, Zenon DEF LeftOf
      <4>2. QED
        BY <1>2, <3>1, <4>1, Zenon
    <3>2. CASE i \in 1 .. n
      <4>1. Undisturbed(i) /\ (i = n => ~e.onto)
        <5>1. (i < n => i + 1 \in 1 .. n) /\ i < n + 1
          BY <3>2
        <5>2. QED
          BY <1>1, <1>2, <2>3, <3>2, <5>1, Zenon DEF Undisturbed
      <4>2. LeftOf(i) = 0
        <5>1. SUFFICES ASSUME LeftOf(i) # 0
                       PROVE  FALSE
          OBVIOUS
        <5>2. i = n /\ sending.left # 0
          BY <1>1, <3>2, <4>1, <5>1, OthersAreDone
        <5>3. QED
          BY <4>1, <5>2
      <4>3. LeftOf(i)' = 0
        <5>1. i # n + 1
          BY <1>1, <3>2
        <5>2. QED
          BY <2>1, <5>1, Zenon DEF LeftOf
      <4>4. KeptAs(out[i], LeftOf(i))
        BY <1>1, <3>2, <4>1, Zenon DEF FilesInv
      <4>5. QED
        BY <1>2, <3>2, <4>2, <4>3, <4>4, Zenon
    <3>3. QED
      BY <1>1, <2>3, <3>1, <3>2
  <2>4. QED
    BY <1>2, <2>2, <2>3, Zenon DEF FilesInv
<1>5. QED
  BY <1>1, <1>3, <1>4

\* The i-th response is changed to q, but not that a file was going out before it.
Becomes(i, q) ==
    /\ Len(out') = Len(out) /\ out'[i] = q /\ q.onto = out[i].onto
    /\ \A j \in 1 .. Len(out) : j # i => out'[j] = out[j]

(* What is recorded of a file.                                             *)
LEMMA OneBecomes ==
  ASSUME SentTypes, NEW i \in 1 .. Len(out), NEW v,
         NEW q, \/ out' = [out EXCEPT ![i].after = v] /\ q = [out[i] EXCEPT !.after = v]
                \/ out' = [out EXCEPT ![i].cut = v] /\ q = [out[i] EXCEPT !.cut = v]
  PROVE  Becomes(i, q)
<1>1. SameAnswers(out, out')
  BY SameWithField
<1>2. PICK n \in Nat : n = Len(out) /\ DOMAIN out = 1 .. n /\ DOMAIN out[i] = ResponseFields
  BY LenProperties DEF SentTypes, IsSequence
<1>3. q.onto = out[i].onto
  BY <1>2 DEF ResponseFields
<1>4. out' = [out EXCEPT ![i] = q]
  OBVIOUS
<1>5. out'[i] = q /\ \A j \in 1 .. n : j # i => out'[j] = out[j]
  BY <1>2, <1>4
<1>6. QED
  BY <1>1, <1>2, <1>3, <1>5, Zenon DEF SameAnswers, Becomes

(* The file that goes out goes on, or it ends.                             *)
LEMMA FileChanges ==
  ASSUME FilesInv, Len(out) \in Nat, sending.left # 0, NEW i \in 1 .. Len(out), NEW q, Becomes(i, q),
         NEW left \in Int, sending' = Sending(sending.of, left),
         i = sending.of \/ i = Len(out),
         i = sending.of /\ Undisturbed(i) => KeptAs(q, left)
  PROVE  FilesInv'
<1>1. PICK n, of : n = Len(out) /\ of = sending.of
  OBVIOUS
<1>2. OneGoesOut /\ n \in Nat /\ of \in 1 .. n
  BY <1>1, Zenon DEF FilesInv, OneGoesOut
<1>3. sending'.left = left /\ (left # 0 => sending'.of = of)
  BY <1>1 DEF Sending, NotSending
<1>4. Len(out') = n /\ \A j \in 1 .. n : out'[j].onto = out[j].onto
  BY <1>1, Zenon DEF Becomes
<1>5. sending'.left # 0 => OneGoesOut'
  <2>1. \A j \in of + 1 .. n : j \in 1 .. n /\ out[j].onto
    BY <1>1, <1>2 DEF OneGoesOut
  <2>2. QED
    BY <1>2, <1>3, <1>4, <2>1, Zenon DEF OneGoesOut
<1>6. ASSUME NEW j \in 1 .. n, Undisturbed(j)'
      PROVE  KeptAs(out'[j], LeftOf(j)')
  <2>1. Undisturbed(j)
    <3>1. j < n => j + 1 \in 1 .. n
      BY <1>2
    <3>2. QED
      BY <1>1, <1>4, <1>6, <3>1, Zenon DEF Undisturbed
  <2>2. j = of => j = n
    <3>1. j = of => LeftOf(j) # 0
      BY <1>1, Zenon DEF LeftOf
    <3>2. QED
      BY <1>1, <1>2, <2>1, <3>1, OthersAreDone
  <2>3. CASE j = of
    <3>1. i = j /\ i = of
      BY <1>1, <2>2, <2>3
    <3>2. LeftOf(j)' = left
      BY <1>3, <2>3, Zenon DEF LeftOf
    <3>3. out'[j] = q
      BY <3>1, Zenon DEF Becomes
    <3>4. QED
      BY <1>1, <2>1, <3>1, <3>2, <3>3, Zenon
  <2>4. CASE j # of
    <3>1. LeftOf(j)' = 0 /\ LeftOf(j) = 0
      BY <1>1, <1>3, <2>4, Zenon DEF LeftOf
    <3>2. j # i
      <4>1. SUFFICES ASSUME j = n
                     PROVE  FALSE
        BY <1>1, <2>4
      <4>2. j \in of + 1 .. n
        BY <1>2, <2>4, <4>1
      <4>3. out[j].onto
        BY <1>1, <1>2, <4>2, Zenon DEF OneGoesOut
      <4>4. QED
        BY <2>1, <4>3, Zenon DEF Undisturbed
    <3>3. out'[j] = out[j]
      BY <1>1, <3>2, Zenon DEF Becomes
    <3>4. KeptAs(out[j], LeftOf(j))
      BY <1>1, <2>1, Zenon DEF FilesInv
    <3>5. QED
      BY <3>1, <3>3, <3>4, Zenon
  <2>5. QED
    BY <2>3, <2>4
<1>7. QED
  BY <1>4, <1>5, <1>6, Zenon DEF FilesInv

(* A part of a file is sent.                                               *)
LEMMA SentOn ==
  ASSUME SentTypes, FilesInv, FileIsSent
  PROVE  FilesInv' /\ sending.left # 0
<1>1. PICK n \in 1 .. sending.left :
         /\ Position + n <= FileSize
         /\ sending' = Sending(sending.of, sending.left - n)
         /\ out' = [out EXCEPT ![Len(out)].after = Follows(@, n)]
  BY DEF FileIsSent
<1>2. Len(out) \in Nat
  BY LenProperties DEF SentTypes, IsSequence
<1>3. PICK left, of : left = sending.left /\ of = sending.of
  OBVIOUS
<1>4. sending.left # 0
  BY <1>1
<1>5. left \in Int /\ of \in 1 .. Len(out) /\ OneGoesOut
  BY <1>3, <1>4, Zenon DEF FilesInv, OneGoesOut
<1>6. left > 0 /\ left - n \in Int
  BY <1>1, <1>3, <1>5
<1>7. PICK i \in 1 .. Len(out) : i = Len(out)
  BY <1>2, <1>5
<1>8. PICK v : v = Follows(out[i].after, n)
  OBVIOUS
<1>9. PICK q : q = [out[i] EXCEPT !.after = v]
  OBVIOUS
<1>10. out' = [out EXCEPT ![i].after = v]
  BY <1>1, <1>7, <1>8
<1>11. Becomes(i, q)
  BY <1>9, <1>10, OneBecomes
<1>12. ASSUME i = of, Undisturbed(i)
       PROVE  KeptAs(q, left - n)
  <2>1. KeptAs(out[i], left)
    <3>1. LeftOf(i) = left
      BY <1>3, <1>12, Zenon DEF LeftOf
    <3>2. QED
      BY <1>12, <3>1, Zenon DEF FilesInv
  <2>2. out[i].file # NoFile /\ WithFile(out[i], left)
    <3>1. left # 0
      BY <1>6
    <3>2. QED
      BY <2>1, <3>1, Zenon DEF KeptAs
  <2>3. DOMAIN out[i] = ResponseFields
    BY DEF SentTypes
  <2>4. Position = out[i].file.offset + (out[i].file.count - left)
    <3>1. ~(left < 0)
      BY <1>5, <1>6
    <3>2. QED
      BY <1>3, <1>12, <3>1, Zenon DEF Position
  <2>5. v = [path |-> out[i].file.path,
             offset |-> IF out[i].after.count = 0 THEN Position ELSE out[i].after.offset,
             count |-> out[i].after.count + n]
    BY <1>3, <1>8, <1>12, Zenon DEF Follows
  <2>6. Position + n <= Files[out[i].file.path].size
    BY <1>1, <1>3, <1>12, Zenon DEF FileSize
  <2>7. PICK r, position : r = out[i] /\ position = Position
    OBVIOUS
  <2>8. left > 0 /\ n \in Nat /\ n # 0 /\ n <= left
    BY <1>1, <1>3, <1>5, Between
  <2>9. WithFile(q, left - n)
    BY <1>9, <2>2, <2>3, <2>4, <2>5, <2>6, <2>7, <2>8, FileGoesOn
  <2>10. q.file = out[i].file
    BY <1>9, <2>3 DEF ResponseFields
  <2>11. QED
    BY <2>2, <2>9, <2>10, Zenon DEF KeptAs
<1>13. sending' = Sending(sending.of, left - n)
  BY <1>1, <1>3
<1>14. FilesInv'
  <2>1. i = sending.of \/ i = Len(out)
    BY <1>7
  <2>2. i = sending.of /\ Undisturbed(i) => KeptAs(q, left - n)
    BY <1>3, <1>12
  <2>3. QED
    BY <1>2, <1>4, <1>6, <1>11, <1>13, <2>1, <2>2, FileChanges
<1>15. QED
  BY <1>4, <1>14

(* A file is given up.                                                     *)
LEMMA SentNoMore ==
  ASSUME SentTypes, FilesInv, FileIsGivenUp
  PROVE  FilesInv' /\ sending' = NotSending
<1>1. PICK why \in {"end", "error"} :
         /\ why = "end" => sending.left < 0 \/ Position >= FileSize
         /\ out' = [out EXCEPT ![sending.of].cut = why]
  BY DEF FileIsGivenUp
<1>2. sending.left # 0 /\ sending' = NotSending
  BY DEF FileIsGivenUp
<1>3. Len(out) \in Nat
  BY LenProperties DEF SentTypes, IsSequence
<1>4. PICK left : left = sending.left
  OBVIOUS
<1>5. left \in Int /\ sending.of \in 1 .. Len(out)
  BY <1>2, <1>4, Zenon DEF FilesInv, OneGoesOut
<1>6. PICK i \in 1 .. Len(out) : i = sending.of
  BY <1>5
<1>7. PICK q : q = [out[i] EXCEPT !.cut = why]
  OBVIOUS
<1>8. out' = [out EXCEPT ![i].cut = why]
  BY <1>1, <1>6
<1>9. Becomes(i, q)
  BY <1>7, <1>8, OneBecomes
<1>10. ASSUME Undisturbed(i)
       PROVE  KeptAs(q, 0)
  <2>1. KeptAs(out[i], left)
    <3>1. LeftOf(i) = left
      BY <1>4, <1>6, Zenon DEF LeftOf
    <3>2. QED
      BY <1>10, <3>1, Zenon DEF FilesInv
  <2>2. out[i].file # NoFile /\ WithFile(out[i], left)
    BY <1>2, <1>4, <2>1, Zenon DEF KeptAs
  <2>3. DOMAIN out[i] = ResponseFields
    BY DEF SentTypes
  <2>4. why = "end" => left < 0 \/ out[i].file.offset + (out[i].file.count - left) >= Files[out[i].file.path].size
    <3>1. CASE left < 0
      BY <3>1
    <3>2. CASE ~(left < 0)
      <4>1. Position = out[i].file.offset + (out[i].file.count - left)
        BY <1>4, <1>6, <3>2, Zenon DEF Position
      <4>2. QED
        BY <1>1, <1>4, <1>6, <4>1, Zenon DEF FileSize
    <3>3. QED
      BY <3>1, <3>2
  <2>5. PICK r : r = out[i]
    OBVIOUS
  <2>6. WithFile(r, left) /\ r.file # NoFile /\ DOMAIN r = ResponseFields
    BY <2>2, <2>3, <2>5
  <2>7. WithFile(q, 0)
    BY <1>1, <1>2, <1>4, <1>7, <2>4, <2>5, <2>6, FileIsCut
  <2>8. q.file = out[i].file
    BY <1>7, <2>3 DEF ResponseFields
  <2>9. QED
    BY <2>2, <2>7, <2>8, Zenon DEF KeptAs
<1>11. FilesInv'
  <2>1. sending' = Sending(sending.of, 0) /\ 0 \in Int
    BY <1>2 DEF Sending
  <2>2. i = sending.of /\ Undisturbed(i) => KeptAs(q, 0)
    BY <1>10
  <2>3. QED
    BY <1>2, <1>3, <1>6, <1>9, <2>1, <2>2, FileChanges
<1>12. QED
  BY <1>2, <1>11

(* A range that was asked for is one that FileSlice knows.                 *)
LEMMA RangeIsKnown ==
  ASSUME HttpInv, connState = "kConnected", state = "kGotAll",
         NEW range, range = GetHeader(request, "Range")
  PROVE  range = "" \/ range \in DOMAIN Ranges
<1>1. PICK k \in 1 .. Len(sent) : HeadSeenAs(request, sent[k])
  <2>1. CASE InStep
    <3>1. PICK k \in 1 .. Len(sent), p \in Nat : k = Current /\ Placed(p, k, Len(sent)) /\ Parsed(sent[k], p)
      BY <2>1, SomeIsOpen
    <3>2. SeenAs(request, sent[k])
      BY <3>1 DEF Parsed, AtLine, AtHeaders, AtBody, AtEnd
    <3>3. QED
      BY <3>2 DEF SeenAs
  <2>2. CASE OutOfStep
    BY <2>2 DEF OutOfStep
  <2>3. QED
    BY <2>1, <2>2 DEF HttpInv
<1>2. IsRequest(sent[k])
  BY LenProperties, HttpAssumption DEF HttpInv, SentTypes
<1>3. CASE "Range" \in DOMAIN request.headers
  BY <1>1, <1>2, <1>3 DEF HeadSeenAs, IsRequest, GetHeader
<1>4. CASE "Range" \notin DOMAIN request.headers
  BY <1>4 DEF GetHeader
<1>5. QED
  BY <1>3, <1>4

(* What the servers make of a request.                                     *)
LEMMA PlainAnswer ==
  ASSUME NEW close, NEW status, NEW body
  PROVE  Untold(Response(close, status, body))
BY DEF Response, Untold, ResponseFields

(* What a FileServer makes of one, with a file or without.                 *)
LEMMA FileAnswer ==
  ASSUME NEW close, NEW opened,
         GetHeader(request, "Range") = "" \/ GetHeader(request, "Range") \in DOMAIN Ranges
  PROVE  Untold(SetResponseBody(request, close, opened))
<1> DEFINE p == request.path
           range == GetHeader(request, "Range")
           slice == FileSlice(p, Files[p].size, range)
           plain == Response(close, IF range = "" THEN 200 ELSE 206, 0)
           whole == [plain EXCEPT !.file = slice, !.lengths = {slice.count},
                                  !.cut = IF opened THEN "no" ELSE "unopened"]
<1>1. \/ SetResponseBody(request, close, opened) \in {Response(close, 404, 2), Response(close, 200, 3)}
      \/ p \in DOMAIN Files /\ SetResponseBody(request, close, opened) = whole
  BY DEF SetResponseBody
<1>2. Untold(Response(close, 404, 2)) /\ Untold(Response(close, 200, 3))
  BY PlainAnswer
<1>3. ASSUME p \in DOMAIN Files
      PROVE  Untold(whole)
  <2>1. DOMAIN plain = ResponseFields /\ plain.after = NoFile /\ plain.body = 0
    BY DEF Response, ResponseFields
  <2>2. slice # NoFile /\ Slice(slice, range)
    BY <1>3, SliceIsAsked
  <2> HIDE DEF plain, slice, range
  <2>3. DOMAIN whole = ResponseFields
    BY <2>1
  <2>4. whole.after = NoFile /\ whole.body = 0 /\ whole.file = slice /\ whole.lengths = {slice.count}
    BY <2>1 DEF ResponseFields
  <2>5. whole.cut \in {"no", "unopened"}
    BY <2>1 DEF ResponseFields
  <2> HIDE DEF whole
  <2>6. QED
    BY <2>2, <2>3, <2>4, <2>5, Zenon DEF Untold, range
<1> HIDE DEF whole
<1>4. QED
  BY <1>1, <1>2, <1>3

(* A response that is told keeps the order of the files.                   *)
LEMMA AnswerIsFramed ==
  ASSUME SentTypes, FilesInv, connState = "kConnected", NEW response, Untold(response), Answer(response)
  PROVE  /\ FilesInv'
         /\ \E e : out' = Append(out, e) /\ e.onto = (sending.left # 0)
         /\ sending' = sending \/ sending'.left = 0 \/ sending'.of = Len(out) + 1
<1> DEFINE told == [AppendToBuffer(response) EXCEPT !.seen = request]
           e == [told EXCEPT !.onto = sending.left # 0]
<1>1. DOMAIN e = ResponseFields /\ e.onto = (sending.left # 0) /\ e.file = response.file /\ e.cut = response.cut
  BY ToldAs DEF Untold
<1>2. KeptAs(e, ToSend(response)) /\ ToSend(response) \in Int
  BY ToldWell
<1>3. out' = Append(out, e) /\ sending' = IF NeedSendFile(told) THEN Sending(Len(out) + 1, told.file.count) ELSE sending
  BY DEF Answer, Send, SendFile
<1>4. told.file = response.file /\ told.cut = response.cut
  <2> HIDE DEF told
  <2>1. DOMAIN told = ResponseFields /\ told.file = e.file /\ told.cut = e.cut
    BY <1>1 DEF ResponseFields
  <2>2. QED
    BY <1>1, <2>1
<1> HIDE DEF told, e
<1>5. (sending' = sending /\ ToSend(response) = 0) \/ sending' = Sending(Len(out) + 1, ToSend(response))
  BY <1>3, <1>4, Zenon DEF NeedSendFile, ToSend
<1>6. FilesInv'
  BY <1>1, <1>2, <1>3, <1>5, OneMoreSent DEF SentTypes
<1>7. sending' = sending \/ sending'.left = 0 \/ sending'.of = Len(out) + 1
  BY <1>5 DEF Sending, NotSending
<1>8. QED
  BY <1>1, <1>3, <1>6, <1>7

(* An answer to a peer that waits comes when no file goes out.             *)
LEMMA WindowAnswer ==
  ASSUME SentTypes, FilesInv, WindowInv, AnswersInOrder', UNCHANGED <<sent, got, window>>,
         NEW e, out' = Append(out, e), e.onto = (sending.left # 0),
         sending' = sending \/ sending'.left = 0 \/ sending'.of = Len(out) + 1
  PROVE  WindowInv'
<1>1. PICK n \in Nat : n = Len(out)
  BY LenProperties DEF SentTypes, IsSequence
<1>2. /\ Len(out') = n + 1 /\ out'[n + 1] = e
      /\ \A i \in 1 .. n : out'[i] = out[i]
  BY <1>1, OneMore DEF OneLonger, SentTypes
<1>3. SUFFICES ASSUME window = 1
               PROVE  WindowInv'
  BY DEF WindowInv
<1>4. /\ got \in Nat /\ got <= n /\ Len(sent) <= got + 1
      /\ \A i \in 1 .. n : ~out[i].onto
      /\ sending.left # 0 => sending.of > got
  BY <1>1, <1>3 DEF WindowInv
<1>5. got = n
  <2>1. n + 1 <= Len(sent) /\ Len(sent) \in Nat
    BY <1>2, LenProperties DEF AnswersInOrder, SentTypes
  <2>2. QED
    BY <1>4, <2>1
<1>6. sending.left = 0
  <2>1. SUFFICES ASSUME sending.left # 0
                 PROVE  FALSE
    OBVIOUS
  <2>2. sending.of \in 1 .. n
    BY <1>1, <2>1, Zenon DEF FilesInv, OneGoesOut
  <2>3. QED
    BY <1>4, <1>5, <2>1, <2>2
<1>7. ~e.onto
  BY <1>6
<1>8. \A i \in 1 .. n + 1 : ~out'[i].onto
  <2>1. ASSUME NEW i \in 1 .. n + 1
        PROVE  ~out'[i].onto
    <3>1. i = n + 1 \/ i \in 1 .. n
      BY <1>1
    <3>2. QED
      BY <1>2, <1>4, <1>7, <3>1, Zenon
  <2>2. QED
    BY <2>1
<1>9. sending'.left # 0 => sending'.of > got'
  <2>1. SUFFICES ASSUME sending'.left # 0
                 PROVE  sending'.of > got
    OBVIOUS
  <2>2. sending'.of = n + 1
    BY <1>1, <1>6, <2>1
  <2>3. QED
    BY <1>5, <2>2
<1>10. got' \in Nat /\ got' <= n + 1 /\ Len(sent') <= got' + 1
  BY <1>4
<1>11. QED
  BY <1>2, <1>8, <1>9, <1>10, Zenon DEF WindowInv

(* Nothing is said.                                                        *)
LEMMA NothingIsSaid ==
  ASSUME FramedInv, UNCHANGED <<sent, got, window, out, sending>>
  PROVE  FramedInv'
<1>1. UNCHANGED sending.of /\ UNCHANGED sending.left
  OBVIOUS
<1>2. FilesInv'
  <2>1. \A i : LeftOf(i)' = LeftOf(i) /\ Undisturbed(i)' = Undisturbed(i)
    BY <1>1 DEF LeftOf, Undisturbed
  <2>2. OneGoesOut' = OneGoesOut
    BY <1>1 DEF OneGoesOut
  <2>3. QED
    BY <1>1, <2>1, <2>2 DEF FramedInv, FilesInv
<1>3. WindowInv'
  BY <1>1 DEF FramedInv, WindowInv
<1>4. QED
  BY <1>2, <1>3 DEF FramedInv

(* A server answers, or refuses a request line.                            *)
LEMMA ServerIsFramed ==
  ASSUME HttpInv, AnswersInOrder', FramedInv, connState = "kConnected",
         BadRequest \/ HttpServerAnswers \/ FileServerAnswers
  PROVE  FramedInv'
<1>1. SentTypes /\ FilesInv /\ WindowInv
  BY DEF HttpInv, FramedInv
<1>2. UNCHANGED <<sent, got, window>>
  BY DEF BadRequest, HttpServerAnswers, FileServerAnswers, Answer
<1>3. ASSUME NEW response, Untold(response), Answer(response)
      PROVE  FramedInv'
  <2>1. /\ FilesInv'
        /\ \E e : out' = Append(out, e) /\ e.onto = (sending.left # 0)
        /\ sending' = sending \/ sending'.left = 0 \/ sending'.of = Len(out) + 1
    BY <1>1, <1>3, AnswerIsFramed
  <2>2. WindowInv'
    BY <1>1, <1>2, <2>1, WindowAnswer
  <2>3. QED
    BY <2>1, <2>2 DEF FramedInv
<1>4. CASE BadRequest
  <2> DEFINE e == [Response(TRUE, 400, 0) EXCEPT !.onto = sending.left # 0]
  <2>1. out' = Append(out, e) /\ sending' = sending
    BY <1>4 DEF BadRequest, Send
  <2>2. e.onto = (sending.left # 0)
    BY DEF Response
  <2>3. KeptAs(e, 0)
    <3>1. e.file = NoFile /\ e.after = NoFile /\ e.cut = "no" /\ e.lengths = {} /\ e.close
      BY DEF Response
    <3> HIDE DEF e
    <3>2. QED
      BY <3>1, Zenon DEF KeptAs, Plain
  <2> HIDE DEF e
  <2>4. FilesInv'
    <3>1. 0 \in Int
      OBVIOUS
    <3>2. QED
      BY <1>1, <2>1, <2>2, <2>3, <3>1, OneMoreSent DEF SentTypes
  <2>5. WindowInv'
    BY <1>1, <1>2, <2>1, <2>2, WindowAnswer
  <2>6. QED
    BY <2>4, <2>5 DEF FramedInv
<1>5. CASE HttpServerAnswers
  <2>1. PICK close, status, body : Answer(Response(close, status, body))
    BY <1>5 DEF HttpServerAnswers
  <2>2. QED
    BY <1>3, <2>1, PlainAnswer
<1>6. CASE FileServerAnswers
  <2>1. PICK opened \in Opens :
            Answer(IF request.path = "/favicon.ico" THEN Response(WantsClose(request), 200, 1)
                   ELSE SetResponseBody(request, WantsClose(request), opened))
    BY <1>6 DEF FileServerAnswers
  <2>2. state = "kGotAll"
    BY <2>1 DEF Answer
  <2>3. GetHeader(request, "Range") = "" \/ GetHeader(request, "Range") \in DOMAIN Ranges
    BY <2>2, RangeIsKnown
  <2>4. CASE request.path = "/favicon.ico"
    BY <1>3, <2>1, <2>4, PlainAnswer
  <2>5. CASE request.path # "/favicon.ico"
    BY <1>3, <2>1, <2>3, <2>5, FileAnswer
  <2>6. QED
    BY <2>4, <2>5
<1>7. QED
  BY <1>4, <1>5, <1>6

(* The peer asks for more, when it has got what it waits for.              *)
LEMMA PeerWaits ==
  ASSUME SentTypes, FramedInv, NEW r \in Requests, PeerSends(r)
  PROVE  FramedInv'
<1>1. UNCHANGED <<got, window, out, sending>> /\ sent' = Append(sent, r)
  BY DEF PeerSends
<1>2. PICK n \in Nat : n = Len(sent) /\ Len(sent') = n + 1
  BY <1>1, LenProperties, AppendProperties DEF SentTypes
<1>3. FilesInv'
  <2>1. UNCHANGED sending.of /\ UNCHANGED sending.left
    BY <1>1
  <2>2. \A i : LeftOf(i)' = LeftOf(i) /\ Undisturbed(i)' = Undisturbed(i)
    BY <1>1, <2>1 DEF LeftOf, Undisturbed
  <2>3. OneGoesOut' = OneGoesOut
    BY <1>1, <2>1 DEF OneGoesOut
  <2>4. QED
    BY <1>1, <2>1, <2>2, <2>3 DEF FramedInv, FilesInv
<1>4. WindowInv'
  <2>1. SUFFICES ASSUME window = 1
                 PROVE  WindowInv'
    BY <1>1 DEF WindowInv
  <2>2. got \in Nat /\ n - got < 1
    BY <1>2, <2>1 DEF FramedInv, WindowInv, PeerSends
  <2>3. Len(sent') <= got + 1
    BY <1>2, <2>2
  <2>4. QED
    BY <1>1, <2>1, <2>3 DEF FramedInv, WindowInv
<1>5. QED
  BY <1>3, <1>4 DEF FramedInv

(* A response that the peer has got whole is not followed by more.         *)
LEMMA PeerGets ==
  ASSUME SentTypes, FramedInv, PeerReceives
  PROVE  FramedInv'
<1>1. UNCHANGED <<sent, window, out, sending>> /\ got' = got + 1 /\ got < Len(out)
  BY DEF PeerReceives
<1>2. FilesInv'
  <2>1. UNCHANGED sending.of /\ UNCHANGED sending.left
    BY <1>1
  <2>2. \A i : LeftOf(i)' = LeftOf(i) /\ Undisturbed(i)' = Undisturbed(i)
    BY <1>1, <2>1 DEF LeftOf, Undisturbed
  <2>3. OneGoesOut' = OneGoesOut
    BY <1>1, <2>1 DEF OneGoesOut
  <2>4. QED
    BY <1>1, <2>1, <2>2, <2>3 DEF FramedInv, FilesInv
<1>3. WindowInv'
  <2>1. SUFFICES ASSUME window = 1
                 PROVE  WindowInv'
    BY <1>1 DEF WindowInv
  <2>2. PICK n \in Nat : n = Len(out) /\ DOMAIN out = 1 .. n /\ Len(sent) \in Nat
    BY LenProperties DEF SentTypes, IsSequence
  <2>3. /\ got \in Nat /\ got + 1 <= n /\ Len(sent) <= got + 1
        /\ \A i \in 1 .. n : ~out[i].onto
        /\ sending.left # 0 => sending.of > got
    BY <1>1, <2>1, <2>2 DEF FramedInv, WindowInv
  <2>4. Complete(out[got + 1])
    BY <2>2, <2>3 DEF PeerReceives
  <2>5. ASSUME sending.left # 0
        PROVE  sending.of > got + 1
    <3>1. PICK left, of : left = sending.left /\ of = sending.of
      OBVIOUS
    <3>2. of \in 1 .. n /\ left \in Int /\ left # 0
      BY <2>2, <2>5, <3>1, Zenon DEF FramedInv, FilesInv, OneGoesOut
    <3>3. SUFFICES ASSUME of = got + 1
                   PROVE  FALSE
      BY <2>3, <2>5, <3>1, <3>2
    <3>4. Undisturbed(of)
      <4>1. of < n => of + 1 \in 1 .. n
        BY <2>2, <3>2
      <4>2. QED
        BY <2>2, <2>3, <3>2, <4>1, Zenon DEF Undisturbed
    <3>5. PICK r : r = out[of]
      OBVIOUS
    <3>6. KeptAs(r, left)
      <4>1. LeftOf(of) = left
        BY <3>1, Zenon DEF LeftOf
      <4>2. QED
        BY <2>2, <3>2, <3>4, <3>5, <4>1, Zenon DEF FramedInv, FilesInv
    <3>7. WithFile(r, left)
      BY <3>2, <3>6, Zenon DEF KeptAs
    <3>8. r.cut = "no" /\ r.body = 0 /\ r.file.count \in Int
      BY <3>2, <3>7, Zenon DEF WithFile, Slice
    <3>9. Opened(r, left)
      BY <3>7, <3>8 DEF WithFile
    <3>10. PICK m \in Nat : /\ r.after.count = m /\ r.lengths = {r.file.count}
                            /\ left > 0 => m = r.file.count - left
                            /\ left < 0 => m = 0 /\ r.file.count = left
      BY <3>9, Zenon DEF Opened, Followed
    <3>11. r.file.count = r.body + m
      <4>1. Complete(r)
        BY <2>4, <3>3, <3>5
      <4>2. r.lengths = {r.body + r.after.count}
        BY <3>10, <4>1 DEF Complete
      <4>3. QED
        BY <3>10, <4>2
    <3>12. r.file.count = m
      BY <3>8, <3>10, <3>11
    <3>13. left > 0 \/ left < 0
      BY <3>2
    <3>14. QED
      BY <3>2, <3>10, <3>12, <3>13
  <2>6. got' \in Nat /\ got' <= Len(out') /\ Len(sent') <= got' + 1
    BY <1>1, <2>2, <2>3
  <2>7. sending'.left # 0 => sending'.of > got'
    BY <1>1, <2>5
  <2>8. \A i \in 1 .. Len(out') : ~out'[i].onto
    BY <1>1, <2>2, <2>3
  <2>9. QED
    BY <2>6, <2>7, <2>8 DEF WindowInv
<1>4. QED
  BY <1>2, <1>3 DEF FramedInv

(* The connection sends of the file, or gives it up.                       *)
LEMMA SendingIsFramed ==
  ASSUME SentTypes, FramedInv, FileIsSent \/ FileIsGivenUp
  PROVE  FramedInv'
<1>1. FilesInv' /\ sending.left # 0 /\ (sending'.left # 0 => sending'.of = sending.of)
  <2>1. CASE FileIsSent
    <3>1. FilesInv' /\ sending.left # 0
      BY <2>1, SentOn DEF FramedInv
    <3>2. sending'.left # 0 => sending'.of = sending.of
      BY <2>1 DEF FileIsSent, Sending, NotSending
    <3>3. QED
      BY <3>1, <3>2
  <2>2. CASE FileIsGivenUp
    <3>1. FilesInv' /\ sending' = NotSending
      BY <2>2, SentNoMore DEF FramedInv
    <3>2. sending.left # 0 /\ sending'.left = 0
      BY <2>2, <3>1 DEF FileIsGivenUp, NotSending
    <3>3. QED
      BY <3>1, <3>2
  <2>3. QED
    BY <2>1, <2>2
<1>2. PICK n \in Nat : n = Len(out)
  BY LenProperties DEF SentTypes, IsSequence
<1>3. \E i \in 1 .. Len(out) : \E q : Becomes(i, q)
  <2>1. sending.of \in 1 .. n
    BY <1>1, <1>2 DEF FramedInv, FilesInv, OneGoesOut
  <2>2. CASE FileIsSent
    <3>1. PICK m : out' = [out EXCEPT ![Len(out)].after = Follows(@, m)]
      BY <2>2 DEF FileIsSent
    <3>2. PICK i \in 1 .. Len(out) : i = Len(out)
      BY <1>2, <2>1
    <3>3. PICK v : v = Follows(out[i].after, m)
      OBVIOUS
    <3>4. out' = [out EXCEPT ![i].after = v]
      BY <3>1, <3>2, <3>3
    <3>5. PICK q : q = [out[i] EXCEPT !.after = v]
      OBVIOUS
    <3>6. QED
      BY <3>4, <3>5, OneBecomes
  <2>3. CASE FileIsGivenUp
    <3>1. PICK why : out' = [out EXCEPT ![sending.of].cut = why]
      BY <2>3 DEF FileIsGivenUp
    <3>2. PICK i \in 1 .. Len(out) : i = sending.of
      BY <1>2, <2>1
    <3>3. out' = [out EXCEPT ![i].cut = why]
      BY <3>1, <3>2
    <3>4. PICK q : q = [out[i] EXCEPT !.cut = why]
      OBVIOUS
    <3>5. QED
      BY <3>3, <3>4, OneBecomes
  <2>4. QED
    BY <2>2, <2>3
<1>4. Len(out') = Len(out) /\ \A i \in 1 .. Len(out) : out'[i].onto = out[i].onto
  BY <1>3 DEF Becomes
<1>5. UNCHANGED <<sent, got, window>>
  BY DEF FileIsSent, FileIsGivenUp, fileGoesOn
<1>6. WindowInv'
  BY <1>1, <1>4, <1>5 DEF FramedInv, WindowInv
<1>7. QED
  BY <1>1, <1>6 DEF FramedInv

(* The invariant is kept by every step.                                    *)
LEMMA FramedSteps ==
  ASSUME HttpInv, HttpInv', FramedInv, [HttpNext]_httpVars
  PROVE  FramedInv'
<1>1. SentTypes /\ AnswersInOrder'
  BY DEF HttpInv
<1>2. CASE \E r \in Requests : PeerSends(r)
  BY <1>1, <1>2, PeerWaits
<1>3. CASE PeerReceives
  BY <1>1, <1>3, PeerGets
<1>4. CASE FileIsSent \/ FileIsGivenUp
  BY <1>1, <1>4, SendingIsFramed
<1>5. CASE connState = "kConnected" /\ (BadRequest \/ HttpServerAnswers \/ FileServerAnswers)
  BY <1>1, <1>5, ServerIsFramed
<1>6. CASE connState # "kConnected" /\ (BadRequest \/ HttpServerAnswers \/ FileServerAnswers)
  <2>1. UNCHANGED <<sent, got, window, out, sending>>
    BY <1>6 DEF BadRequest, HttpServerAnswers, FileServerAnswers, Answer, Send, SendFile
  <2>2. QED
    BY <2>1, NothingIsSaid
<1>7. CASE \/ Read \/ ParseRequestLine \/ ParseHeader \/ ParseBody \/ NeedsMore
           \/ UNCHANGED httpVars
  <2>1. UNCHANGED <<sent, got, window, out, sending>>
    BY <1>7 DEF Read, OnMessage, ParseRequestLine, ParseHeader, ParseBody, NeedsMore, httpVars
  <2>2. QED
    BY <2>1, NothingIsSaid
<1>8. QED
  BY <1>2, <1>3, <1>4, <1>5, <1>6, <1>7 DEF HttpNext, Handle, Parse

(* It holds at the start.                                                  *)
LEMMA FramedStarts ==
  ASSUME HttpInit
  PROVE  FramedInv
<1>1. out = <<>> /\ sent = <<>> /\ got = 0 /\ sending = NotSending
  BY DEF HttpInit
<1>2. Len(out) = 0 /\ Len(sent) = 0 /\ sending.left = 0 /\ 1 .. 0 = {}
  BY <1>1 DEF NotSending
<1>3. FilesInv
  BY <1>2 DEF FilesInv
<1>4. WindowInv
  BY <1>1, <1>2 DEF WindowInv
<1>5. QED
  BY <1>3, <1>4 DEF FramedInv

(* The peer can tell where each response ends: what follows the head of a  *)
(* response is as long as it announces, and of the file it is the bytes    *)
(* that the Range header asks for, whatever the file and the range, except *)
(* where the file cannot be opened or read, has fewer bytes, or a response *)
(* was sent while a file went out; and none is for a peer that waits.      *)
THEOREM ResponsesAreFramed ==
  HttpSpec => []Framed
<1>1. HttpInit => FramedInv
  BY FramedStarts
<1>2. HttpInv /\ HttpInv' /\ FramedInv /\ [HttpNext]_httpVars => FramedInv'
  BY FramedSteps
<1>3. ASSUME FramedInv
      PROVE  Framed
  <2>1. ASSUME NEW i \in 1 .. Len(out), ~out[i].onto /\ (i < Len(out) => ~out[i + 1].onto)
        PROVE  FollowedRightly(out[i], sending.left # 0 /\ sending.of = i)
    <3>1. KeptAs(out[i], LeftOf(i))
      BY <1>3, <2>1 DEF FramedInv, FilesInv, Undisturbed
    <3>2. (LeftOf(i) # 0) = (sending.left # 0 /\ sending.of = i)
      BY Zenon DEF LeftOf
    <3>3. FollowedRightly(out[i], LeftOf(i) # 0)
      BY <3>1, KeptIsFramed
    <3>4. QED
      BY <3>2, <3>3
  <2>2. window = 1 => \A i \in 1 .. Len(out) : ~out[i].onto
    BY <1>3 DEF FramedInv, WindowInv
  <2>3. QED
    BY <2>1, <2>2, Zenon DEF Framed
<1>4. FramedInv => Framed
  BY <1>3
<1>5. QED
  BY HttpStarts, HttpSteps, <1>1, <1>2, <1>4, PTL DEF HttpSpec
=============================================================================
