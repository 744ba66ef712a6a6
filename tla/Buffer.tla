------------------------------- MODULE Buffer -------------------------------
(***************************************************************************)
(* The byte buffer of a connection: a vector with two indices, some room   *)
(* in front for what is prepended, and readable bytes between the indices, *)
(* which are moved to the front before the vector is made longer.          *)
(*                                                                         *)
(* A Buffer is a record, an operation of the class an operator on it.      *)
(* Indices count from 0 as in the code: byte k of the vector is            *)
(* bytes[k + 1].                                                           *)
(***************************************************************************)
EXTENDS Integers, Sequences

CONSTANTS Byte,             \* the bytes
          Blank,            \* what a fresh vector holds
          Data,             \* the byte strings that callers append and prepend
          kCheapPrepend,
          kInitialSize,
          ExtraSize,        \* bytes that readFd takes beyond the vector: extrabuf
          MaxContent        \* bound: readable bytes, and the reserve of a shrink

ASSUME BufferAssumption ==
    /\ Blank \in Byte
    /\ Data \subseteq Seq(Byte)
    /\ kCheapPrepend \in Nat /\ kInitialSize \in Nat /\ ExtraSize \in Nat
    /\ MaxContent \in Nat

VARIABLES buffer,   \* the Buffer
          call      \* history: the last call, with its bytes

vars == <<buffer, call>>

Fresh(n) == [bytes |-> [i \in 1 .. kCheapPrepend + n |-> Blank],
             reader |-> kCheapPrepend, writer |-> kCheapPrepend]

ReadableBytes(b) == b.writer - b.reader
WritableBytes(b) == Len(b.bytes) - b.writer
PrependableBytes(b) == b.reader

\* n bytes from peek(): what retrieveAsString(n) and toStringPiece() return.
Peek(b, n) == [i \in 1 .. n |-> b.bytes[b.reader + i]]
Readable(b) == Peek(b, ReadableBytes(b))

\* std::copy of data to index p, and vector::resize.
Put(bytes, p, data) ==
    [i \in 1 .. Len(bytes) |-> IF p < i /\ i <= p + Len(data) THEN data[i - p] ELSE bytes[i]]
Resized(bytes, n) == [i \in 1 .. n |-> IF i <= Len(bytes) THEN bytes[i] ELSE Blank]

RetrieveAll(b) == [b EXCEPT !.reader = kCheapPrepend, !.writer = kCheapPrepend]

Retrieved(b, n) == IF n < ReadableBytes(b) THEN [b EXCEPT !.reader = @ + n] ELSE RetrieveAll(b)

Unwritten(b, n) == [b EXCEPT !.writer = @ - n]

Prepended(b, data) == [bytes |-> Put(b.bytes, b.reader - Len(data), data),
                       reader |-> b.reader - Len(data),
                       writer |-> b.writer]

MustGrow(b, n) == WritableBytes(b) + PrependableBytes(b) < n + kCheapPrepend

Moved(b) == [bytes |-> Put(b.bytes, kCheapPrepend, Readable(b)),
             reader |-> kCheapPrepend,
             writer |-> kCheapPrepend + ReadableBytes(b)]

Grown(b, n) == [b EXCEPT !.bytes = Resized(@, b.writer + n)]

MakeSpace_Mutant(b, n) == Grown(b, n)   \* seeded bug: the room in front is never used again
MakeSpace(b, n) == IF MustGrow(b, n) THEN Grown(b, n) ELSE Moved(b)

EnsureWritableBytes(b, n) == IF WritableBytes(b) < n THEN MakeSpace(b, n) ELSE b

\* std::copy to beginWrite() and hasWritten.
Written(b, data) == [bytes |-> Put(b.bytes, b.writer, data),
                     reader |-> b.reader,
                     writer |-> b.writer + Len(data)]

Appended(b, data) == Written(EnsureWritableBytes(b, Len(data)), data)

\* readv(2) fills the vector first and then extrabuf, which is appended.
ReadFd_Mutant(b, data) ==   \* seeded bug: writerIndex_ = buffer_.size() forgotten
    LET w == WritableBytes(b)
    IN IF Len(data) <= w THEN Written(b, data)
       ELSE Appended(b, SubSeq(data, w + 1, Len(data)))
ReadFd(b, data) ==
    LET w == WritableBytes(b)
    IN IF Len(data) <= w THEN Written(b, data)
       ELSE Appended(Written(b, SubSeq(data, 1, w)), SubSeq(data, w + 1, Len(data)))

MostRead(b) == WritableBytes(b) + (IF WritableBytes(b) < ExtraSize THEN ExtraSize ELSE 0)

Shrunk(b, reserve) ==
    Appended(EnsureWritableBytes(Fresh(kInitialSize), ReadableBytes(b) + reserve), Readable(b))
-----------------------------------------------------------------------------
Fits(n) == ReadableBytes(buffer) + n <= MaxContent

Init == buffer = Fresh(kInitialSize) /\ call = <<"new", <<>>>>

\* append, and with the bytes of an integer appendInt8 ... appendInt64.
Add(data) == /\ Fits(Len(data))
             /\ buffer' = Appended(buffer, data)
             /\ call' = <<"append", data>>

\* readFd: the kernel has data to give, no more than there is room for.
Receive(data) == /\ Fits(Len(data)) /\ Len(data) <= MostRead(buffer)
                 /\ buffer' = ReadFd(buffer, data)
                 /\ call' = <<"append", data>>

\* retrieveAsString, retrieve, and readInt8 ... readInt64.
Remove(n) == /\ n <= ReadableBytes(buffer)
             /\ buffer' = Retrieved(buffer, n)
             /\ call' = <<"retrieve", Peek(buffer, n)>>

TakeBack(n) == /\ n <= ReadableBytes(buffer)
               /\ buffer' = Unwritten(buffer, n)
               /\ call' = <<"unwrite", <<>>>>

PutBack(data) == /\ Fits(Len(data)) /\ Len(data) <= PrependableBytes(buffer)
                 /\ buffer' = Prepended(buffer, data)
                 /\ call' = <<"prepend", data>>

Reallocate(reserve) == /\ buffer' = Shrunk(buffer, reserve)
                       /\ call' = <<"shrink", <<>>>>

Next == \/ \E data \in Data : Add(data) \/ Receive(data) \/ PutBack(data)
        \/ \E n \in 0 .. MaxContent : Remove(n) \/ TakeBack(n) \/ Reallocate(n)

Spec == Init /\ [][Next]_vars
-----------------------------------------------------------------------------
(***************************************************************************)
(* Properties                                                              *)
(***************************************************************************)
IsBuffer(b) == /\ b \in [bytes : Seq(Byte), reader : Nat, writer : Nat]
               /\ b.reader <= b.writer /\ b.writer <= Len(b.bytes)
               /\ kCheapPrepend <= Len(b.bytes)

\* The indices stay in the order the picture above the class draws, inside
\* the vector: 0 <= readerIndex_ <= writerIndex_ <= size.
TypeOK == IsBuffer(buffer)

Queue == INSTANCE ByteQueue WITH content <- Readable(buffer)

\* Whatever the vector and its indices do - bytes are moved to the front, the
\* vector is made longer, half of a read comes in through extrabuf, the vector
\* is exchanged for a smaller one - no byte is lost, doubled or overwritten:
\* the Buffer is a queue of bytes.
ImplementsByteQueue == Queue!Spec

\* Memory follows content: an append or a read makes the vector longer only
\* when its content would not fit even if moved to the front, and leaves it
\* shorter than twice that content and the room in front.
GrowthBounded ==
    [][Len(buffer'.bytes) > Len(buffer.bytes) /\ call'[1] = "append" =>
            /\ Len(buffer.bytes) < kCheapPrepend + ReadableBytes(buffer')
            /\ Len(buffer'.bytes) < kCheapPrepend + 2 * ReadableBytes(buffer')]_vars
=============================================================================
