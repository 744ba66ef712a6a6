------------------------------ MODULE ByteQueue ------------------------------
(***************************************************************************)
(* What a Buffer promises: a queue of bytes.  Bytes are appended at the    *)
(* end and retrieved from the front, and a few can be put back at either   *)
(* end.  The last call, with the bytes given to it or returned by it, is   *)
(* part of the state, so that an implementation cannot answer one call     *)
(* with the effect of another.                                             *)
(***************************************************************************)
EXTENDS Naturals, Sequences

CONSTANT Data   \* the byte strings that callers pass

VARIABLES content,  \* the bytes that can be read
          call      \* the last call: its name and its bytes

vars == <<content, call>>

Init == content = <<>> /\ call = <<"new", <<>>>>

Add(data) == /\ call' = <<"append", data>>
             /\ content' = content \o data

PutBack(data) == /\ call' = <<"prepend", data>>
                 /\ content' = data \o content

Remove(n) == /\ call' = <<"retrieve", SubSeq(content, 1, n)>>
             /\ content' = SubSeq(content, n + 1, Len(content))

TakeBack(n) == /\ call' = <<"unwrite", <<>>>>
               /\ content' = SubSeq(content, 1, Len(content) - n)

Reallocate == /\ call' = <<"shrink", <<>>>>
              /\ UNCHANGED content

Next == \/ \E data \in Data : Add(data) \/ PutBack(data)
        \/ \E n \in 0 .. Len(content) : Remove(n) \/ TakeBack(n)
        \/ Reallocate

Spec == Init /\ [][Next]_vars
=============================================================================
