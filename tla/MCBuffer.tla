------------------------------ MODULE MCBuffer ------------------------------
(* Byte strings of up to two of two bytes: enough for data that is split    *)
(* between the vector and extrabuf, and for a byte in the wrong place.     *)
EXTENDS Buffer

MCData == UNION {[1 .. n -> Byte] : n \in 0 .. 2}
=============================================================================
