------------------------- MODULE MCConnectionOutput -------------------------
(* Messages and files of two units: enough for a write that takes a part.  *)
EXTENDS ConnectionOutput
=============================================================================
