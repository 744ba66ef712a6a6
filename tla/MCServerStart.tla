--------------------------- MODULE MCServerStart ---------------------------
(* No thread, one or three; descriptors for two connections and the spare one. *)
EXTENDS ServerStart
=============================================================================
