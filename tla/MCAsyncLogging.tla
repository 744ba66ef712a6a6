--------------------------- MODULE MCAsyncLogging ---------------------------
(* Small buffers, an overload of four and days of two seconds.             *)
EXTENDS AsyncLogging
=============================================================================
