---------------------------- MODULE MCTimerQueue ----------------------------
(* Two addresses, so that one is used again; one caller besides the loop.  *)
EXTENDS TimerQueue

CONSTANTS c1

MCCallers == {c1}
=============================================================================
