----------------------------- MODULE MCEventLoop -----------------------------
(* Two callers and the loop thread; one caller hands over two functors, so *)
(* that their order can be lost.                                           *)
EXTENDS EventLoop, TLC

CONSTANTS c1, c2

MCCallers == {c1, c2}
MCMaxCalls == c1 :> 2 @@ c2 :> 1 @@ Loop :> 1
=============================================================================
