---------------------------- MODULE MCThreadPool ----------------------------
(* Up to two threads, two producers and a queue of one or without a bound; or   *)
(* three threads that call one object of Monitor, with steps of pthread.  Which *)
(* of the two it is is chosen at the beginning, and the other one rests.        *)
EXTENDS ThreadPool, Monitor

CONSTANTS w1, w2, p1, p2, t1, t2, t3

VARIABLE isPool

MCWorkers == {w1, w2}
MCProducers == {p1, p2}
MCThreads == {t1, t2, t3}

MCMayCall(t) == CASE t = t1 -> {"put", "drain", "wait"}
                  [] t = t2 -> {"put", "take", "countDown"}
                  [] t = t3 -> {"take", "countDown"}

Resting == /\ maxQueueSize = 0 /\ size = 0 /\ threads = {} /\ owner = "stopped" /\ running = FALSE
           /\ queue = <<>> /\ pc = [t \in Workers \cup Producers |-> IF t \in Workers THEN "unborn" ELSE "idle"]
           /\ task = [w \in Workers |-> NoTask] /\ calls = 0
           /\ accepted = <<>> /\ taken = <<>> /\ ran = {}

MCInit == /\ MonitorInit
          /\ \/ isPool = TRUE /\ Init /\ kind = "BlockingQueue"
             \/ isPool = FALSE /\ Resting

MCNext == \/ isPool /\ Next /\ UNCHANGED <<isPool, monitorVars>>
          \/ ~isPool /\ MonitorNext /\ UNCHANGED <<isPool, vars>>

MCSpec == MCInit /\ [][MCNext]_<<isPool, vars, monitorVars>> /\ Fairness /\ MonitorFairness
=============================================================================
