---------------------------- MODULE TaskExecutor ----------------------------
(***************************************************************************)
(* What EventLoop promises to the threads that hand it work through        *)
(* runInLoop and queueInLoop: a functor that is handed over is run once,   *)
(* by the loop thread, after every functor that was handed over before it. *)
(* A call of runInLoop made on the loop thread itself runs at once.        *)
(* There are no batches, no eventfd and no poll here: this is the contract *)
(* that EventLoop implements.                                              *)
(***************************************************************************)
EXTENDS Sequences

CONSTANT Functors       \* the functors that may be handed over

VARIABLES queue,        \* functors accepted and not yet run, oldest first
          done          \* functors run, in the order they ran

vars == <<queue, done>>

Init == /\ queue = <<>>
        /\ done = <<>>

\* A functor is accepted behind every functor already waiting.
Submit(f) == /\ queue' = Append(queue, f)
             /\ done' = done

\* The oldest functor waiting is run.
Execute == /\ queue # <<>>
           /\ queue' = Tail(queue)
           /\ done' = Append(done, Head(queue))

\* The loop thread runs a functor without queueing it.
RunNow(f) == /\ done' = Append(done, f)
             /\ queue' = queue

Next == \/ \E f \in Functors : Submit(f) \/ RunNow(f)
        \/ Execute

Spec == Init /\ [][Next]_vars
=============================================================================
