---------------------------- MODULE AtomicCalls ----------------------------
(***************************************************************************)
(* What a BlockingQueue, a BoundedBlockingQueue and a CountDownLatch       *)
(* promise to threads: each call takes effect at once, at some moment      *)
(* between its beginning and its end, and not before it may.               *)
(***************************************************************************)
EXTENDS Integers, Sequences

CONSTANTS Threads, Kinds, Capacity, NoValue

VARIABLES kind,     \* what the object is
          queue, count,     \* its values, or how many calls of countDown() it waits for
          call,     \* thread -> what it calls
          value,    \* thread -> the value it puts, or NoValue
          result,   \* thread -> what it has got
          stage     \* thread -> where it is in its call

vars == <<kind, queue, count, call, value, result, stage>>

Calls == [BlockingQueue |-> {"put", "take", "drain"}, BoundedBlockingQueue |-> {"put", "take"},
          CountDownLatch |-> {"wait", "countDown"}]

MayNot(c) == \/ c = "put" /\ kind = "BoundedBlockingQueue" /\ Len(queue) >= Capacity
             \/ c = "take" /\ queue = <<>>
             \/ c = "wait" /\ count > 0

Init == /\ kind \in Kinds
        /\ queue = <<>> /\ count \in Nat
        /\ call = [t \in Threads |-> "none"]
        /\ value = [t \in Threads |-> NoValue]
        /\ result = [t \in Threads |-> <<>>]
        /\ stage = [t \in Threads |-> "out"]

Begin(t) ==
    /\ stage[t] = "out"
    /\ stage' = [stage EXCEPT ![t] = "in"]
    /\ \E c \in Calls[kind] : call' = [call EXCEPT ![t] = c]
    /\ value'[t] \in Nat /\ value' = [value EXCEPT ![t] = value'[t]]
    /\ UNCHANGED <<kind, queue, count, result>>

TakeEffect(t) ==
    /\ stage[t] = "in" /\ ~MayNot(call[t])
    /\ stage' = [stage EXCEPT ![t] = "done"]
    /\ queue' = CASE call[t] = "put" -> Append(queue, value[t])
                  [] call[t] = "take" -> Tail(queue)
                  [] call[t] = "drain" -> <<>>
                  [] OTHER -> queue
    /\ result' = [result EXCEPT ![t] = CASE call[t] = "take" -> <<Head(queue)>>
                                         [] call[t] = "drain" -> queue
                                         [] OTHER -> <<>>]
    /\ count' = IF call[t] = "countDown" THEN count - 1 ELSE count
    /\ UNCHANGED <<kind, call, value>>

End(t) ==
    /\ stage[t] = "done"
    /\ stage' = [stage EXCEPT ![t] = "out"]
    /\ UNCHANGED <<kind, queue, count, call, value, result>>

Next == \E t \in Threads : Begin(t) \/ TakeEffect(t) \/ End(t)
Spec == Init /\ [][Next]_vars
=============================================================================
