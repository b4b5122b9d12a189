----------------------------- MODULE SafeQueues -----------------------------
(***************************************************************************)
(* SafeQueue (SafeQueues.hpp), BinarySemaphore and CountingSemaphore       *)
(* (Semaphores.cpp).  To the kernel all three are queues, of which only    *)
(* the number of items is of interest here: a give is a send that never    *)
(* waits, a take a receive.                                                *)
(***************************************************************************)
EXTENDS Scheduler

CONSTANTS QueueLength,     (* or max_count                                   *)
          CrowdedReset     (* does the program call reset() also while more  *)
                           (* than one sender is blocked?                    *)

(* The kernel makes no queue without places.                               *)
ASSUME QueueAssumption == QueueLength \in Nat \ {0} /\ CrowdedReset \in BOOLEAN

VARIABLES level,           (* items in the queue, the semaphore's count      *)
          length           (* places; does not change                        *)

queue == <<level, length>>

QueueInit(object) ==
    /\ length = IF object = "binary" THEN 1 ELSE QueueLength
    /\ level \in IF object = "counting" THEN 0 .. length ELSE {0}

NoQueue == level = 0 /\ length = 0

(* What the methods call the kernel with.                                  *)
QueueCalls(object) ==
    LET Send == IF object = "queue" THEN Timeouts ELSE {"short"}   (* give() *)
    IN  {[NoCall EXCEPT !.op = "send", !.ms = ms] : ms \in Send}
        \cup {[NoCall EXCEPT !.op = "receive", !.ms = ms] : ms \in Timeouts}

-----------------------------------------------------------------------------
send(t) ==
    /\ Tries(t, {"send"})
    /\ \/ /\ level < length
          /\ level' = level + 1
          /\ \E ts \in OneOf(Waiting({"receive"})) : Return(t, ts)
       \/ /\ level = length
          /\ BlockOrRefuse(t, {})
          /\ UNCHANGED level
    /\ UNCHANGED length

receive(t) ==
    /\ Tries(t, {"receive"})
    /\ \/ /\ level > 0
          /\ level' = level - 1
          /\ \E ts \in OneOf(Waiting({"send"})) : Return(t, ts)
       \/ /\ level = 0
          /\ BlockOrRefuse(t, {})
          /\ UNCHANGED level
    /\ UNCHANGED length

(* Also give_from_isr.                                                     *)
send_from_isr(flagged) ==
    /\ level < length
    /\ level' = level + 1
    /\ \E ts \in OneOf(Waiting({"receive"})) : IsrCall(ts, flagged)
    /\ UNCHANGED length

receive_from_isr(flagged) ==
    /\ level > 0
    /\ level' = level - 1
    /\ \E ts \in OneOf(Waiting({"send"})) : IsrCall(ts, flagged)
    /\ UNCHANGED length

(* Mutant: the queue is created anew in its storage.                       *)
reset_created_anew(t) ==
    /\ Idles(t) /\ exists
    /\ level' = 0
    /\ UNCHANGED <<kernel, length>>

(* All places are free, and one of the tasks that wait for one is woken.   *)
reset(t) ==
    /\ Idles(t) /\ exists
    /\ CrowdedReset \/ \A u, v \in Waiting({"send"}) : u = v
    /\ level' = 0
    /\ \E ts \in OneOf(Waiting({"send"})) : Reschedule(Woken(call, ts))
    /\ UNCHANGED <<exists, suspended, isr, refused, length>>

QueueStep(object) ==
    \/ \E t \in Task : send(t) \/ receive(t) \/ (object = "queue" /\ reset(t))
    \/ \E flagged \in BOOLEAN :
          \/ send_from_isr(flagged)
          \/ object = "queue" /\ receive_from_isr(flagged)

-----------------------------------------------------------------------------
Roused(op) == {t \in Task : call[t].op = op /\ call[t].phase \in {"trying", "woken", "late"}}

(* Nobody waits for an item that is there: while a receiver is blocked,    *)
(* every item is spoken for by another receiver that is about to take it.  *)
ReceiversKeepMoving ==
    Waiting({"receive"}) # {} => level <= Cardinality(Roused("receive"))

(* A send "blocks indefinitely until space frees up"                       *)
(* (SafeQueues_Example.ino:42): while a sender is blocked, every free      *)
(* place is spoken for by another sender that is about to fill it.  After  *)
(* a reset() under several senders it is not.                              *)
SendersKeepMoving ==
    Waiting({"send"}) # {} => length - level <= Cardinality(Roused("send"))
=============================================================================
