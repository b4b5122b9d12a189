------------------------------ MODULE Signals ------------------------------
(***************************************************************************)
(* The blocking classes over one scheduler: the tasks and interrupts of a  *)
(* program share one object, which is chosen first, and beside a stream    *)
(* or message buffer the notifications of its tasks.                       *)
(***************************************************************************)
EXTENDS SafeQueues, EventGroups, StreamBuffers

CONSTANT Objects           (* the classes considered                         *)

VARIABLE object

vars == <<kernel, queue, group, stream, object>>

QueueObject == {"queue", "binary", "counting"}

StreamObject == {"stream", "message", "notification"}

ASSUME ObjectAssumption == Objects \subseteq QueueObject \cup StreamObject \cup {"group"}

Calls(t) ==
    CASE object \in QueueObject    -> QueueCalls(object)
      [] object = "group"          -> GroupCalls[t]
      [] object = "notification"   -> AwaitCalls
      [] object \in {"stream", "message"} -> StreamCalls(t)

Init ==
    /\ object \in Objects
    /\ SchedulerInit
    /\ object = "notification" => exists
    /\ GroupInit
    /\ IF object \in QueueObject THEN QueueInit(object) ELSE NoQueue
    /\ IF object \in {"stream", "message"} THEN StreamInit(object) ELSE NoStream

Ask(t) ==
    /\ \E c \in Calls(t) : Begin(t, c)
    /\ UNCHANGED <<queue, group, stream, object>>

KernelNext == SchedulerStep /\ UNCHANGED <<queue, group, stream, object>>

QueueNext ==
    /\ object \in QueueObject
    /\ QueueStep(object)
    /\ UNCHANGED <<group, stream, object>>

GroupNext ==
    /\ object = "group"
    /\ GroupStep
    /\ UNCHANGED <<queue, stream, object>>

StreamNext ==
    /\ object \in {"stream", "message"}
    /\ StreamStep
    /\ UNCHANGED <<queue, group, object>>

NotificationNext ==
    /\ object \in StreamObject
    /\ NotificationStep
    /\ UNCHANGED <<queue, group, object>>

Next ==
    \/ \E t \in Task : Ask(t)
    \/ KernelNext
    \/ QueueNext
    \/ GroupNext
    \/ StreamNext
    \/ NotificationNext

Spec == Init /\ [][Next]_vars

-----------------------------------------------------------------------------
TypeOK ==
    /\ object \in Objects
    /\ SchedulerTypeOK /\ GroupTypeOK /\ StreamTypeOK
    /\ length \in Nat /\ level \in 0 .. length

(* A task of higher priority is never kept off the core by one below it,   *)
(* whatever woke it: a task, a timeout or a method called in an interrupt, *)
(* which must ask for the switch if and only if its caller has not taken   *)
(* that on itself (SafeQueues.hpp:61).  Only a daemon that is to clear     *)
(* bits for EventGroup::clear_from_isr may have to wait.                   *)
HighestRuns ==
    \/ isr.active \/ suspended
    \/ \A t \in Ready(call) :
          \/ Priority[t] <= Priority[running]
          \/ t = Daemon /\ \E i \in 1 .. Len(pended) : pended[i].op = "clear"

(* Nobody is blocked for what is there, unless somebody else is about to   *)
(* take it: whoever takes, gives, times out or is faster than the one who  *)
(* was woken, and after a reset() under one blocked sender at most.        *)
NobodyForgotten ==
    /\ object \in QueueObject => ReceiversKeepMoving /\ SendersKeepMoving
    /\ object = "group" => SatisfiedAreReleased
    /\ object \in StreamObject => StreamKeepsMoving

(* With the default timeout 0xFFFFFFFF nobody is turned away because       *)
(* others were faster, another waiter was served or the object was reset:  *)
(* a call comes back empty-handed only from a null handle, from a buffer   *)
(* that could never take what is sent, or as a receive of a buffer, which  *)
(* waits once (StreamBuffer.hpp:84) and ends with what is there then.      *)
ForeverIsPatient ==
    [][\A t \in refused' \ refused :
          \/ ~exists
          \/ call[t].op = "write" /\ NeverFits(call[t].len)
          \/ call[t].op = "read"]_vars
=============================================================================
