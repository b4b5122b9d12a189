--------------------------- MODULE StreamBuffers ---------------------------
(***************************************************************************)
(* StreamBuffer and MessageBuffer (StreamBuffer.hpp) with their one writer *)
(* and one reader, and TaskNotification (TaskNotification.cpp), which      *)
(* uses the notification on which the kernel makes these two wait: a       *)
(* reader that is notified returns, whatever there is to read.             *)
(***************************************************************************)
EXTENDS Scheduler

CONSTANTS Writer, Reader,  (* the tasks that send and receive                *)
          Shapes,          (* the buffers considered: BufferSize,            *)
                           (* TriggerLevel, and whether a static buffer is   *)
                           (* used (not on AVR)                              *)
          Header,          (* sizeof(size_t), stored with each message       *)
          Lengths,         (* the lengths sent and received                  *)
          Notifiable,      (* the tasks that are notified                    *)
          MaxNotified      (* bound: the notifications a task has not taken  *)

Shape == [BufferSize : Nat, TriggerLevel : Nat, static : BOOLEAN]

(* The static_asserts of the two classes.                                  *)
ASSUME StreamAssumption ==
    /\ Writer \cup Reader \cup Notifiable \subseteq Task
    /\ Header \in Nat \ {0} /\ Lengths \subseteq Nat \ {0}
    /\ MaxNotified \in Nat
    /\ \A s \in Shapes : s \in Shape /\ s.TriggerLevel \in 1 .. s.BufferSize

VARIABLES shape,           (* the buffer considered                          *)
          framed,          (* is it a MessageBuffer?                         *)
          bytes,           (* bytes in use                                   *)
          messages,        (* the lengths of the messages in it              *)
          notified         (* the notification value of each task            *)

stream == <<shape, framed, bytes, messages, notified>>

StreamInit(object) ==
    /\ shape \in Shapes
    /\ framed = (object = "message")
    /\ framed => shape.BufferSize > Header
    /\ bytes = 0 /\ messages = <<>>
    /\ notified = [t \in Task |-> 0]

NoStream ==
    /\ shape = [BufferSize |-> 1, TriggerLevel |-> 1, static |-> TRUE]
    /\ framed = FALSE /\ bytes = 0 /\ messages = <<>>
    /\ notified = [t \in Task |-> 0]

StreamCall(op, n, ms) == [NoCall EXCEPT !.op = op, !.len = n, !.ms = ms]

StreamCalls(t) ==
    {StreamCall(op, n, ms) :
        op \in {o \in {"write", "read"} : t \in IF o = "write" THEN Writer ELSE Reader},
        n \in Lengths, ms \in Timeouts}

-----------------------------------------------------------------------------
(* The static kernel buffer keeps a byte of what it is given free, the     *)
(* dynamic one adds a byte.                                                *)
Capacity == IF shape.static THEN shape.BufferSize - 1 ELSE shape.BufferSize

Trigger == IF framed THEN 1 ELSE shape.TriggerLevel

Space == Capacity - bytes

(* The room a send waits for: a message is all or nothing, a stream takes  *)
(* as much as there can be.                                                *)
Need(n) == IF framed THEN n + Header ELSE IF n < Capacity THEN n ELSE Capacity

(* A stream of capacity 0 takes nothing at all.                            *)
NeverFits(n) == Capacity = 0 \/ Need(n) > Capacity

LeastOf(a, b) == IF a < b THEN a ELSE b

Store(n) ==
    /\ bytes' = bytes + n
    /\ messages' = IF framed /\ n > 0 THEN Append(messages, n - Header) ELSE messages
    /\ UNCHANGED <<shape, framed, notified>>

(* A blocked reader is woken when the level reaches the trigger.           *)
ReaderWoken(b) == IF b >= Trigger THEN Waiting({"read"}) ELSE {}

(* What is written without the room that was asked for: a stream takes     *)
(* what it can, but a late send goes by the room it saw before it waited   *)
(* or, if that was none, looks again.                                      *)
Written(n, late) ==
    LET most == IF framed THEN (IF Need(n) <= Space THEN Need(n) ELSE 0) ELSE LeastOf(n, Space)
    IN  IF ~late \/ most = 0 THEN {most}
        ELSE IF framed THEN {0, most} ELSE 1 .. most

write(t) ==
    LET n == call[t].len
        late == call[t].phase = "late"
    IN  /\ Tries(t, {"write"})
        /\ \/ /\ Space < Need(n) /\ Need(n) <= Capacity /\ Patient(t)
              /\ Block(t, {})
              /\ UNCHANGED stream
           \/ /\ Space >= Need(n) \/ Need(n) > Capacity \/ ~Patient(t)
              /\ \E k \in Written(n, late) :
                    /\ Store(k)
                    /\ \/ k > 0 /\ Return(t, ReaderWoken(bytes + k))
                       \/ k = 0 /\ Refuse(t, {})

write_from_isr(n, flagged) ==
    \E k \in Written(n, FALSE) :
        /\ k > 0
        /\ Store(k)
        /\ IsrCall(ReaderWoken(bytes + k), flagged)

(* What a buffer of n bytes takes: a message that is too long stays.       *)
Readable(n) ==
    IF framed THEN (IF messages # <<>> /\ Head(messages) <= n THEN Head(messages) + Header ELSE 0)
    ELSE LeastOf(n, bytes)

Fetch(k) ==
    /\ bytes' = bytes - k
    /\ messages' = IF framed THEN Tail(messages) ELSE messages
    /\ UNCHANGED <<shape, framed, notified>>

(* A read waits once: whoever wakes it, it returns with what is there,     *)
(* which may be nothing.                                                   *)
read(t) ==
    LET k == Readable(call[t].len)
    IN  /\ Tries(t, {"read"})
        /\ \/ /\ call[t].phase = "trying" /\ bytes = 0 /\ Patient(t)
              /\ Block(t, {})
              /\ UNCHANGED stream
           \/ /\ k > 0
              /\ Fetch(k)
              /\ Return(t, Waiting({"write"}))
           \/ /\ k = 0
              /\ call[t].phase = "trying" => bytes > 0 \/ ~Patient(t)
              /\ Refuse(t, {})
              /\ UNCHANGED stream

read_from_isr(n, flagged) ==
    LET k == Readable(n)
    IN  /\ k > 0
        /\ Fetch(k)
        /\ IsrCall(Waiting({"write"}), flagged)

(* Refused while somebody waits.                                           *)
reset_buffer(t) ==
    /\ Idles(t) /\ exists
    /\ Waiting({"read", "write"}) = {}
    /\ bytes' = 0 /\ messages' = <<>>
    /\ UNCHANGED <<kernel, shape, framed, notified>>

-----------------------------------------------------------------------------
(* TaskNotification.                                                       *)

AwaitCall(c, ms) == [NoCall EXCEPT !.op = "await", !.clear = c, !.ms = ms]

AwaitCalls == {AwaitCall(c, ms) : c \in BOOLEAN, ms \in Timeouts}

Notified(u) == Waiting({"await", "read", "write"}) \cap {u}

Give(u) ==
    /\ u \in Notifiable /\ notified[u] < MaxNotified
    /\ notified' = [notified EXCEPT ![u] = @ + 1]
    /\ UNCHANGED <<shape, framed, bytes, messages>>

notify(t, u) ==
    /\ Idles(t)
    /\ Give(u)
    /\ Reschedule(Woken(call, Notified(u)))
    /\ UNCHANGED <<exists, suspended, isr, refused>>

notify_from_isr(u, flagged) == Give(u) /\ IsrCall(Notified(u), flagged)

await(t) ==
    /\ Tries(t, {"await"})
    /\ \/ /\ notified[t] > 0
          /\ notified' = [notified EXCEPT ![t] = IF call[t].clear THEN 0 ELSE @ - 1]
          /\ Return(t, {})
       \/ /\ notified[t] = 0
          /\ BlockOrRefuse(t, {})
          /\ UNCHANGED notified
    /\ UNCHANGED <<shape, framed, bytes, messages>>

StreamStep ==
    \/ \E t \in Task : write(t) \/ read(t) \/ reset_buffer(t)
    \/ \E n \in Lengths, flagged \in BOOLEAN : write_from_isr(n, flagged) \/ read_from_isr(n, flagged)

NotificationStep ==
    \/ \E t, u \in Task : notify(t, u)
    \/ \E t \in Task : await(t)
    \/ \E u \in Task, flagged \in BOOLEAN : notify_from_isr(u, flagged)

-----------------------------------------------------------------------------
StreamTypeOK ==
    /\ shape \in Shape /\ framed \in BOOLEAN
    /\ bytes \in 0 .. Capacity /\ messages \in Seq(Lengths)
    /\ notified \in [Task -> 0 .. MaxNotified]

(* Nobody waits for what is there: room, the trigger level, a notification.*)
StreamKeepsMoving ==
    /\ Waiting({"read"}) # {} => bytes < Trigger
    /\ \A t \in Waiting({"write"}) : Space < Need(call[t].len)
    /\ \A t \in Waiting({"await"}) : notified[t] = 0

(* The writer and the reader of a buffer do not wait for each other.       *)
(* Whether they do depends on the shape: it fails for a static buffer      *)
(* whose trigger level is its size, which StreamBuffer.hpp:27 lets it be.  *)
NobodyStranded == Waiting({"read"}) = {} \/ Waiting({"write"}) = {}
=============================================================================
