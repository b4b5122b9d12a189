--------------------------- MODULE SignalsProofs ---------------------------
(***************************************************************************)
(* The blocking classes over one scheduler, for any number of tasks with   *)
(* any priorities, any calls of theirs, and any lengths and shapes.        *)
(*                                                                         *)
(* The invariant Inv: the kernel is KernelOK (every call in progress is    *)
(* one the program makes, and the core is with one of the highest unless a *)
(* switch is on its way), each object is in a state of its own, and nobody *)
(* waits for what is there.  Each class has its reason for the latter:     *)
(*   a queue      an item left over has a receiver on its way to it, for   *)
(*                each item one, and a free place a sender (Spoken);       *)
(*   a group      whoever sets bits wakes all whose condition holds, and   *)
(*                nobody begins to wait whose condition holds already;     *)
(*   a buffer     a writer waits for more room than there is, a reader for *)
(*                more bytes.  Taking a message takes no more bytes than   *)
(*                there are: they are those of the messages (Framing).     *)
(*                                                                         *)
(* What a class promises on a condition has it as a hypothesis:            *)
(* CrowdedReset, OneRendezvous and Fits, each explained where it is        *)
(* defined.                                                                *)
(***************************************************************************)
EXTENDS Signals, FiniteSetTheorems, SequenceTheorems, TLAPS

NoShape == [BufferSize |-> 1, TriggerLevel |-> 1, static |-> TRUE]

TaskOp == Op \ {"serve"}

MayWrite(n) == object \in {"stream", "message"} /\ n \in Lengths

(* Call c of task t is one that the program makes.                         *)
CallOK(t, c) ==
    /\ c \in AnyCall
    /\ c.ticks = Ticks(c.ms)
    /\ c.phase = "late" => c.ticks = "finite"
    /\ c.phase = "none" <=> c.op = "none"
    /\ c.op \in TaskOp
    /\ c.op \in GroupOp =>
          \E d \in GroupCalls[t] :
              d.op = c.op /\ d.set = c.set /\ d.want = c.want /\ d.clear = c.clear
    /\ c.op = "write" => MayWrite(c.len) /\ (c.phase = "blocked" => Need(c.len) <= Capacity)

(* The core is where it belongs, unless a switch is on its way.            *)
ClearPosted == \E i \in 1 .. Len(pended) : pended[i].op = "clear"

Dispatched ==
    \/ suspended \/ isr.flag \/ isr.switch
    \/ \A t \in Ready(call) :
          Priority[t] <= Priority[running] \/ (t = Daemon /\ ClearPosted)

CallsOK ==
    /\ call \in [Thread -> AnyCall]
    /\ call[Daemon].op = "serve"
    /\ \A t \in Task : CallOK(t, call[t])

KernelOK ==
    /\ exists \in BOOLEAN /\ suspended \in BOOLEAN
    /\ running \in Thread \cup {Idle}
    /\ isr \in [active : BOOLEAN, flag : BOOLEAN, switch : BOOLEAN]
    /\ isr.active \/ isr = NoInterrupt
    /\ refused \subseteq Task
    /\ CallsOK
    /\ Dispatched

-----------------------------------------------------------------------------
(* What a step does to the calls: thread t is in call c after it, the      *)
(* threads ts have been woken, the others are where they were.  A step of  *)
(* an interrupt is one of no thread.                                       *)
Moved(t, c, ts) ==
    \A u \in Thread :
        call'[u] = IF u = t THEN c
                   ELSE IF u \in ts THEN [call[u] EXCEPT !.phase = "woken"] ELSE call[u]

Blocked == {t \in Thread : call[t].phase = "blocked"}

(* Whatever a step has done to the calls, rescheduling leaves the core to  *)
(* one of the highest.                                                     *)
LEMMA Rescheduled ==
    ASSUME SchedulerAssumption, running \in Thread \cup {Idle}, NEW c, Reschedule(c),
           suspended' = suspended
    PROVE  running' \in Thread \cup {Idle} /\ Dispatched'
<1>1. running' \in Highest(c) \/ (suspended /\ running' = running)
  BY DEF Reschedule
<1>2. Highest(c) \subseteq Thread \cup {Idle}
  BY DEF Highest, Top, Ready
<1>3. running' \in Highest(c) => \A t \in Ready(c) : Priority[t] <= Priority[running']
  BY DEF Highest, Top
<1>4. call' = c
  BY DEF Reschedule
<1> QED  BY <1>1, <1>2, <1>3, <1>4 DEF Dispatched, Ready

(* The same, field by field.                                               *)
LEMMA MovedFields ==
    ASSUME CallsOK, NEW t, NEW c, NEW ts, Moved(t, c, ts)
    PROVE  \A u \in Thread :
              /\ u = t => call'[u] = c
              /\ u # t => /\ call'[u].op = call[u].op /\ call'[u].set = call[u].set
                          /\ call'[u].want = call[u].want /\ call'[u].clear = call[u].clear
                          /\ call'[u].len = call[u].len
                          /\ call'[u].phase = IF u \in ts THEN "woken" ELSE call[u].phase
<1> SUFFICES ASSUME NEW u \in Thread
             PROVE  /\ u = t => call'[u] = c
                    /\ u # t =>
                          /\ call'[u].op = call[u].op /\ call'[u].set = call[u].set
                          /\ call'[u].want = call[u].want /\ call'[u].clear = call[u].clear
                          /\ call'[u].len = call[u].len
                          /\ call'[u].phase = IF u \in ts THEN "woken" ELSE call[u].phase
  OBVIOUS
<1>1. call[u] \in AnyCall
  BY DEF CallsOK
<1>2. call'[u] = IF u = t THEN c
                 ELSE IF u \in ts THEN [call[u] EXCEPT !.phase = "woken"] ELSE call[u]
  BY DEF Moved
<1> QED  BY <1>1, <1>2 DEF AnyCall

LEMMA NoCallIs == NoCall.op = "none" /\ NoCall.phase = "none"
BY DEF NoCall

LEMMA ReturnMoves ==
    ASSUME SchedulerAssumption, CallsOK, NEW t \in Thread, NEW ts, Return(t, ts) \/ Refuse(t, ts)
    PROVE  Moved(t, NoCall, ts)
<1>1. call' = [Woken(call, ts) EXCEPT ![t] = NoCall]
  BY DEF Return, Refuse, Reschedule
<1> QED  BY <1>1 DEF Moved, Woken

LEMMA BlockMoves ==
    ASSUME SchedulerAssumption, CallsOK, NEW t \in Thread, NEW ts, Block(t, ts)
    PROVE  Moved(t, [call[t] EXCEPT !.phase = "blocked"], ts)
<1>1. call' = [Woken(call, ts) EXCEPT ![t].phase = "blocked"]
  BY DEF Block, Reschedule
<1>2. call[t] \in AnyCall
  BY DEF CallsOK
<1>3. [[call[t] EXCEPT !.phase = "woken"] EXCEPT !.phase = "blocked"]
         = [call[t] EXCEPT !.phase = "blocked"]
  BY <1>2 DEF AnyCall
<1> QED  BY <1>1, <1>3 DEF Moved, Woken

LEMMA WakingMoves ==
    ASSUME SchedulerAssumption, CallsOK, NEW ts, call' = Woken(call, ts)
    PROVE  Moved(Idle, NoCall, ts)
BY DEF SchedulerAssumption, Moved, Woken

(* A call that is made goes on being one, while its task waits or wakes.   *)
LEMMA WokenOK ==
    ASSUME NEW t \in Task, NEW c, CallOK(t, c), c.phase = "blocked"
    PROVE  CallOK(t, [c EXCEPT !.phase = "woken"])
<1> DEFINE w == [c EXCEPT !.phase = "woken"]
<1>1. /\ w \in AnyCall /\ w.op = c.op /\ w.set = c.set /\ w.want = c.want /\ w.clear = c.clear
      /\ w.len = c.len /\ w.ms = c.ms /\ w.ticks = c.ticks /\ w.phase = "woken"
  BY DEF CallOK, AnyCall, Phase
<1> HIDE DEF w
<1>2. w.op \in GroupOp =>
          \E d \in GroupCalls[t] :
              d.op = w.op /\ d.set = w.set /\ d.want = w.want /\ d.clear = w.clear
  BY <1>1 DEF CallOK
<1>3. w.ticks = Ticks(w.ms)
  BY <1>1 DEF CallOK
<1>4. w.op # "none" /\ w.op \in TaskOp
  BY <1>1 DEF CallOK
<1>5. w.op = "write" => MayWrite(w.len)
  BY <1>1 DEF CallOK
<1>6. CallOK(t, w)
  BY <1>1, <1>2, <1>3, <1>4, <1>5 DEF CallOK
<1> QED  BY <1>6 DEF w

LEMMA NoCallOK ==
    ASSUME NEW t \in Task
    PROVE  CallOK(t, NoCall)
<1>1. NoCall \in AnyCall
  BY DEF NoCall, AnyCall, Op, Timeouts, Phase
<1>2. NoCall.op = "none" /\ NoCall.phase = "none" /\ NoCall.ticks = Ticks(NoCall.ms)
  BY DEF NoCall, Ticks
<1> QED  BY <1>1, <1>2 DEF CallOK, TaskOp, Op, GroupOp

LEMMA MovedOK ==
    ASSUME SchedulerAssumption, CallsOK, call' \in [Thread -> AnyCall],
           UNCHANGED <<object, shape, framed>>,
           NEW t \in Thread \cup {Idle}, NEW c, NEW ts, ts \subseteq Blocked, Moved(t, c, ts),
           t \in Task => CallOK(t, c), t = Daemon => c.op = "serve"
    PROVE  CallsOK'
<1>1. Daemon \in Thread /\ Daemon \notin Task /\ Task \subseteq Thread
  BY DEF SchedulerAssumption, Thread
<1>2. call'[Daemon].op = "serve"
  <2>1. CASE t = Daemon
    BY <1>1, <2>1 DEF Moved
  <2>2. CASE t # Daemon
    <3>1. call[Daemon] \in AnyCall
      BY <1>1 DEF CallsOK
    <3> QED  BY <1>1, <2>2, <3>1 DEF Moved, CallsOK, AnyCall
  <2> QED  BY <2>1, <2>2
<1>3. ASSUME NEW u \in Task PROVE CallOK(u, call'[u])
  <2>1. call'[u] = IF u = t THEN c
                   ELSE IF u \in ts THEN [call[u] EXCEPT !.phase = "woken"] ELSE call[u]
    BY <1>1 DEF Moved
  <2>2. CallOK(u, call[u])
    BY DEF CallsOK
  <2>3. u \in ts => CallOK(u, [call[u] EXCEPT !.phase = "woken"])
    BY <2>2, WokenOK DEF Blocked
  <2> QED  BY <2>1, <2>2, <2>3
<1>4. ASSUME NEW u \in Task PROVE CallOK(u, call[u])'
  BY <1>3 DEF CallOK, MayWrite, Need, Capacity
<1> QED  BY <1>2, <1>4 DEF CallsOK

LEMMA WokenTyped ==
    ASSUME CallsOK, NEW ts
    PROVE  Woken(call, ts) \in [Thread -> AnyCall]
BY DEF CallsOK, Woken, AnyCall, Phase

-----------------------------------------------------------------------------
(* The ways in which the methods end, each of which leaves the kernel in   *)
(* order.                                                                  *)

LEMMA TaskStep ==
    ASSUME SchedulerAssumption, KernelOK,
           exists' = exists, suspended' = suspended, isr' = isr, refused' \subseteq Task,
           CallsOK', NEW c, Reschedule(c)
    PROVE  KernelOK'
<1>1. running' \in Thread \cup {Idle} /\ Dispatched'
  BY Rescheduled DEF KernelOK
<1> QED  BY <1>1 DEF KernelOK

LEMMA ReturnOK ==
    ASSUME SchedulerAssumption, KernelOK, UNCHANGED <<object, shape, framed>>,
           NEW t \in Task, NEW ts, ts \subseteq Blocked, Return(t, ts) \/ Refuse(t, ts)
    PROVE  KernelOK' /\ Moved(t, NoCall, ts)
<1>1. t \in Thread /\ CallsOK /\ refused \subseteq Task
  BY DEF Thread, KernelOK
<1>2. Moved(t, NoCall, ts)
  BY <1>1, ReturnMoves
<1>3. Reschedule([Woken(call, ts) EXCEPT ![t] = NoCall])
  BY DEF Return, Refuse
<1>4. NoCall \in AnyCall /\ CallOK(t, NoCall)
  BY NoCallOK DEF CallOK
<1>5. call' \in [Thread -> AnyCall]
  BY <1>1, <1>3, <1>4, WokenTyped DEF Reschedule
<1>6. CallsOK'
  BY <1>1, <1>2, <1>4, <1>5, MovedOK DEF SchedulerAssumption
<1>7. exists' = exists /\ suspended' = suspended /\ isr' = isr /\ refused' \subseteq Task
  BY <1>1 DEF Return, Refuse, RefusedTo
<1> QED  BY <1>2, <1>3, <1>6, <1>7, TaskStep

LEMMA BlockOK ==
    ASSUME SchedulerAssumption, KernelOK, UNCHANGED <<object, shape, framed>>,
           NEW t \in Thread, NEW ts, ts \subseteq Blocked, Block(t, ts),
           call[t].phase # "none",
           call[t].op = "write" => Need(call[t].len) <= Capacity
    PROVE  KernelOK' /\ Moved(t, [call[t] EXCEPT !.phase = "blocked"], ts) /\ refused' = refused
<1> DEFINE c == [call[t] EXCEPT !.phase = "blocked"]
<1>1. CallsOK /\ refused \subseteq Task
  BY DEF KernelOK
<1>2. Moved(t, c, ts)
  BY <1>1, BlockMoves
<1>3. Reschedule([Woken(call, ts) EXCEPT ![t].phase = "blocked"])
  BY DEF Block
<1>4. call[t] \in AnyCall
  BY <1>1 DEF CallsOK
<1>5. /\ c \in AnyCall /\ c.op = call[t].op /\ c.set = call[t].set /\ c.want = call[t].want
      /\ c.clear = call[t].clear /\ c.len = call[t].len /\ c.ms = call[t].ms
      /\ c.ticks = call[t].ticks /\ c.phase = "blocked"
  BY <1>4 DEF AnyCall, Phase
<1>6. [Woken(call, ts) EXCEPT ![t].phase = "blocked"] \in [Thread -> AnyCall]
  BY <1>1, WokenTyped DEF AnyCall, Phase
<1>7. call' \in [Thread -> AnyCall]
  BY <1>3, <1>6 DEF Reschedule
<1> HIDE DEF c
<1>8. t \in Task => CallOK(t, c)
  <2> SUFFICES ASSUME t \in Task PROVE CallOK(t, c)
    OBVIOUS
  <2>1. CallOK(t, call[t])
    BY <1>1 DEF CallsOK
  <2>2. c.op \in GroupOp =>
            \E d \in GroupCalls[t] :
                d.op = c.op /\ d.set = c.set /\ d.want = c.want /\ d.clear = c.clear
    BY <1>5, <2>1 DEF CallOK
  <2>3. c.ticks = Ticks(c.ms)
    BY <1>5, <2>1 DEF CallOK
  <2>4. c.op # "none" /\ c.op \in TaskOp
    BY <1>5, <2>1 DEF CallOK
  <2>5. c.op = "write" => MayWrite(c.len) /\ Need(c.len) <= Capacity
    BY <1>5, <2>1 DEF CallOK
  <2> QED  BY <1>5, <2>2, <2>3, <2>4, <2>5 DEF CallOK
<1>9. t = Daemon => c.op = "serve"
  BY <1>1, <1>5 DEF CallsOK
<1>10. CallsOK'
  BY <1>1, <1>2, <1>7, <1>8, <1>9, MovedOK
<1>11. exists' = exists /\ suspended' = suspended /\ isr' = isr /\ refused' = refused
  BY DEF Block
<1> QED  BY <1>1, <1>2, <1>3, <1>10, <1>11, TaskStep DEF c

LEMMA WakingOK ==
    ASSUME SchedulerAssumption, KernelOK, UNCHANGED <<object, shape, framed>>,
           NEW ts, ts \subseteq Blocked, Reschedule(Woken(call, ts)),
           UNCHANGED <<exists, suspended, isr, refused>>
    PROVE  KernelOK' /\ Moved(Idle, NoCall, ts)
<1>1. CallsOK /\ refused \subseteq Task
  BY DEF KernelOK
<1>2. Moved(Idle, NoCall, ts)
  BY <1>1, WakingMoves DEF Reschedule
<1>3. call' \in [Thread -> AnyCall]
  BY <1>1, WokenTyped DEF Reschedule
<1>4. Idle \notin Task /\ Idle # Daemon
  BY DEF SchedulerAssumption, Thread
<1>5. CallsOK'
  BY <1>1, <1>2, <1>3, <1>4, MovedOK
<1> QED  BY <1>1, <1>2, <1>5, TaskStep

(* A method called in an interrupt wakes ts and leaves the core to the     *)
(* task it has interrupted: if one above that has been woken, a switch is  *)
(* on its way.  That is what the daemon is denied which is to clear bits.  *)
LEMMA IsrOK ==
    ASSUME SchedulerAssumption, KernelOK, UNCHANGED <<object, shape, framed>>,
           NEW ts, ts \subseteq Blocked, NEW flagged \in BOOLEAN,
           \/ IsrCall(ts, flagged)
           \/ IsrWakes(ts) /\ isr' = isr /\ ts \subseteq {Daemon} /\ ClearPosted',
           ClearPosted => ClearPosted'
    PROVE  KernelOK' /\ Moved(Idle, NoCall, ts) /\ refused' = refused
<1>1. CallsOK /\ Dispatched
  BY DEF KernelOK
<1>2. call' = Woken(call, ts) /\ UNCHANGED <<exists, running, suspended, refused>> /\ isr.active
  BY DEF IsrCall, IsrWakes
<1>3. Moved(Idle, NoCall, ts)
  BY <1>1, <1>2, WakingMoves
<1>4. Idle \notin Task /\ Idle # Daemon
  BY DEF SchedulerAssumption, Thread
<1>5. CallsOK'
  BY <1>1, <1>2, <1>3, <1>4, MovedOK, WokenTyped
<1>6. /\ isr' \in [active : BOOLEAN, flag : BOOLEAN, switch : BOOLEAN] /\ isr'.active
      /\ isr.flag => isr'.flag
      /\ isr.switch => isr'.switch
  BY <1>2 DEF IsrCall, Reported, KernelOK
<1>7. Ready(call') \subseteq Ready(call) \cup ts
  BY <1>3, <1>4 DEF Moved, Ready, Thread
<1>8. CASE IsrCall(ts, flagged)
  <2> DEFINE woke == \E t \in ts : Priority[t] > Priority[running]
  <2>1. isr' = Reported(flagged, woke)
    BY <1>8 DEF IsrCall
  <2>2. woke \in BOOLEAN
    OBVIOUS
  <2>3. woke => isr'.flag \/ isr'.switch
    <3> HIDE DEF woke
    <3> QED  BY <2>1, <2>2 DEF Reported, KernelOK
  <2>4. ~woke => \A t \in ts : Priority[t] <= Priority[running]
    BY DEF SchedulerAssumption, KernelOK, Blocked
  <2>5. Dispatched'
    BY <1>1, <1>2, <1>6, <1>7, <2>3, <2>4 DEF Dispatched
  <2> QED  BY <1>2, <1>3, <1>5, <1>6, <2>5 DEF KernelOK
<1>9. CASE IsrWakes(ts) /\ isr' = isr /\ ts \subseteq {Daemon} /\ ClearPosted'
  <2>1. Dispatched'
    BY <1>1, <1>2, <1>7, <1>9 DEF Dispatched
  <2> QED  BY <1>2, <1>3, <1>5, <1>6, <2>1 DEF KernelOK
<1> QED  BY <1>8, <1>9

-----------------------------------------------------------------------------
(* The kernel's own steps and the beginning of a call make nobody wait for *)
(* an object, and take nobody away who is about to try.                    *)

AboutToTry == {"trying", "woken", "late"}

Quiet ==
    /\ \A u \in Thread :
          call'[u].phase = "blocked" /\ call'[u].op # "delay" => call'[u] = call[u]
    /\ \A u \in Task :
          call[u].phase \in AboutToTry /\ call[u].op # "delay" =>
             call'[u].op = call[u].op /\ call'[u].phase \in AboutToTry

LEMMA CallMade ==
    ASSUME ObjectAssumption, GroupAssumption, StreamAssumption, object \in Objects,
           NEW t \in Task, NEW c \in Calls(t)
    PROVE  /\ c \in AnyCall /\ c.op \in TaskOp /\ c.op # "none"
           /\ c.op \in GroupOp => c \in GroupCalls[t]
           /\ c.op = "write" => MayWrite(c.len)
<1>1. NoCall \in AnyCall
  BY NoCallOK DEF CallOK
<1>2. CASE object \in QueueObject
  <2>1. PICK ms \in Timeouts, op \in {"send", "receive"} :
            c = [NoCall EXCEPT !.op = op, !.ms = ms]
    <3>1. Calls(t) = QueueCalls(object)
      BY <1>2 DEF Calls, QueueObject
    <3>2. \A ms : ms \in (IF object = "queue" THEN Timeouts ELSE {"short"}) => ms \in Timeouts
      BY DEF Timeouts
    <3> QED  BY <3>1, <3>2 DEF QueueCalls
  <2>2. c.op = op /\ c \in AnyCall
    BY <2>1, <1>1 DEF AnyCall, Op
  <2> QED  BY <2>2 DEF TaskOp, Op, GroupOp
<1>3. CASE object = "group"
  <2>1. c \in GroupCalls[t]
    BY <1>3 DEF Calls, QueueObject
  <2> QED  BY <2>1 DEF GroupAssumption, TaskOp, Op, GroupOp
<1>4. CASE object = "notification"
  <2>1. PICK b \in BOOLEAN, ms \in Timeouts :
            c = AwaitCall(b, ms)
    <3>1. Calls(t) = AwaitCalls
      BY <1>4 DEF Calls, QueueObject
    <3> QED  BY <3>1, SMT DEF AwaitCalls
  <2>2. c.op = "await" /\ c \in AnyCall
    BY <2>1, <1>1 DEF AwaitCall, AnyCall, Op
  <2> QED  BY <2>2 DEF TaskOp, Op, GroupOp
<1>5. CASE object \in {"stream", "message"}
  <2>1. PICK op \in {"write", "read"}, n \in Lengths, ms \in Timeouts :
            c = StreamCall(op, n, ms)
    <3>1. Calls(t) = StreamCalls(t)
      BY <1>5 DEF Calls, QueueObject
    <3> QED  BY <3>1, SMT DEF StreamCalls
  <2>2. c.op = op /\ c \in AnyCall /\ c.len = n
    BY <2>1, <1>1 DEF StreamCall, AnyCall, Op, StreamAssumption
  <2> QED  BY <1>5, <2>1, <2>2 DEF TaskOp, Op, GroupOp, MayWrite
<1> QED  BY <1>2, <1>3, <1>4, <1>5 DEF ObjectAssumption, StreamObject

(* A call that is begun, on a handle that is not null.                     *)
LEMMA BegunOK ==
    ASSUME SchedulerAssumption, ObjectAssumption, GroupAssumption, StreamAssumption,
           KernelOK, object \in Objects, exists, NEW t \in Task, NEW c \in Calls(t), Begin(t, c),
           UNCHANGED <<queue, group, stream, object>>
    PROVE  KernelOK' /\ Quiet /\ refused' \subseteq refused
<1> DEFINE b == [c EXCEPT !.ticks = Ticks(c.ms), !.phase = "trying"]
<1>2. /\ c \in AnyCall /\ c.op \in TaskOp /\ c.op # "none"
      /\ c.op \in GroupOp => c \in GroupCalls[t]
      /\ c.op = "write" => MayWrite(c.len)
  BY CallMade
<1>3. Ticks(c.ms) \in {"none", "finite", "forever"}
  BY <1>2 DEF AnyCall, Timeouts, Ticks
<1>4. /\ b \in AnyCall /\ b.op = c.op /\ b.set = c.set /\ b.want = c.want /\ b.clear = c.clear
      /\ b.len = c.len /\ b.ms = c.ms /\ b.ticks = Ticks(c.ms) /\ b.phase = "trying"
  BY <1>2, <1>3 DEF AnyCall, Phase
<1>5. call' = [call EXCEPT ![t] = b]
  BY DEF Begin
<1>6. /\ UNCHANGED <<exists, running, suspended, isr, pended, object, shape, framed>>
      /\ running = t /\ call[t].phase = "none" /\ refused' \subseteq refused
  BY DEF Begin, group, stream
<1> HIDE DEF b
<1>7. CallOK(t, b)
  <2>1. b.op \in GroupOp =>
            \E d \in GroupCalls[t] :
                d.op = b.op /\ d.set = b.set /\ d.want = b.want /\ d.clear = b.clear
    BY <1>2, <1>4
  <2> QED  BY <1>2, <1>4, <2>1 DEF CallOK
<1>8. t \in Thread /\ t # Daemon /\ call \in [Thread -> AnyCall]
  BY DEF SchedulerAssumption, Thread, KernelOK, CallsOK
<1>9. call' \in [Thread -> AnyCall] /\ Moved(t, b, {})
  BY <1>4, <1>5, <1>8 DEF Moved
<1>10. CallsOK'
  BY <1>6, <1>7, <1>8, <1>9, MovedOK DEF KernelOK
<1>11. Ready(call') \subseteq Ready(call)
  BY <1>5, <1>6, <1>8 DEF Ready
<1>12. Dispatched'
  BY <1>6, <1>11 DEF Dispatched, ClearPosted, KernelOK
<1>13. KernelOK'
  BY <1>6, <1>10, <1>12 DEF KernelOK
<1>14. Quiet
  BY <1>4, <1>5, <1>6, <1>8 DEF Quiet, AboutToTry, Thread
<1> QED  BY <1>6, <1>13, <1>14

(* On a null handle the call returns at once.                              *)
LEMMA AskOK ==
    ASSUME SchedulerAssumption, ObjectAssumption, GroupAssumption, StreamAssumption,
           KernelOK, object \in Objects, NEW t \in Task, Ask(t)
    PROVE  KernelOK' /\ Quiet /\ (exists => refused' \subseteq refused)
<1>1. PICK c \in Calls(t) : Begin(t, c)
  BY DEF Ask
<1>2. CASE exists
  BY <1>1, <1>2, BegunOK DEF Ask
<1>3. CASE ~exists
  <2>1. /\ UNCHANGED <<exists, running, suspended, isr, call, pended, object, shape, framed>>
        /\ refused' \subseteq refused \cup {t}
    BY <1>1, <1>3 DEF Begin, Ask, RefusedTo, group, stream
  <2>2. CallsOK'
    BY <2>1 DEF KernelOK, CallsOK, CallOK, MayWrite, Need, Capacity
  <2>3. Dispatched'
    BY <2>1 DEF KernelOK, Dispatched, ClearPosted
  <2> QED  BY <1>3, <2>1, <2>2, <2>3 DEF KernelOK, Quiet
<1> QED  BY <1>2, <1>3

LEMMA KernelNextOK ==
    ASSUME SchedulerAssumption, KernelOK, KernelNext
    PROVE  KernelOK' /\ Quiet /\ refused' \subseteq refused
<1>1. /\ CallsOK /\ Dispatched /\ refused \subseteq Task /\ Task \subseteq Thread
      /\ running \in Thread \cup {Idle} /\ call \in [Thread -> AnyCall]
      /\ Daemon \notin Task
  BY DEF KernelOK, CallsOK, Thread, SchedulerAssumption
<1>2. UNCHANGED <<object, shape, framed, pended>>
  BY DEF KernelNext, stream, group
<1>3. (call' = call) => Quiet
  BY DEF Quiet, AboutToTry
<1>4. (call' = call) => CallsOK'
  BY <1>1, <1>2 DEF CallsOK, CallOK, MayWrite, Need, Capacity
<1>5. CASE EnterIsr
  <2>1. UNCHANGED <<exists, running, suspended, call, refused>> /\ isr = NoInterrupt
    BY <1>5 DEF EnterIsr, KernelOK
  <2>2. isr' = [NoInterrupt EXCEPT !.active = TRUE]
    BY <1>5 DEF EnterIsr
  <2>3. /\ isr' \in [active : BOOLEAN, flag : BOOLEAN, switch : BOOLEAN] /\ isr'.active
        /\ isr'.flag = isr.flag /\ isr'.switch = isr.switch
    BY <2>1, <2>2 DEF NoInterrupt
  <2>4. Dispatched'
    BY <1>1, <1>2, <2>1, <2>3 DEF Dispatched, ClearPosted
  <2> QED  BY <1>3, <1>4, <2>1, <2>3, <2>4 DEF KernelOK
<1>6. CASE ExitIsr
  <2>1. UNCHANGED <<exists, suspended, refused, call>> /\ isr' = NoInterrupt
    BY <1>6 DEF ExitIsr, Reschedule
  <2>2. running' \in Thread \cup {Idle} /\ Dispatched'
    <3>1. CASE isr.flag \/ isr.switch
      BY <1>1, <1>6, <3>1, <2>1, Rescheduled DEF ExitIsr
    <3>2. CASE ~(isr.flag \/ isr.switch)
      BY <1>1, <1>2, <1>6, <3>2, <2>1 DEF ExitIsr, Dispatched, ClearPosted
    <3> QED  BY <3>1, <3>2
  <2>3. NoInterrupt \in [active : BOOLEAN, flag : BOOLEAN, switch : BOOLEAN]
    BY DEF NoInterrupt
  <2> QED  BY <1>3, <1>4, <2>1, <2>2, <2>3 DEF KernelOK
<1>7. CASE yield
  <2>1. running' \in Highest(call) /\ UNCHANGED <<exists, suspended, isr, call, refused>>
    BY <1>7 DEF yield
  <2>2. running' \in Thread \cup {Idle} /\ Dispatched'
    BY <2>1 DEF Dispatched, Highest, Top, Ready
  <2> QED  BY <1>3, <1>4, <2>1, <2>2 DEF KernelOK
<1>8. ASSUME NEW t \in Task, Timeout(t)
      PROVE  KernelOK' /\ Quiet /\ refused' \subseteq refused
  <2> DEFINE c == [call[t] EXCEPT !.phase = "late"]
  <2>1. /\ UNCHANGED <<exists, suspended, isr, refused>> /\ call' = [call EXCEPT ![t] = c]
        /\ Reschedule([call EXCEPT ![t] = c])
        /\ call[t].ticks = "finite" /\ call[t].phase \in {"blocked", "woken"}
    BY <1>8 DEF Timeout, Reschedule
  <2>2. /\ c \in AnyCall /\ c.op = call[t].op /\ c.set = call[t].set /\ c.want = call[t].want
        /\ c.clear = call[t].clear /\ c.len = call[t].len /\ c.ms = call[t].ms
        /\ c.ticks = call[t].ticks /\ c.phase = "late"
    BY <1>1 DEF AnyCall, Phase
  <2> HIDE DEF c
  <2>3. CallOK(t, call[t])
    BY <1>1 DEF CallsOK
  <2>4. CallOK(t, c)
    <3>1. c.op \in GroupOp =>
              \E d \in GroupCalls[t] :
                  d.op = c.op /\ d.set = c.set /\ d.want = c.want /\ d.clear = c.clear
      BY <2>2, <2>3 DEF CallOK
    <3>2. c.ticks = Ticks(c.ms) /\ c.ticks = "finite"
      BY <2>1, <2>2, <2>3 DEF CallOK
    <3>3. c.op # "none" /\ c.op \in TaskOp
      BY <2>1, <2>2, <2>3 DEF CallOK
    <3>4. c.op = "write" => MayWrite(c.len)
      BY <2>2, <2>3 DEF CallOK
    <3> QED  BY <2>2, <3>1, <3>2, <3>3, <3>4 DEF CallOK
  <2>5. call' \in [Thread -> AnyCall] /\ Moved(t, c, {})
    BY <1>1, <2>1, <2>2 DEF Moved
  <2>6. CallsOK'
    BY <1>1, <1>2, <2>4, <2>5, MovedOK
  <2>7. KernelOK'
    BY <1>1, <2>1, <2>6, TaskStep
  <2>8. Quiet
    BY <1>1, <2>1, <2>2 DEF Quiet, AboutToTry
  <2> QED  BY <2>1, <2>7, <2>8
<1>9. ASSUME NEW t \in Task, delay(t)
      PROVE  KernelOK' /\ Quiet /\ refused' \subseteq refused
  <2> DEFINE c == [NoCall EXCEPT !.op = "delay", !.ms = "long", !.ticks = "finite",
                                 !.phase = "blocked"]
  <2>1. /\ UNCHANGED <<exists, suspended, isr, refused>> /\ call' = [call EXCEPT ![t] = c]
        /\ Reschedule([call EXCEPT ![t] = c])
        /\ call[t].phase = "none"
    BY <1>9 DEF delay, Reschedule, Idles
  <2>2. /\ c \in AnyCall /\ c.op = "delay" /\ c.ms = "long" /\ c.ticks = "finite"
        /\ c.phase = "blocked"
    BY DEF NoCall, AnyCall, Op, Timeouts, Phase
  <2>3. c.ticks = Ticks(c.ms)
    BY <2>2 DEF Ticks
  <2> HIDE DEF c
  <2>4. CallOK(t, c)
    BY <2>2, <2>3 DEF CallOK, TaskOp, Op, GroupOp
  <2>5. call' \in [Thread -> AnyCall] /\ Moved(t, c, {})
    BY <1>1, <2>1, <2>2 DEF Moved
  <2>6. CallsOK'
    BY <1>1, <1>2, <2>4, <2>5, MovedOK
  <2>7. KernelOK'
    BY <1>1, <2>1, <2>6, TaskStep
  <2>8. Quiet
    BY <1>1, <2>1, <2>2 DEF Quiet, AboutToTry
  <2> QED  BY <2>1, <2>7, <2>8
<1>10. ASSUME NEW t \in Task, DelayEnds(t)
       PROVE  KernelOK' /\ Quiet /\ refused' \subseteq refused
  <2>1. Return(t, {}) /\ call[t].op = "delay"
    BY <1>10 DEF DelayEnds, Tries
  <2>2. KernelOK' /\ Moved(t, NoCall, {}) /\ refused' = refused
    BY <1>1, <1>2, <2>1, ReturnOK DEF Return
  <2>3. Quiet
    BY <1>1, <2>1, <2>2 DEF Quiet, AboutToTry, Moved, NoCall
  <2> QED  BY <2>2, <2>3
<1>11. ASSUME NEW t \in Task, suspend_scheduler(t)
       PROVE  KernelOK' /\ Quiet /\ refused' \subseteq refused
  BY <1>1, <1>3, <1>4, <1>11 DEF suspend_scheduler, KernelOK, Dispatched
<1>12. ASSUME NEW t \in Task, resume_scheduler(t)
       PROVE  KernelOK' /\ Quiet /\ refused' \subseteq refused
  <2>1. /\ running' \in Highest(call) /\ suspended' = FALSE
        /\ UNCHANGED <<exists, isr, call, refused>>
    BY <1>12 DEF resume_scheduler
  <2>2. running' \in Thread \cup {Idle} /\ Dispatched'
    BY <2>1 DEF Dispatched, Highest, Top, Ready
  <2> QED  BY <1>3, <1>4, <2>1, <2>2 DEF KernelOK
<1> QED  BY <1>5, <1>6, <1>7, <1>8, <1>9, <1>10, <1>11, <1>12 DEF KernelNext, SchedulerStep

-----------------------------------------------------------------------------
(* Queues and semaphores.                                                  *)

(* A call whose timeout is forever is never refused for want of patience.  *)
LEMMA AnswerOK ==
    ASSUME SchedulerAssumption, KernelOK, UNCHANGED <<object, shape, framed>>,
           NEW t \in Task, NEW ts, ts \subseteq Blocked, BlockOrRefuse(t, ts),
           call[t].phase # "none",
           call[t].op = "write" => Need(call[t].len) <= Capacity
    PROVE  /\ KernelOK' /\ refused' \subseteq refused
           /\ \/ Moved(t, NoCall, ts)
              \/ Patient(t) /\ Moved(t, [call[t] EXCEPT !.phase = "blocked"], ts)
<1>1. t \in Thread /\ CallOK(t, call[t])
  BY DEF Thread, KernelOK, CallsOK
<1>2. CASE Patient(t)
  <2>1. Block(t, ts)
    BY <1>2 DEF BlockOrRefuse
  <2> QED  BY <1>1, <1>2, <2>1, BlockOK
<1>3. CASE ~Patient(t)
  <2>1. Refuse(t, ts)
    BY <1>3 DEF BlockOrRefuse
  <2>2. call[t].ms # "0xFFFFFFFF"
    BY <1>1, <1>3 DEF Patient, CallOK, Ticks
  <2>3. refused' \subseteq refused
    BY <2>1, <2>2 DEF Refuse, RefusedTo
  <2> QED  BY <2>1, <2>3, ReturnOK
<1> QED  BY <1>2, <1>3

LEMMA OneOfWaiting ==
    ASSUME NEW ops, NEW ts \in OneOf(Waiting(ops))
    PROVE  /\ ts \subseteq Waiting(ops) /\ ts \subseteq Blocked
           /\ \/ Waiting(ops) = {} /\ ts = {}
              \/ \E u \in Waiting(ops) : ts = {u}
BY DEF OneOf, Top, Waiting, Blocked

LEMMA WaitingTasks ==
    ASSUME KernelOK, NEW ops, "serve" \notin ops
    PROVE  Waiting(ops) \subseteq Task
BY DEF Waiting, Thread, KernelOK, CallsOK

LEMMA RousedFinite ==
    ASSUME SchedulerAssumption, NEW op
    PROVE  IsFiniteSet(Roused(op)) /\ Cardinality(Roused(op)) \in Nat
<1>1. Roused(op) \in SUBSET Task
  BY DEF Roused
<1> QED  BY <1>1, FS_Subset, FS_CardinalityType DEF SchedulerAssumption

QueueOK ==
    /\ length \in Nat /\ level \in 0 .. length
    /\ object \in QueueObject => length >= 1

(* While somebody waits for one of n items, or of n places, each is spoken *)
(* for.  After a reset() under several senders free places are not.        *)
Spoken(op, n) == Waiting({op}) # {} => n <= Cardinality(Roused(op))

QueueKeepsMoving ==
    /\ Spoken("receive", level)
    /\ CrowdedReset \/ Spoken("send", length - level)

(* One more rouses one of those who wait for it.                           *)
LEMMA OneMore ==
    ASSUME SchedulerAssumption, KernelOK, NEW op \in {"send", "receive"}, NEW n \in Nat,
           Spoken(op, n),
           NEW t \in Task \cup {Idle}, t \in Task => call[t].op # op,
           NEW ts \in OneOf(Waiting({op})), Moved(t, NoCall, ts)
    PROVE  Waiting({op})' # {} => n + 1 <= Cardinality(Roused(op)')
<1> DEFINE R == Roused(op)
<1>1. ts \subseteq Waiting({op}) /\ ts \subseteq Task
  BY OneOfWaiting, WaitingTasks
<1>2. /\ Task \subseteq Thread /\ Idle \notin Thread
      /\ \A u \in Thread :
            /\ u = t => call'[u].op = "none" /\ call'[u].phase = "none"
            /\ u # t => /\ call'[u].op = call[u].op
                        /\ call'[u].phase = IF u \in ts THEN "woken" ELSE call[u].phase
  BY MovedFields, NoCallIs DEF SchedulerAssumption, Thread, KernelOK
<1>3. Waiting({op})' \subseteq Waiting({op})
  BY <1>1, <1>2 DEF Waiting
<1>4. Roused(op)' = R \cup ts
  BY <1>1, <1>2 DEF Roused, Waiting, AboutToTry
<1>5. R \cap ts = {}
  BY <1>1 DEF Roused, Waiting
<1> SUFFICES ASSUME Waiting({op})' # {}
             PROVE  n + 1 <= Cardinality(Roused(op)')
  OBVIOUS
<1>6. Waiting({op}) # {}
  BY <1>3
<1>7. PICK u \in Waiting({op}) : ts = {u}
  BY <1>6, OneOfWaiting
<1>8. n <= Cardinality(R) /\ Cardinality(R) \in Nat /\ IsFiniteSet(R)
  BY <1>6, RousedFinite DEF Spoken
<1>9. Cardinality(R \cup {u}) = Cardinality(R) + 1
  BY <1>5, <1>7, <1>8, FS_AddElement
<1> HIDE DEF R
<1> QED  BY <1>4, <1>7, <1>8, <1>9

(* One fewer has been taken by at most one of those who were about to.     *)
LEMMA OneFewer ==
    ASSUME SchedulerAssumption, KernelOK, NEW op \in {"send", "receive"}, NEW n \in Nat,
           Spoken(op, n),
           NEW t \in Task \cup {Idle}, t \in Task => call[t].phase \in AboutToTry,
           NEW ts, \A u \in ts : u \in Thread => call[u].op # op, Moved(t, NoCall, ts)
    PROVE  Waiting({op})' # {} => n - 1 <= Cardinality(Roused(op)')
<1> DEFINE R == Roused(op)
<1>1. /\ Task \subseteq Thread /\ Idle \notin Thread
      /\ \A u \in Thread :
            /\ u = t => call'[u].op = "none" /\ call'[u].phase = "none"
            /\ u # t => /\ call'[u].op = call[u].op
                        /\ call'[u].phase = IF u \in ts THEN "woken" ELSE call[u].phase
  BY MovedFields, NoCallIs DEF SchedulerAssumption, Thread, KernelOK
<1>2. Waiting({op})' \subseteq Waiting({op})
  BY <1>1 DEF Waiting
<1>3. Roused(op)' = R \ {t}
  BY <1>1 DEF Roused, AboutToTry
<1> SUFFICES ASSUME Waiting({op})' # {}
             PROVE  n - 1 <= Cardinality(Roused(op)')
  OBVIOUS
<1>4. n <= Cardinality(R) /\ Cardinality(R) \in Nat /\ IsFiniteSet(R)
  BY <1>2, RousedFinite DEF Spoken
<1>5. Cardinality(R \ {t}) = IF t \in R THEN Cardinality(R) - 1 ELSE Cardinality(R)
  BY <1>4, FS_RemoveElement
<1> HIDE DEF R
<1> QED  BY <1>3, <1>4, <1>5

(* Those who ask for op are left where they were.                          *)
LEMMA OthersAsk ==
    ASSUME SchedulerAssumption, KernelOK, NEW op \in {"send", "receive"}, NEW n \in Nat,
           Spoken(op, n),
           NEW t \in Task, NEW c, Moved(t, c, {}), c.op \in {"none", call[t].op},
           call[t].op # op
    PROVE  Waiting({op})' # {} => n <= Cardinality(Roused(op)')
<1>1. /\ Task \subseteq Thread
      /\ \A u \in Thread :
            /\ u = t => call'[u] = c
            /\ u # t => call'[u].op = call[u].op /\ call'[u].phase = call[u].phase
  BY MovedFields DEF Thread, KernelOK
<1>2. Waiting({op})' \subseteq Waiting({op})
  BY <1>1 DEF Waiting
<1>3. Roused(op)' = Roused(op)
  BY <1>1 DEF Roused
<1> QED  BY <1>2, <1>3 DEF Spoken

(* What is not there need not be spoken for.                               *)
LEMMA NoneLeft ==
    ASSUME SchedulerAssumption, NEW op
    PROVE  0 <= Cardinality(Roused(op)')
<1>1. Roused(op)' \in SUBSET Task
  BY DEF Roused
<1> QED  BY <1>1, FS_Subset, FS_CardinalityType DEF SchedulerAssumption

(* A send that succeeds: one item more, one place fewer.                   *)
LEMMA ItemComes ==
    ASSUME SchedulerAssumption, KernelOK, QueueOK, QueueKeepsMoving,
           level < length, level' = level + 1, length' = length,
           NEW t \in Task \cup {Idle},
           t \in Task => call[t].op = "send" /\ call[t].phase \in AboutToTry,
           NEW ts \in OneOf(Waiting({"receive"})), Moved(t, NoCall, ts)
    PROVE  QueueKeepsMoving'
<1>1. level \in Nat /\ length - level \in Nat /\ length - level' = (length - level) - 1
  BY DEF QueueOK
<1>2. Spoken("receive", level)'
  BY <1>1, OneMore DEF QueueKeepsMoving, Spoken
<1>3. \A u \in ts : u \in Thread => call[u].op # "send"
  <2>1. ts \subseteq Waiting({"receive"})
    BY OneOfWaiting
  <2> QED  BY <2>1 DEF Waiting
<1>4. CrowdedReset \/ Spoken("send", length - level)'
  BY <1>1, <1>3, OneFewer DEF QueueKeepsMoving, Spoken
<1> QED  BY <1>2, <1>4 DEF QueueKeepsMoving

(* A receive that succeeds: one item fewer, one place more.                *)
LEMMA PlaceComes ==
    ASSUME SchedulerAssumption, KernelOK, QueueOK, QueueKeepsMoving,
           level > 0, level' = level - 1, length' = length,
           NEW t \in Task \cup {Idle},
           t \in Task => call[t].op = "receive" /\ call[t].phase \in AboutToTry,
           NEW ts \in OneOf(Waiting({"send"})), Moved(t, NoCall, ts)
    PROVE  QueueKeepsMoving'
<1>1. level \in Nat /\ length - level \in Nat /\ length - level' = (length - level) + 1
  BY DEF QueueOK
<1>2. \A u \in ts : u \in Thread => call[u].op # "receive"
  <2>1. ts \subseteq Waiting({"send"})
    BY OneOfWaiting
  <2> QED  BY <2>1 DEF Waiting
<1>3. Spoken("receive", level)'
  BY <1>1, <1>2, OneFewer DEF QueueKeepsMoving, Spoken
<1>4. CrowdedReset \/ Spoken("send", length - level)'
  BY <1>1, OneMore DEF QueueKeepsMoving, Spoken
<1> QED  BY <1>3, <1>4 DEF QueueKeepsMoving

(* All places come at once, and one sender is roused: with one blocked at  *)
(* most, that leaves none.                                                 *)
LEMMA AllPlacesCome ==
    ASSUME SchedulerAssumption, KernelOK,
           CrowdedReset \/ \A u, v \in Waiting({"send"}) : u = v,
           level' = 0, NEW ts \in OneOf(Waiting({"send"})), Moved(Idle, NoCall, ts)
    PROVE  QueueKeepsMoving'
<1>1. Spoken("receive", level)'
  BY NoneLeft DEF Spoken
<1>2. ASSUME \A u, v \in Waiting({"send"}) : u = v
      PROVE  Waiting({"send"})' = {}
  <2>1. \A u \in Waiting({"send"}) : u \in ts
    BY <1>2, OneOfWaiting
  <2>2. \A u \in Thread : /\ call'[u].op = call[u].op
                          /\ call'[u].phase = IF u \in ts THEN "woken" ELSE call[u].phase
    BY MovedFields DEF SchedulerAssumption, KernelOK
  <2> QED  BY <2>1, <2>2 DEF Waiting
<1>3. CrowdedReset \/ Spoken("send", length - level)'
  BY <1>2 DEF Spoken
<1> QED  BY <1>1, <1>3 DEF QueueKeepsMoving

(* Who finds nothing waits for something that is not there, or leaves.     *)
LEMMA NothingThere ==
    ASSUME SchedulerAssumption, KernelOK, QueueOK, QueueKeepsMoving,
           level' = level, length' = length,
           NEW t \in Task, NEW c, Moved(t, c, {}), c.op \in {"none", call[t].op},
           \/ call[t].op = "send" /\ level = length
           \/ call[t].op = "receive" /\ level = 0
    PROVE  QueueKeepsMoving'
<1>1. level \in Nat /\ length \in Nat /\ length - level \in Nat
  BY DEF QueueOK
<1>2. CASE call[t].op = "send" /\ level = length
  <2>1. Spoken("receive", level)'
    BY <1>1, <1>2, OthersAsk DEF QueueKeepsMoving, Spoken
  <2>2. Spoken("send", length - level)'
    BY <1>1, <1>2, NoneLeft DEF Spoken
  <2> QED  BY <2>1, <2>2 DEF QueueKeepsMoving
<1>3. CASE call[t].op = "receive" /\ level = 0
  <2>1. Spoken("receive", level)'
    BY <1>3, NoneLeft DEF Spoken
  <2>2. CrowdedReset \/ Spoken("send", length - level)'
    BY <1>1, <1>3, OthersAsk DEF QueueKeepsMoving, Spoken
  <2> QED  BY <2>1, <2>2 DEF QueueKeepsMoving
<1> QED  BY <1>2, <1>3

LEMMA QueueQuiet ==
    ASSUME SchedulerAssumption, KernelOK, QueueOK, QueueKeepsMoving,
           level' = level, length' = length, Quiet
    PROVE  QueueKeepsMoving'
<1>1. ASSUME NEW op \in {"send", "receive"}
      PROVE  /\ Waiting({op})' \subseteq Waiting({op})
             /\ Cardinality(Roused(op)) <= Cardinality(Roused(op)')
             /\ Cardinality(Roused(op)) \in Nat /\ Cardinality(Roused(op)') \in Nat
  <2>1. Waiting({op})' \subseteq Waiting({op})
    BY DEF Quiet, Waiting
  <2>2. Roused(op) \subseteq Roused(op)'
    BY DEF Quiet, Roused, AboutToTry
  <2>3. Roused(op)' \in SUBSET Task /\ Roused(op) \in SUBSET Roused(op)'
    BY <2>2 DEF Roused
  <2>4. IsFiniteSet(Roused(op)')
    BY <2>3, FS_Subset DEF SchedulerAssumption
  <2> QED  BY <2>1, <2>3, <2>4, FS_Subset, FS_CardinalityType, RousedFinite
<1>2. level \in Nat /\ length \in Nat
  BY DEF QueueOK
<1>3. Spoken("receive", level)'
  BY <1>1, <1>2 DEF QueueKeepsMoving, Spoken
<1>4. CrowdedReset \/ Spoken("send", length - level)'
  BY <1>1, <1>2 DEF QueueKeepsMoving, Spoken
<1> QED  BY <1>3, <1>4 DEF QueueKeepsMoving

LEMMA QueueNextOK ==
    ASSUME SchedulerAssumption, KernelOK, QueueOK, QueueKeepsMoving, QueueNext
    PROVE  KernelOK' /\ QueueOK' /\ QueueKeepsMoving' /\ refused' \subseteq refused
<1>1. /\ UNCHANGED <<group, stream, object>> /\ object \in QueueObject /\ QueueStep(object)
      /\ UNCHANGED <<object, shape, framed, pended>>
  BY DEF QueueNext, stream, group
<1>2. level \in 0 .. length /\ length \in Nat /\ length >= 1 /\ CallsOK
  BY <1>1 DEF QueueOK, KernelOK
<1>3. ASSUME NEW t \in Task, call[t] \in AnyCall
      PROVE  [call[t] EXCEPT !.phase = "blocked"].op = call[t].op /\ NoCall.op = "none"
  BY <1>3 DEF AnyCall, NoCall
<1>4. \A t \in Task : call[t] \in AnyCall
  BY <1>2 DEF CallsOK, Thread
<1>5. ASSUME NEW t \in Task, send(t)
      PROVE  KernelOK' /\ QueueOK' /\ QueueKeepsMoving' /\ refused' \subseteq refused
  <2>1. length' = length /\ call[t].op = "send" /\ call[t].phase \in AboutToTry
    BY <1>5 DEF send, Tries, AboutToTry
  <2>2. ASSUME level < length, level' = level + 1,
               NEW ts \in OneOf(Waiting({"receive"})), Return(t, ts)
        PROVE  KernelOK' /\ QueueOK' /\ QueueKeepsMoving' /\ refused' \subseteq refused
    <3>1. KernelOK' /\ Moved(t, NoCall, ts) /\ refused' \subseteq refused
      BY <1>1, <2>2, OneOfWaiting, ReturnOK DEF Return
    <3>2. QueueKeepsMoving'
      BY <2>1, <2>2, <3>1, ItemComes
    <3> QED  BY <1>1, <1>2, <2>1, <2>2, <3>1, <3>2 DEF QueueOK
  <2>3. ASSUME level = length, level' = level, BlockOrRefuse(t, {})
        PROVE  KernelOK' /\ QueueOK' /\ QueueKeepsMoving' /\ refused' \subseteq refused
    <3>1. /\ KernelOK' /\ refused' \subseteq refused
          /\ Moved(t, NoCall, {}) \/ Moved(t, [call[t] EXCEPT !.phase = "blocked"], {})
      BY <1>1, <2>1, <2>3, AnswerOK DEF AboutToTry
    <3>3. QueueKeepsMoving'
      BY <1>3, <1>4, <2>1, <2>3, <3>1, NothingThere
    <3> QED  BY <1>1, <1>2, <2>1, <2>3, <3>1, <3>3 DEF QueueOK
  <2> QED  BY <1>5, <2>2, <2>3 DEF send
<1>6. ASSUME NEW t \in Task, receive(t)
      PROVE  KernelOK' /\ QueueOK' /\ QueueKeepsMoving' /\ refused' \subseteq refused
  <2>1. length' = length /\ call[t].op = "receive" /\ call[t].phase \in AboutToTry
    BY <1>6 DEF receive, Tries, AboutToTry
  <2>2. ASSUME level > 0, level' = level - 1,
               NEW ts \in OneOf(Waiting({"send"})), Return(t, ts)
        PROVE  KernelOK' /\ QueueOK' /\ QueueKeepsMoving' /\ refused' \subseteq refused
    <3>1. KernelOK' /\ Moved(t, NoCall, ts) /\ refused' \subseteq refused
      BY <1>1, <2>2, OneOfWaiting, ReturnOK DEF Return
    <3>2. QueueKeepsMoving'
      BY <1>2, <2>1, <2>2, <3>1, PlaceComes
    <3> QED  BY <1>1, <1>2, <2>1, <2>2, <3>1, <3>2 DEF QueueOK
  <2>3. ASSUME level = 0, level' = level, BlockOrRefuse(t, {})
        PROVE  KernelOK' /\ QueueOK' /\ QueueKeepsMoving' /\ refused' \subseteq refused
    <3>1. /\ KernelOK' /\ refused' \subseteq refused
          /\ Moved(t, NoCall, {}) \/ Moved(t, [call[t] EXCEPT !.phase = "blocked"], {})
      BY <1>1, <2>1, <2>3, AnswerOK DEF AboutToTry
    <3>2. QueueKeepsMoving'
      BY <1>2, <1>3, <1>4, <2>1, <2>3, <3>1, NothingThere
    <3> QED  BY <1>1, <1>2, <2>1, <2>3, <3>1, <3>2 DEF QueueOK
  <2> QED  BY <1>6, <2>2, <2>3 DEF receive
<1>7. Idle \notin Task
  BY DEF SchedulerAssumption, Thread
<1>8. ASSUME NEW t \in Task, reset(t)
      PROVE  KernelOK' /\ QueueOK' /\ QueueKeepsMoving' /\ refused' \subseteq refused
  <2>1. PICK ts \in OneOf(Waiting({"send"})) : Reschedule(Woken(call, ts))
    BY <1>8 DEF reset
  <2>5. CrowdedReset \/ \A u, v \in Waiting({"send"}) : u = v
    BY <1>8 DEF reset
  <2>2. level' = 0 /\ UNCHANGED <<exists, suspended, isr, refused, length>>
    BY <1>8 DEF reset
  <2>3. KernelOK' /\ Moved(Idle, NoCall, ts)
    BY <1>1, <2>1, <2>2, OneOfWaiting, WakingOK
  <2>4. QueueKeepsMoving'
    BY <2>1, <2>2, <2>3, <2>5, AllPlacesCome
  <2> QED  BY <1>1, <1>2, <2>2, <2>3, <2>4 DEF QueueOK
<1>9. ASSUME NEW flagged \in BOOLEAN, send_from_isr(flagged)
      PROVE  KernelOK' /\ QueueOK' /\ QueueKeepsMoving' /\ refused' \subseteq refused
  <2>1. PICK ts \in OneOf(Waiting({"receive"})) : IsrCall(ts, flagged)
    BY <1>9 DEF send_from_isr
  <2>2. level < length /\ level' = level + 1 /\ length' = length
    BY <1>9 DEF send_from_isr
  <2>3. KernelOK' /\ Moved(Idle, NoCall, ts) /\ refused' \subseteq refused
    BY <1>1, <2>1, OneOfWaiting, IsrOK DEF ClearPosted
  <2>4. QueueKeepsMoving'
    BY <1>7, <2>1, <2>2, <2>3, ItemComes
  <2> QED  BY <1>1, <1>2, <2>2, <2>3, <2>4 DEF QueueOK
<1>10. ASSUME NEW flagged \in BOOLEAN, receive_from_isr(flagged)
       PROVE  KernelOK' /\ QueueOK' /\ QueueKeepsMoving' /\ refused' \subseteq refused
  <2>1. PICK ts \in OneOf(Waiting({"send"})) : IsrCall(ts, flagged)
    BY <1>10 DEF receive_from_isr
  <2>2. level > 0 /\ level' = level - 1 /\ length' = length
    BY <1>10 DEF receive_from_isr
  <2>3. KernelOK' /\ Moved(Idle, NoCall, ts) /\ refused' \subseteq refused
    BY <1>1, <2>1, OneOfWaiting, IsrOK DEF ClearPosted
  <2>4. QueueKeepsMoving'
    BY <1>2, <1>7, <2>1, <2>2, <2>3, PlaceComes
  <2> QED  BY <1>1, <1>2, <2>2, <2>3, <2>4 DEF QueueOK
<1> QED  BY <1>1, <1>5, <1>6, <1>8, <1>9, <1>10 DEF QueueStep

-----------------------------------------------------------------------------
(* Event groups.                                                           *)

LEMMA GroupCallOK ==
    ASSUME GroupAssumption, KernelOK, NEW t \in Task, call[t].op \in GroupOp
    PROVE  /\ call[t].set \subseteq Bit /\ call[t].want \subseteq Bit
           /\ call[t].op = "sync" =>
                 /\ call[t].clear
                 /\ \E d \in GroupCalls[t] : d.op = "sync" /\ d.want = call[t].want
<1>1. PICK d \in GroupCalls[t] : /\ d.op = call[t].op /\ d.set = call[t].set
                                 /\ d.want = call[t].want /\ d.clear = call[t].clear
  BY DEF KernelOK, CallsOK, CallOK
<1> QED  BY <1>1 DEF GroupAssumption

(* More bits never leave a condition unmet.                                *)
LEMMA SatisfiedGrows ==
    ASSUME NEW c, NEW B, NEW b, b \subseteq B, Satisfied(c, b)
    PROVE  Satisfied(c, B)
BY DEF Satisfied

(* Those who are left after a step which sets and clears bits wait for     *)
(* some that are missing.                                                  *)
LEMMA OthersWait ==
    ASSUME SchedulerAssumption, KernelOK, NEW t, NEW c, NEW ts, Moved(t, c, ts),
           NEW B, bits' \subseteq B,
           \A u \in Waiting(Waits) \ ts : ~Satisfied(call[u], B),
           t \in Thread /\ c.phase = "blocked" /\ c.op \in Waits => ~Satisfied(c, B)
    PROVE  SatisfiedAreReleased'
<1> SUFFICES ASSUME NEW u \in Thread, call'[u].phase = "blocked", call'[u].op \in Waits
             PROVE  ~Satisfied(call'[u], bits')
  BY DEF SatisfiedAreReleased, Waiting
<1>1. /\ u = t => call'[u] = c
      /\ u # t => /\ call'[u].op = call[u].op /\ call'[u].want = call[u].want
                  /\ call'[u].phase = IF u \in ts THEN "woken" ELSE call[u].phase
  BY MovedFields DEF KernelOK
<1>2. CASE u = t
  BY <1>1, <1>2, SatisfiedGrows
<1>3. CASE u # t
  <2>1. u \in Waiting(Waits) \ ts
    BY <1>1, <1>3 DEF Waiting
  <2>2. ~Satisfied(call[u], B)
    BY <2>1
  <2>3. ~Satisfied(call'[u], B)
    BY <1>1, <1>3, <2>2 DEF Satisfied
  <2> QED  BY <2>3, SatisfiedGrows
<1> QED  BY <1>2, <1>3

LEMMA ReleasedTasks ==
    ASSUME GroupAssumption, KernelOK, GroupTypeOK, NEW b \in SUBSET Bit
    PROVE  /\ Released(b) \subseteq Task /\ Released(b) \subseteq Blocked
           /\ Left(b) \subseteq bits \cup b /\ Left(b) \subseteq Bit
           /\ \A u \in Waiting(Waits) \ Released(b) : ~Satisfied(call[u], bits \cup b)
           /\ \A u \in Syncing(Released(b)) :
                 call[u].want \subseteq bits \cup b /\ Left(b) \cap call[u].want = {}
<1>1. "serve" \notin Waits
  BY DEF Waits
<1>2. Released(b) \subseteq Task /\ Released(b) \subseteq Blocked
  BY <1>1, WaitingTasks DEF Released, Waiting, Blocked
<1>3. ASSUME NEW u \in Syncing(Released(b))
      PROVE  call[u].want \subseteq bits \cup b /\ Left(b) \cap call[u].want = {}
  <2>1. u \in Released(b) /\ call[u].op = "sync"
    BY DEF Syncing
  <2>2. call[u].clear
    BY <1>2, <2>1, GroupCallOK DEF GroupOp
  <2>3. call[u].want \subseteq bits \cup b
    BY <2>1 DEF Released, Satisfied
  <2>4. Left(b) \cap call[u].want = {}
    BY <2>1, <2>2 DEF Left
  <2> QED  BY <2>3, <2>4
<1>4. Left(b) \subseteq bits \cup b /\ Left(b) \subseteq Bit
  BY DEF Left, GroupTypeOK
<1> QED  BY <1>2, <1>3, <1>4 DEF Released

LEMMA ArriveTyped ==
    ASSUME GroupTypeOK, NEW b \in SUBSET Bit, NEW ts \in SUBSET Task, Arrive(b, ts)
    PROVE  arrived' \in [Task -> SUBSET Bit] /\ ghosts' \subseteq Task
BY DEF GroupTypeOK, Arrive

(* The two ways in which a call on the group goes on.                      *)
LEMMA GroupReturns ==
    ASSUME SchedulerAssumption, KernelOK, UNCHANGED <<object, shape, framed>>,
           NEW t \in Task, NEW ts, ts \subseteq Blocked, Return(t, ts),
           NEW B, bits' \subseteq B, \A u \in Waiting(Waits) \ ts : ~Satisfied(call[u], B)
    PROVE  KernelOK' /\ SatisfiedAreReleased' /\ refused' \subseteq refused
<1>1. KernelOK' /\ Moved(t, NoCall, ts) /\ refused' \subseteq refused
  BY ReturnOK DEF Return
<1>2. NoCall.phase # "blocked"
  BY NoCallIs
<1> QED  BY <1>1, <1>2, OthersWait

LEMMA GroupBlocks ==
    ASSUME SchedulerAssumption, KernelOK, UNCHANGED <<object, shape, framed>>,
           NEW t \in Task, NEW ts, ts \subseteq Blocked, BlockOrRefuse(t, ts),
           call[t].op \in Waits, call[t].phase # "none",
           NEW B, bits' \subseteq B, \A u \in Waiting(Waits) \ ts : ~Satisfied(call[u], B),
           ~Satisfied(call[t], B)
    PROVE  KernelOK' /\ SatisfiedAreReleased' /\ refused' \subseteq refused
<1>1. call[t] \in AnyCall /\ call[t].op # "write"
  BY DEF Waits, Thread, KernelOK, CallsOK
<1>2. PICK c \in {NoCall, [call[t] EXCEPT !.phase = "blocked"]} :
          KernelOK' /\ refused' \subseteq refused /\ Moved(t, c, ts)
  BY <1>1, AnswerOK
<1>3. c.phase = "blocked" => ~Satisfied(c, B)
  <2>1. CASE c = NoCall
    BY <2>1, NoCallIs
  <2>2. CASE c = [call[t] EXCEPT !.phase = "blocked"]
    <3>1. c.op = call[t].op /\ c.want = call[t].want
      BY <1>1, <2>2 DEF AnyCall
    <3> QED  BY <3>1 DEF Satisfied
  <2> QED  BY <2>1, <2>2
<1>4. SatisfiedAreReleased'
  BY <1>2, <1>3, OthersWait
<1> QED  BY <1>2, <1>4

LEMMA GroupNextOK ==
    ASSUME SchedulerAssumption, GroupAssumption,
           KernelOK, GroupTypeOK, SatisfiedAreReleased, GroupNext
    PROVE  KernelOK' /\ GroupTypeOK' /\ SatisfiedAreReleased' /\ refused' \subseteq refused
<1> DEFINE Goal == KernelOK' /\ GroupTypeOK' /\ SatisfiedAreReleased' /\ refused' \subseteq refused
<1>1. GroupStep /\ UNCHANGED <<object, shape, framed>>
  BY DEF GroupNext, stream
<1>2. /\ bits \subseteq Bit /\ arrived \in [Task -> SUBSET Bit] /\ ghosts \subseteq Task
      /\ pended \in Seq([op : {"set", "clear"}, set : SUBSET Bit])
      /\ Len(pended) <= PendedLength /\ PendedLength \in Nat
  BY DEF GroupTypeOK, GroupAssumption
<1>3. \A u \in Waiting(Waits) : ~Satisfied(call[u], bits)
  BY DEF SatisfiedAreReleased
<1>4. /\ Idle \notin Thread /\ Task \subseteq Thread /\ Daemon \in Thread
      /\ NoCall.phase = "none"
  BY NoCallIs DEF SchedulerAssumption, Thread
<1>5. ASSUME NEW t \in Task, set(t) PROVE Goal
  <2> DEFINE b == call[t].set
             ts == Released(b)
  <2>1. Return(t, ts) /\ bits' = Left(b) /\ Arrive(b, Syncing(ts)) /\ pended' = pended
    BY <1>5 DEF set
  <2>2. b \in SUBSET Bit
    BY <1>5, GroupCallOK DEF set, Tries, GroupOp
  <2>3. /\ ts \subseteq Task /\ ts \subseteq Blocked /\ bits' \subseteq bits \cup b
        /\ bits' \subseteq Bit
        /\ \A u \in Waiting(Waits) \ ts : ~Satisfied(call[u], bits \cup b)
    BY <2>1, <2>2, ReleasedTasks
  <2>4. Syncing(ts) \in SUBSET Task
    BY <2>3 DEF Syncing
  <2> HIDE DEF b, ts
  <2>5. KernelOK' /\ SatisfiedAreReleased' /\ refused' \subseteq refused
    BY <1>1, <2>1, <2>3, GroupReturns
  <2>6. GroupTypeOK'
    BY <1>2, <2>1, <2>2, <2>3, <2>4, ArriveTyped DEF GroupTypeOK
  <2> QED  BY <2>5, <2>6
<1>6. ASSUME NEW t \in Task, clear(t) PROVE Goal
  <2>1. Return(t, {}) /\ bits' \subseteq bits /\ UNCHANGED <<pended, arrived, ghosts>>
    BY <1>6 DEF clear
  <2>2. KernelOK' /\ SatisfiedAreReleased' /\ refused' \subseteq refused
    BY <1>1, <1>3, <2>1, GroupReturns
  <2> QED  BY <1>2, <2>1, <2>2 DEF GroupTypeOK
<1>7. ASSUME NEW t \in Task, wait(t) PROVE Goal
  <2>1. /\ bits' \subseteq bits /\ UNCHANGED <<pended, arrived, ghosts>>
        /\ call[t].op \in Waits /\ call[t].phase # "none"
        /\ Return(t, {}) \/ (~Satisfied(call[t], bits) /\ BlockOrRefuse(t, {}))
    BY <1>7 DEF wait, Tries, Waits
  <2>2. KernelOK' /\ SatisfiedAreReleased' /\ refused' \subseteq refused
    BY <1>1, <1>3, <2>1, GroupReturns, GroupBlocks
  <2> QED  BY <1>2, <2>1, <2>2 DEF GroupTypeOK
<1>8. ASSUME NEW t \in Task, sync(t) PROVE Goal
  <2> DEFINE b == call[t].set
             ts == Released(b)
             want == call[t].want
  <2>1. pended' = pended /\ call[t].op = "sync" /\ call[t].phase \in AboutToTry
    BY <1>8 DEF sync, Tries, AboutToTry
  <2>2. b \in SUBSET Bit /\ call[t].op \in Waits
    BY <2>1, GroupCallOK DEF GroupOp, Waits
  <2>3. /\ ts \subseteq Task /\ ts \subseteq Blocked /\ Left(b) \subseteq bits \cup b
        /\ Left(b) \subseteq Bit
        /\ \A u \in Waiting(Waits) \ ts : ~Satisfied(call[u], bits \cup b)
    BY <2>2, ReleasedTasks
  <2>4. Syncing(ts) \in SUBSET Task
    BY <2>3 DEF Syncing
  <2>5. /\ Satisfied(call[t], bits \cup b) <=> want \subseteq bits \cup b
        /\ call[t].phase = "late" => call[t].ms # "0xFFFFFFFF"
    <3>1. CallOK(t, call[t])
      BY DEF KernelOK, CallsOK
    <3>2. call[t].phase = "late" => call[t].ms # "0xFFFFFFFF"
      BY <3>1 DEF CallOK, Ticks
    <3> QED  BY <2>1, <3>2 DEF Satisfied
  <2>6. \/ /\ bits' = AfterRendezvous(Left(b), want) /\ Arrive(b, Syncing(ts) \cup {t})
           /\ Return(t, ts)
        \/ /\ bits' = Left(b) /\ Arrive(b, Syncing(ts))
           /\ BlockOrRefuse(t, ts) /\ ~(want \subseteq bits \cup b)
        \/ /\ bits' = AfterRendezvous(bits, want) /\ Arrive({}, {t}) /\ Return(t, {})
        \/ /\ UNCHANGED <<bits, arrived, ghosts>>
           /\ Return(t, {}) \/ (call[t].phase = "late" /\ Refuse(t, {}))
    BY <1>8 DEF sync
  <2> HIDE DEF b, ts, want
  <2>7. CASE /\ bits' = AfterRendezvous(Left(b), want) /\ Arrive(b, Syncing(ts) \cup {t})
             /\ Return(t, ts)
    <3>1. bits' \subseteq bits \cup b /\ bits' \subseteq Bit /\ Syncing(ts) \cup {t} \in SUBSET Task
      BY <2>3, <2>4, <2>7 DEF AfterRendezvous
    <3>2. KernelOK' /\ SatisfiedAreReleased' /\ refused' \subseteq refused
      BY <1>1, <2>3, <2>7, <3>1, GroupReturns
    <3>3. arrived' \in [Task -> SUBSET Bit] /\ ghosts' \subseteq Task
      BY <2>2, <2>7, <3>1, ArriveTyped
    <3> QED  BY <1>2, <2>1, <3>1, <3>2, <3>3 DEF GroupTypeOK
  <2>8. CASE /\ bits' = Left(b) /\ Arrive(b, Syncing(ts))
             /\ BlockOrRefuse(t, ts) /\ ~(want \subseteq bits \cup b)
    <3>1. KernelOK' /\ SatisfiedAreReleased' /\ refused' \subseteq refused
      <4>1. call[t].phase # "none" /\ ~Satisfied(call[t], bits \cup b) /\ bits' \subseteq bits \cup b
        BY <2>1, <2>3, <2>5, <2>8 DEF AboutToTry
      <4> QED
        BY ONLY SchedulerAssumption, KernelOK, <1>1, <2>2, <2>3, <2>8, <4>1, t \in Task, GroupBlocks
    <3>2. arrived' \in [Task -> SUBSET Bit] /\ ghosts' \subseteq Task
      BY <2>2, <2>4, <2>8, ArriveTyped
    <3> QED  BY <1>2, <2>1, <2>3, <2>8, <3>1, <3>2 DEF GroupTypeOK
  <2>9. CASE bits' = AfterRendezvous(bits, want) /\ Arrive({}, {t}) /\ Return(t, {})
    <3>1. bits' \subseteq bits
      BY <2>9 DEF AfterRendezvous
    <3>2. KernelOK' /\ SatisfiedAreReleased' /\ refused' \subseteq refused
      BY <1>1, <1>3, <2>9, <3>1, GroupReturns
    <3>3. arrived' \in [Task -> SUBSET Bit] /\ ghosts' \subseteq Task
      BY <2>9, ArriveTyped
    <3> QED  BY <1>2, <2>1, <3>1, <3>2, <3>3 DEF GroupTypeOK
  <2>10. CASE /\ UNCHANGED <<bits, arrived, ghosts>>
              /\ Return(t, {}) \/ (call[t].phase = "late" /\ Refuse(t, {}))
    <3>1. refused' \subseteq refused /\ (Return(t, {}) \/ Refuse(t, {}))
      BY <2>5, <2>10 DEF Return, Refuse, RefusedTo
    <3>2. KernelOK' /\ Moved(t, NoCall, {})
      BY <1>1, <3>1, ReturnOK
    <3>3. SatisfiedAreReleased'
      BY <1>3, <1>4, <2>10, <3>2, OthersWait
    <3> QED  BY <1>2, <2>1, <2>10, <3>1, <3>2, <3>3 DEF GroupTypeOK
  <2> QED  BY <2>6, <2>7, <2>8, <2>9, <2>10
<1>9. Waiting({"serve"}) \subseteq {Daemon} /\ Waiting({"serve"}) \subseteq Blocked
  BY DEF Waiting, Blocked, Thread, KernelOK, CallsOK, CallOK, TaskOp
<1>10. ASSUME NEW b \in SUBSET Bit, NEW op \in {"set", "clear"}, Post(op, b)
       PROVE  /\ pended' \in Seq([op : {"set", "clear"}, set : SUBSET Bit])
              /\ Len(pended') <= PendedLength
              /\ ClearPosted \/ op = "clear" => ClearPosted'
              /\ UNCHANGED <<bits, arrived, ghosts>>
  <2> DEFINE m == [op |-> op, set |-> b]
  <2>1. pended' = Append(pended, m) /\ Len(pended) < PendedLength /\ UNCHANGED <<bits, arrived, ghosts>>
    BY <1>10 DEF Post
  <2>2. m \in [op : {"set", "clear"}, set : SUBSET Bit] /\ m.op = op
    OBVIOUS
  <2> HIDE DEF m
  <2>3. /\ pended' \in Seq([op : {"set", "clear"}, set : SUBSET Bit])
        /\ Len(pended') = Len(pended) + 1 /\ Len(pended) \in Nat
        /\ \A i \in 1 .. Len(pended) : pended'[i] = pended[i]
        /\ pended'[Len(pended) + 1] = m
    BY <1>2, <2>1, <2>2, AppendProperties
  <2>4. Len(pended') <= PendedLength
    BY <1>2, <2>1, <2>3
  <2>5. Len(pended) + 1 \in 1 .. Len(pended') /\ 1 .. Len(pended) \subseteq 1 .. Len(pended')
    BY <2>3
  <2>6. ClearPosted \/ op = "clear" => ClearPosted'
    BY <2>2, <2>3, <2>5 DEF ClearPosted
  <2> QED  BY <2>1, <2>3, <2>4, <2>6
<1>11. ASSUME NEW b \in IsrBits, NEW flagged \in BOOLEAN, set_from_isr(b, flagged) PROVE Goal
  <2>1. b \in SUBSET Bit /\ Post("set", b) /\ IsrCall(Waiting({"serve"}), flagged)
    BY <1>11 DEF set_from_isr, GroupAssumption
  <2>2. KernelOK' /\ Moved(Idle, NoCall, Waiting({"serve"})) /\ refused' \subseteq refused
    BY <1>1, <1>9, <1>10, <2>1, IsrOK
  <2>3. bits' \subseteq bits
    BY <1>10, <2>1
  <2>4. SatisfiedAreReleased'
    <3>1. /\ Moved(Idle, NoCall, Waiting({"serve"}))
          /\ \A u \in Waiting(Waits) \ Waiting({"serve"}) : ~Satisfied(call[u], bits)
      BY <1>3, <2>2
    <3> QED
      BY ONLY SchedulerAssumption, KernelOK, <1>4, <2>3, <3>1, OthersWait
  <2>5. GroupTypeOK'
    BY <1>2, <1>10, <2>1 DEF GroupTypeOK
  <2> QED  BY <2>2, <2>4, <2>5
<1>12. ASSUME NEW b \in IsrBits, clear_from_isr(b) PROVE Goal
  <2>1. /\ b \in SUBSET Bit /\ Post("clear", b)
        /\ IsrWakes(Waiting({"serve"})) /\ isr' = isr
    BY <1>12 DEF clear_from_isr, GroupAssumption
  <2>2. ClearPosted'
    BY <1>10, <2>1
  <2>3. KernelOK' /\ Moved(Idle, NoCall, Waiting({"serve"})) /\ refused' \subseteq refused
    BY <1>1, <1>9, <2>1, <2>2, IsrOK
  <2>4. bits' \subseteq bits
    BY <1>10, <2>1
  <2>5. SatisfiedAreReleased'
    <3>1. /\ Moved(Idle, NoCall, Waiting({"serve"}))
          /\ \A u \in Waiting(Waits) \ Waiting({"serve"}) : ~Satisfied(call[u], bits)
      BY <1>3, <2>3
    <3> QED
      BY ONLY SchedulerAssumption, KernelOK, <1>4, <2>4, <3>1, OthersWait
  <2> QED  BY <1>2, <1>10, <2>1, <2>3, <2>5 DEF GroupTypeOK
<1>13. ASSUME Serve PROVE Goal
  <2>1. CASE pended = <<>>
    <3>1. Block(Daemon, {}) /\ UNCHANGED group /\ call[Daemon].phase # "none"
      BY <1>13, <2>1 DEF Serve, Tries
    <3>2. call[Daemon].op = "serve" /\ call[Daemon] \in AnyCall
      BY <1>4 DEF KernelOK, CallsOK
    <3>3. /\ KernelOK' /\ refused' \subseteq refused
          /\ Moved(Daemon, [call[Daemon] EXCEPT !.phase = "blocked"], {})
      BY <1>1, <1>4, <3>1, <3>2, BlockOK
    <3>4. [call[Daemon] EXCEPT !.phase = "blocked"].op \notin Waits
      BY <3>2 DEF AnyCall, Waits
    <3>5. PICK c : Moved(Daemon, c, {}) /\ c.op \notin Waits
      BY <3>3, <3>4
    <3>6. bits' \subseteq bits
      BY <3>1 DEF group
    <3>7. SatisfiedAreReleased'
      BY <1>3, <3>5, <3>6, OthersWait
    <3> QED  BY <1>2, <3>1, <3>3, <3>7 DEF GroupTypeOK, group
  <2>2. CASE pended # <<>>
    <3> DEFINE cmd == Head(pended)
               b == IF cmd.op = "set" THEN cmd.set ELSE {}
               ts == IF cmd.op = "set" THEN Released(b) ELSE {}
    <3>1. /\ bits' = IF cmd.op = "set" THEN Left(b) ELSE bits \ cmd.set
          /\ Arrive(b, Syncing(ts)) /\ Reschedule(Woken(call, ts))
          /\ pended' = Tail(pended) /\ UNCHANGED <<exists, suspended, isr, refused>>
      BY <1>13, <2>2 DEF Serve
    <3>2. cmd \in [op : {"set", "clear"}, set : SUBSET Bit]
      BY <1>2, <2>2, HeadTailProperties
    <3>3. /\ pended' \in Seq([op : {"set", "clear"}, set : SUBSET Bit])
          /\ Len(pended') <= PendedLength
      <4>1. /\ pended' \in Seq([op : {"set", "clear"}, set : SUBSET Bit])
            /\ Len(pended') = Len(pended) - 1
        BY <1>2, <2>2, <3>1, HeadTailProperties
      <4>2. Len(pended) \in Nat
        BY <1>2, LenProperties
      <4> QED  BY <1>2, <4>1, <4>2
    <3> HIDE DEF cmd
    <3>4. b \in SUBSET Bit
      BY <3>2
    <3>5. /\ ts \subseteq Task /\ ts \subseteq Blocked /\ bits' \subseteq bits \cup b
          /\ bits' \subseteq Bit
          /\ \A u \in Waiting(Waits) \ ts : ~Satisfied(call[u], bits \cup b)
      <4>1. CASE cmd.op = "set"
        <5> HIDE DEF b
        <5> QED  BY <3>1, <3>4, <4>1, ReleasedTasks
      <4>2. CASE cmd.op # "set"
        <5>1. b = {} /\ ts = {} /\ bits \cup b = bits /\ bits' \subseteq bits
          BY <3>1, <4>2
        <5> HIDE DEF b, ts
        <5> QED  BY <1>2, <1>3, <5>1
      <4> QED  BY <4>1, <4>2
    <3> HIDE DEF b, ts
    <3>6. Syncing(ts) \in SUBSET Task
      BY <3>5 DEF Syncing
    <3>7. KernelOK' /\ Moved(Idle, NoCall, ts)
      BY <1>1, <3>1, <3>5, WakingOK
    <3>8. SatisfiedAreReleased'
      BY <1>4, <3>5, <3>7, OthersWait
    <3>9. arrived' \in [Task -> SUBSET Bit] /\ ghosts' \subseteq Task
      BY <3>1, <3>4, <3>6, ArriveTyped
    <3> QED  BY <3>1, <3>3, <3>5, <3>7, <3>8, <3>9 DEF GroupTypeOK
  <2> QED  BY <2>1, <2>2
<1> QED  BY <1>1, <1>5, <1>6, <1>7, <1>8, <1>11, <1>12, <1>13 DEF GroupStep

(* Which arrivals a task may count on: its rendezvous all ask for the same *)
(* bits.  (Otherwise a bit that another of its rendezvous has left out may *)
(* well be older than its last one.)                                       *)
OneRendezvous ==
    \A t \in Task : \A c, d \in GroupCalls[t] :
        c.op = "sync" /\ d.op = "sync" => c.want = d.want

(* A bit of its rendezvous that is set has been set since its last one.    *)
CountsOK ==
    \A t \in Task : \A d \in GroupCalls[t] :
        d.op = "sync" => bits \cap d.want \subseteq arrived[t]

LEMMA MeetingCounts ==
    ASSUME OneRendezvous, GroupAssumption, KernelOK, GroupTypeOK, CountsOK, ArrivalsCountOnce,
           NEW b \in SUBSET Bit, NEW ts \in SUBSET Task, Arrive(b, ts),
           bits' \subseteq bits \cup b,
           \A u \in ts : /\ call[u].op = "sync" /\ call[u].want \subseteq bits \cup b
                        /\ bits' \cap call[u].want = {}
    PROVE  CountsOK' /\ ArrivalsCountOnce'
<1>1. \A u \in ts : \E d \in GroupCalls[u] : d.op = "sync" /\ d.want = call[u].want
  BY GroupCallOK DEF GroupOp
<1>2. /\ ghosts' = ghosts \cup {u \in ts : ~(call[u].want \subseteq arrived[u] \cup b)}
      /\ arrived' = [t \in Task |-> IF t \in ts THEN {} ELSE arrived[t] \cup b]
  BY DEF Arrive
<1>3. ASSUME NEW u \in ts PROVE call[u].want \subseteq arrived[u] \cup b
  <2>1. PICK d \in GroupCalls[u] : d.op = "sync" /\ d.want = call[u].want
    BY <1>1
  <2>2. bits \cap d.want \subseteq arrived[u]
    BY <2>1 DEF CountsOK
  <2> QED  BY <2>1, <2>2
<1>4. ghosts' = {}
  BY <1>2, <1>3 DEF ArrivalsCountOnce
<1>5. ASSUME NEW t \in Task, NEW d \in GroupCalls[t], d.op = "sync"
      PROVE  bits' \cap d.want \subseteq arrived'[t]
  <2>1. CASE t \in ts
    <3>1. PICK e \in GroupCalls[t] : e.op = "sync" /\ e.want = call[t].want
      BY <1>1, <2>1
    <3>2. d.want = call[t].want
      BY <1>5, <3>1 DEF OneRendezvous
    <3> QED  BY <2>1, <3>2
  <2>2. CASE t \notin ts
    <3>1. bits \cap d.want \subseteq arrived[t]
      BY <1>5 DEF CountsOK
    <3>2. arrived'[t] = arrived[t] \cup b
      BY <1>2, <2>2
    <3> QED  BY <3>1, <3>2
  <2> QED  BY <2>1, <2>2
<1> QED  BY <1>4, <1>5 DEF CountsOK, ArrivalsCountOnce

LEMMA FewerBitsCount ==
    ASSUME CountsOK, ArrivalsCountOnce, bits' \subseteq bits, UNCHANGED <<arrived, ghosts>>
    PROVE  CountsOK' /\ ArrivalsCountOnce'
BY DEF CountsOK, ArrivalsCountOnce

LEMMA GroupCounts ==
    ASSUME OneRendezvous, GroupAssumption, KernelOK, GroupTypeOK, CountsOK, ArrivalsCountOnce,
           GroupNext
    PROVE  CountsOK' /\ ArrivalsCountOnce'
<1>1. GroupStep
  BY DEF GroupNext
<1>2. ASSUME NEW b \in SUBSET Bit
      PROVE  /\ Left(b) \subseteq bits \cup b /\ Syncing(Released(b)) \in SUBSET Task
             /\ \A u \in Syncing(Released(b)) :
                   /\ call[u].op = "sync" /\ call[u].want \subseteq bits \cup b
                   /\ Left(b) \cap call[u].want = {}
  BY ReleasedTasks DEF Syncing
<1>3. ASSUME NEW t \in Task, set(t) PROVE CountsOK' /\ ArrivalsCountOnce'
  <2> DEFINE b == call[t].set
  <2>1. bits' = Left(b) /\ Arrive(b, Syncing(Released(b)))
    BY <1>3 DEF set
  <2>2. b \in SUBSET Bit
    BY <1>3, GroupCallOK DEF set, Tries, GroupOp
  <2> HIDE DEF b
  <2> QED  BY <1>2, <2>1, <2>2, MeetingCounts
<1>4. ASSUME NEW t \in Task, clear(t) PROVE CountsOK' /\ ArrivalsCountOnce'
  BY <1>4, FewerBitsCount DEF clear
<1>5. ASSUME NEW t \in Task, wait(t) PROVE CountsOK' /\ ArrivalsCountOnce'
  <2>1. bits' \subseteq bits /\ UNCHANGED <<arrived, ghosts>>
    BY <1>5 DEF wait
  <2> QED  BY <2>1, FewerBitsCount
<1>6. ASSUME NEW t \in Task, sync(t) PROVE CountsOK' /\ ArrivalsCountOnce'
  <2> DEFINE b == call[t].set
             ts == Released(b)
             want == call[t].want
  <2>1. \/ /\ bits' = AfterRendezvous(Left(b), want) /\ Arrive(b, Syncing(ts) \cup {t})
           /\ want \subseteq bits \cup b
        \/ bits' = Left(b) /\ Arrive(b, Syncing(ts))
        \/ bits' = AfterRendezvous(bits, want) /\ Arrive({}, {t}) /\ want \subseteq bits
        \/ UNCHANGED <<bits, arrived, ghosts>>
    BY <1>6 DEF sync
  <2>2. call[t].op = "sync" /\ b \in SUBSET Bit
    BY <1>6, GroupCallOK DEF sync, Tries, GroupOp
  <2> HIDE DEF b
  <2>3. /\ Left(b) \subseteq bits \cup b /\ Syncing(ts) \in SUBSET Task
        /\ \A u \in Syncing(ts) :
              /\ call[u].op = "sync" /\ call[u].want \subseteq bits \cup b
              /\ Left(b) \cap call[u].want = {}
    BY <1>2, <2>2
  <2> HIDE DEF ts
  <2>4. CASE /\ bits' = AfterRendezvous(Left(b), want) /\ Arrive(b, Syncing(ts) \cup {t})
             /\ want \subseteq bits \cup b
    <3>1. /\ bits' \subseteq Left(b) /\ bits' \cap want = {}
          /\ Syncing(ts) \cup {t} \in SUBSET Task
      BY <2>3, <2>4 DEF AfterRendezvous
    <3>2. \A u \in Syncing(ts) \cup {t} :
              /\ call[u].op = "sync" /\ call[u].want \subseteq bits \cup b
              /\ bits' \cap call[u].want = {}
      BY <2>2, <2>3, <2>4, <3>1
    <3>3. bits' \subseteq bits \cup b
      BY <2>3, <3>1
    <3> QED  BY <2>2, <2>4, <3>1, <3>2, <3>3, MeetingCounts
  <2>5. CASE bits' = Left(b) /\ Arrive(b, Syncing(ts))
    BY <2>2, <2>3, <2>5, MeetingCounts
  <2>6. CASE bits' = AfterRendezvous(bits, want) /\ Arrive({}, {t}) /\ want \subseteq bits
    <3>1. /\ bits' \subseteq bits \cup {} /\ bits' \cap want = {}
          /\ want \subseteq bits \cup {}
      BY <2>6 DEF AfterRendezvous
    <3>2. {t} \in SUBSET Task /\ {} \in SUBSET Bit
      OBVIOUS
    <3> QED  BY <2>2, <2>6, <3>1, <3>2, MeetingCounts
  <2>7. CASE UNCHANGED <<bits, arrived, ghosts>>
    BY <2>7, FewerBitsCount
  <2> QED  BY <2>1, <2>4, <2>5, <2>6, <2>7
<1>7. ASSUME NEW b \in IsrBits, NEW flagged \in BOOLEAN,
             clear_from_isr(b) \/ set_from_isr(b, flagged)
      PROVE  CountsOK' /\ ArrivalsCountOnce'
  <2>1. UNCHANGED <<bits, arrived, ghosts>>
    BY <1>7 DEF clear_from_isr, set_from_isr, Post
  <2> QED  BY <2>1, FewerBitsCount
<1>8. ASSUME Serve PROVE CountsOK' /\ ArrivalsCountOnce'
  <2>1. CASE pended = <<>>
    <3>1. UNCHANGED <<bits, arrived, ghosts>>
      BY <1>8, <2>1 DEF Serve, group
    <3> QED  BY <3>1, FewerBitsCount
  <2>2. CASE pended # <<>>
    <3> DEFINE cmd == Head(pended)
               b == IF cmd.op = "set" THEN cmd.set ELSE {}
               ts == IF cmd.op = "set" THEN Released(b) ELSE {}
    <3>1. /\ bits' = IF cmd.op = "set" THEN Left(b) ELSE bits \ cmd.set
          /\ Arrive(b, Syncing(ts))
      BY <1>8, <2>2 DEF Serve
    <3>2. cmd \in [op : {"set", "clear"}, set : SUBSET Bit]
      BY <2>2, HeadTailProperties DEF GroupTypeOK
    <3> HIDE DEF cmd
    <3>3. b \in SUBSET Bit
      BY <3>2
    <3>4. CASE cmd.op = "set"
      <4>1. bits' = Left(b) /\ Arrive(b, Syncing(Released(b)))
        BY <3>1, <3>4
      <4> HIDE DEF b
      <4> QED  BY <1>2, <3>3, <4>1, MeetingCounts
    <3>5. CASE cmd.op # "set"
      <4>1. b = {} /\ Syncing(ts) = {} /\ bits' \subseteq bits \cup b
        BY <3>1, <3>5 DEF Syncing
      <4> HIDE DEF b, ts
      <4> QED  BY <3>1, <3>3, <4>1, MeetingCounts
    <3> QED  BY <3>4, <3>5
  <2> QED  BY <2>1, <2>2
<1> QED  BY <1>1, <1>3, <1>4, <1>5, <1>6, <1>7, <1>8 DEF GroupStep

-----------------------------------------------------------------------------
(* Stream and message buffers.                                             *)

(* The bytes in use are those of the messages with their headers: after[i] *)
(* of them come after message i.                                           *)
Framing ==
    framed =>
        \E after \in [0 .. Len(messages) -> Nat] :
            /\ after[0] = bytes /\ after[Len(messages)] = 0
            /\ \A i \in 1 .. Len(messages) : after[i - 1] = after[i] + messages[i] + Header

StreamOK ==
    /\ StreamTypeOK
    /\ shape \in Shapes \/ (shape = NoShape /\ object \notin {"stream", "message"})
    /\ framed = (object = "message")
    /\ Framing

LEMMA ShapeOK ==
    ASSUME StreamAssumption, StreamOK
    PROVE  /\ Capacity \in Nat /\ Trigger \in Nat /\ Trigger >= 1
           /\ bytes \in Nat /\ bytes <= Capacity /\ Space \in Nat /\ Space = Capacity - bytes
           /\ Header \in Nat /\ Header > 0 /\ \A n \in Lengths : n \in Nat /\ n > 0
           /\ messages \in Seq(Lengths)
<1>1. /\ shape \in Shape /\ shape.BufferSize \in Nat /\ shape.TriggerLevel \in Nat
      /\ shape.TriggerLevel >= 1 /\ shape.BufferSize >= 1 /\ shape.static \in BOOLEAN
  BY DEF StreamAssumption, StreamOK, StreamTypeOK, Shape, NoShape
<1>2. Capacity \in Nat /\ Trigger \in Nat /\ Trigger >= 1
  BY <1>1 DEF Capacity, Trigger
<1> QED  BY <1>2 DEF StreamOK, StreamTypeOK, Space, StreamAssumption

LEMMA WrittenOK ==
    ASSUME StreamAssumption, StreamOK, NEW n \in Lengths, NEW late \in BOOLEAN,
           NEW k \in Written(n, late)
    PROVE  k \in 0 .. Space /\ (framed /\ k > 0 => k = n + Header)
<1>1. Space \in Nat /\ n \in Nat /\ n > 0 /\ Header \in Nat
  BY ShapeOK
<1> DEFINE most == IF framed THEN (IF Need(n) <= Space THEN Need(n) ELSE 0) ELSE LeastOf(n, Space)
<1>2. most \in 0 .. Space /\ (framed /\ most > 0 => most = n + Header)
  BY <1>1 DEF Need, LeastOf
<1>3. k \in IF ~late \/ most = 0 THEN {most} ELSE IF framed THEN {0, most} ELSE 1 .. most
  BY DEF Written
<1> HIDE DEF most
<1> QED  BY <1>1, <1>2, <1>3

LEMMA StoreOK ==
    ASSUME StreamAssumption, StreamOK, NEW n \in Lengths, NEW k \in 0 .. Space,
           framed /\ k > 0 => k = n + Header, Store(k), object' = object
    PROVE  StreamOK' /\ bytes' = bytes + k /\ UNCHANGED <<shape, framed, notified>>
<1>1. /\ Capacity \in Nat /\ bytes \in Nat /\ bytes <= Capacity /\ Space = Capacity - bytes
      /\ Header \in Nat /\ n \in Nat /\ messages \in Seq(Lengths)
  BY ShapeOK
<1>2. /\ bytes' = bytes + k /\ UNCHANGED <<shape, framed, notified>>
      /\ messages' = IF framed /\ k > 0 THEN Append(messages, k - Header) ELSE messages
  BY DEF Store
<1>3. bytes' \in 0 .. Capacity /\ Capacity' = Capacity
  BY <1>1, <1>2 DEF Capacity
<1>4. CASE framed /\ k > 0
  <2>1. k = n + Header /\ messages' = Append(messages, n)
    BY <1>1, <1>2, <1>4
  <2>2. /\ messages' \in Seq(Lengths) /\ Len(messages') = Len(messages) + 1
        /\ \A i \in 1 .. Len(messages) : messages'[i] = messages[i]
        /\ messages'[Len(messages) + 1] = n
        /\ Len(messages) \in Nat
    BY <1>1, <2>1, AppendProperties, LenProperties
  <2>3. PICK after \in [0 .. Len(messages) -> Nat] :
            /\ after[0] = bytes /\ after[Len(messages)] = 0
            /\ \A i \in 1 .. Len(messages) : after[i - 1] = after[i] + messages[i] + Header
    BY <1>4 DEF StreamOK, Framing
  <2> DEFINE more == [i \in 0 .. Len(messages') |-> IF i = Len(messages') THEN 0 ELSE after[i] + k]
  <2>4. more \in [0 .. Len(messages') -> Nat]
    BY <2>2, <2>3
  <2>5. more[0] = bytes' /\ more[Len(messages')] = 0
    BY <1>2, <2>2, <2>3
  <2>6. ASSUME NEW i \in 1 .. Len(messages')
        PROVE  more[i - 1] = more[i] + messages'[i] + Header
    <3>1. i - 1 \in 0 .. Len(messages) /\ i - 1 # Len(messages') /\ i \in 0 .. Len(messages')
      BY <2>2
    <3>2. more[i - 1] = after[i - 1] + k
      BY <2>2, <3>1
    <3>3. CASE i = Len(messages')
      <4>1. more[i] = 0 /\ messages'[i] = n /\ after[i - 1] = 0
        BY <2>2, <2>3, <3>1, <3>3
      <4> QED  BY <1>1, <2>1, <3>2, <4>1
    <3>4. CASE i # Len(messages')
      <4>1. i \in 1 .. Len(messages)
        BY <2>2, <3>4
      <4>2. /\ more[i] = after[i] + k /\ messages'[i] = messages[i]
            /\ after[i - 1] = after[i] + messages[i] + Header
        BY <2>2, <2>3, <3>1, <3>4, <4>1
      <4>3. after[i] \in Nat /\ messages[i] \in Nat
        <5>1. messages[i] \in Lengths
          BY <1>1, <4>1, ElementOfSeq
        <5>2. messages[i] \in Nat
          BY <5>1, ShapeOK
        <5>3. i \in 0 .. Len(messages)
          BY <2>2, <4>1
        <5>4. after[i] \in Nat
          BY <2>3, <5>3
        <5> QED  BY <5>2, <5>4
      <4> QED  BY <1>1, <3>2, <4>2, <4>3
    <3> QED  BY <3>3, <3>4
  <2> HIDE DEF more
  <2>7. Framing'
    BY <2>4, <2>5, <2>6, <1>2 DEF Framing
  <2> QED  BY <1>2, <1>3, <2>2, <2>7 DEF StreamOK, StreamTypeOK
<1>5. CASE ~(framed /\ k > 0)
  <2>1. messages' = messages /\ (framed => bytes' = bytes)
    BY <1>1, <1>2, <1>5
  <2>2. Framing'
    BY <1>2, <2>1 DEF StreamOK, Framing
  <2> QED  BY <1>2, <1>3, <2>1, <2>2 DEF StreamOK, StreamTypeOK
<1> QED  BY <1>2, <1>4, <1>5

LEMMA FetchOK ==
    ASSUME StreamAssumption, StreamOK, NEW n \in Nat, Readable(n) > 0, Fetch(Readable(n)),
           object' = object
    PROVE  /\ StreamOK' /\ bytes' <= bytes /\ bytes' \in Nat
           /\ UNCHANGED <<shape, framed, notified>>
<1> DEFINE k == Readable(n)
<1>1. /\ Capacity \in Nat /\ bytes \in Nat /\ bytes <= Capacity
      /\ Header \in Nat /\ messages \in Seq(Lengths)
  BY ShapeOK
<1>2. /\ bytes' = bytes - k /\ UNCHANGED <<shape, framed, notified>>
      /\ messages' = IF framed THEN Tail(messages) ELSE messages
  BY DEF Fetch
<1>3. Capacity' = Capacity
  BY <1>2 DEF Capacity
<1>4. CASE framed
  <2>1. messages # <<>> /\ k = Head(messages) + Header
    BY <1>4 DEF Readable
  <2>2. /\ messages' \in Seq(Lengths) /\ Len(messages') = Len(messages) - 1
        /\ \A i \in 1 .. Len(messages') : messages'[i] = messages[i + 1]
        /\ Len(messages) \in Nat \ {0} /\ Head(messages) = messages[1]
        /\ messages[1] \in Nat
    <3>1. Len(messages) \in Nat \ {0}
      BY <1>1, <2>1, EmptySeq
    <3>2. messages[1] \in Nat /\ Head(messages) = messages[1]
      <4>1. messages[1] \in Lengths
        BY <1>1, <3>1, ElementOfSeq
      <4>2. Head(messages) = messages[1]
        BY <1>1, <2>1
      <4> QED  BY <4>1, <4>2, ShapeOK
    <3>3. messages' = Tail(messages)
      BY <1>2, <1>4
    <3> QED  BY ONLY <1>1, <2>1, <3>1, <3>2, <3>3, HeadTailProperties
  <2>3. PICK after \in [0 .. Len(messages) -> Nat] :
            /\ after[0] = bytes /\ after[Len(messages)] = 0
            /\ \A i \in 1 .. Len(messages) : after[i - 1] = after[i] + messages[i] + Header
    BY <1>4 DEF StreamOK, Framing
  <2> HIDE DEF k
  <2>4. bytes = after[1] + k /\ after[1] \in Nat /\ k \in Nat
    <3>0. 1 \in 1 .. Len(messages) /\ 1 \in 0 .. Len(messages)
      BY ONLY <2>2
    <3>1. after[1 - 1] = after[1] + messages[1] + Header /\ after[1] \in Nat
      BY ONLY <2>3, <3>0
    <3> QED  BY <1>1, <2>1, <2>2, <2>3, <3>1
  <2>5. bytes' = after[1] /\ bytes' <= bytes /\ bytes' \in 0 .. Capacity
    BY <1>1, <1>2, <2>4
  <2> DEFINE less == [i \in 0 .. Len(messages') |-> after[i + 1]]
  <2>6. less \in [0 .. Len(messages') -> Nat]
    BY <2>2, <2>3
  <2>7. less[0] = bytes' /\ less[Len(messages')] = 0
    BY <2>2, <2>3, <2>5
  <2>8. ASSUME NEW i \in 1 .. Len(messages')
        PROVE  less[i - 1] = less[i] + messages'[i] + Header
    <3>1. i - 1 \in 0 .. Len(messages') /\ i \in 0 .. Len(messages') /\ i + 1 \in 1 .. Len(messages)
      BY <2>2
    <3>2. less[i - 1] = after[i] /\ less[i] = after[i + 1] /\ messages'[i] = messages[i + 1]
      BY <2>2, <3>1
    <3>3. after[(i + 1) - 1] = after[i + 1] + messages[i + 1] + Header
      BY <2>3, <3>1
    <3> QED  BY <3>2, <3>3
  <2> HIDE DEF less
  <2>9. Framing'
    BY <1>2, <2>6, <2>7, <2>8 DEF Framing
  <2> QED  BY <1>2, <1>3, <2>2, <2>5, <2>9 DEF StreamOK, StreamTypeOK
<1>5. CASE ~framed
  <2>1. k \in Nat /\ k <= bytes
    BY <1>1, <1>5 DEF Readable, LeastOf
  <2> HIDE DEF k
  <2>2. messages' = messages /\ bytes' \in 0 .. Capacity /\ bytes' <= bytes
    BY <1>1, <1>2, <1>5, <2>1
  <2>3. Framing'
    BY <1>2, <1>5 DEF Framing
  <2>4. UNCHANGED <<object, shape, framed, messages, notified>>
    BY <1>2, <2>2
  <2>5. bytes' \in Nat
    BY <1>1, <2>2
  <2>6. StreamTypeOK'
    BY <1>3, <2>2, <2>4 DEF StreamOK, StreamTypeOK
  <2>7. StreamOK'
    BY <2>3, <2>4, <2>6 DEF StreamOK
  <2> QED  BY <2>2, <2>4, <2>5, <2>7
<1> QED  BY <1>4, <1>5

(* Those who are left after a step wait for what is not there.             *)
LEMMA OthersLack ==
    ASSUME SchedulerAssumption, KernelOK, NEW t, NEW c, NEW ts, Moved(t, c, ts),
           UNCHANGED <<shape, framed>>,
           \A u \in Waiting({"read"}) \ ts : bytes' < Trigger,
           \A u \in Waiting({"write"}) \ ts : Capacity - bytes' < Need(call[u].len),
           \A u \in Waiting({"await"}) \ ts : u # t => notified'[u] = 0,
           t \in Thread /\ c.phase = "blocked" =>
               /\ c.op = "read" => bytes' < Trigger
               /\ c.op = "write" => Capacity - bytes' < Need(c.len)
               /\ c.op = "await" => notified'[t] = 0
    PROVE  StreamKeepsMoving'
<1>1. \A u \in Thread :
          /\ u = t => call'[u] = c
          /\ u # t => /\ call'[u].op = call[u].op /\ call'[u].len = call[u].len
                      /\ call'[u].phase = IF u \in ts THEN "woken" ELSE call[u].phase
  BY MovedFields DEF KernelOK
<1>2. Trigger' = Trigger
  BY DEF Trigger
<1>3. ASSUME NEW u \in Waiting({"read"})' PROVE bytes' < Trigger
  <2>1. CASE u = t
    BY <1>1, <2>1 DEF Waiting
  <2>2. CASE u # t
    <3>1. u \in Waiting({"read"}) \ ts
      BY <1>1, <2>2 DEF Waiting
    <3> QED  BY <3>1
  <2> QED  BY <2>1, <2>2
<1>4. ASSUME NEW u \in Waiting({"write"})' PROVE Capacity - bytes' < Need(call'[u].len)
  <2>1. CASE u = t
    BY <1>1, <2>1 DEF Waiting
  <2>2. CASE u # t
    <3>1. u \in Waiting({"write"}) \ ts /\ call'[u].len = call[u].len
      BY <1>1, <2>2 DEF Waiting
    <3> QED  BY <3>1
  <2> QED  BY <2>1, <2>2
<1>5. ASSUME NEW u \in Waiting({"await"})' PROVE notified'[u] = 0
  <2>1. CASE u = t
    BY <1>1, <2>1 DEF Waiting
  <2>2. CASE u # t
    <3>1. u \in Waiting({"await"}) \ ts
      BY <1>1, <2>2 DEF Waiting
    <3> QED  BY <2>2, <3>1
  <2> QED  BY <2>1, <2>2
<1>6. (\A u \in Waiting({"write"}) : Space < Need(call[u].len))'
  BY <1>4 DEF Need, Capacity, Space
<1>7. (Waiting({"read"}) # {} => bytes < Trigger)'
  BY <1>2, <1>3
<1>8. (\A u \in Waiting({"await"}) : notified[u] = 0)'
  BY <1>5
<1> QED  BY <1>6, <1>7, <1>8 DEF StreamKeepsMoving

LEMMA StreamWaiters ==
    ASSUME KernelOK, StreamKeepsMoving
    PROVE  /\ \A u \in Waiting({"read"}) : bytes < Trigger
           /\ \A u \in Waiting({"write"}) : Capacity - bytes < Need(call[u].len)
           /\ \A u \in Waiting({"await"}) : notified[u] = 0
           /\ \A ops : Waiting(ops) \subseteq Blocked
           /\ \A u \in Waiting({"write"}) : call[u].len \in Lengths
<1>1. Waiting({"write"}) \subseteq Task
  BY WaitingTasks
<1>2. \A u \in Waiting({"write"}) : call[u].len \in Lengths
  BY <1>1 DEF Waiting, KernelOK, CallsOK, CallOK, MayWrite
<1> QED  BY <1>2 DEF StreamKeepsMoving, Space, Waiting, Blocked

LEMMA NeedTyped ==
    ASSUME StreamAssumption, StreamOK, NEW n \in Lengths
    PROVE  Need(n) \in Nat /\ (framed \/ Capacity > 0 => Need(n) > 0)
<1>1. Capacity \in Nat /\ Header \in Nat /\ n \in Nat /\ n > 0
  BY ShapeOK
<1> QED  BY <1>1 DEF Need

(* What is stored reaches the reader, or leaves it below its trigger; what *)
(* is fetched makes room for the writers, who look again.                  *)
LEMMA StoreKeeps ==
    ASSUME SchedulerAssumption, StreamAssumption, KernelOK, StreamOK, StreamKeepsMoving,
           NEW t, NEW k \in Nat, Moved(t, NoCall, IF k > 0 THEN ReaderWoken(bytes + k) ELSE {}),
           bytes' = bytes + k, UNCHANGED <<shape, framed, notified>>
    PROVE  StreamKeepsMoving'
<1> DEFINE ts == IF k > 0 THEN ReaderWoken(bytes + k) ELSE {}
<1>1. bytes \in Nat /\ Capacity \in Nat /\ Trigger \in Nat /\ NoCall.phase # "blocked"
  BY ShapeOK, NoCallIs
<1>2. ASSUME NEW u \in Waiting({"read"}) \ ts PROVE bytes' < Trigger
  <2>1. CASE k = 0
    BY <1>1, <2>1, StreamWaiters
  <2>2. CASE k > 0
    BY <1>1, <2>2 DEF ReaderWoken
  <2> QED  BY <2>1, <2>2
<1>3. ASSUME NEW u \in Waiting({"write"}) PROVE Capacity - bytes' < Need(call[u].len)
  <2>1. Capacity - bytes < Need(call[u].len) /\ call[u].len \in Lengths
    BY StreamWaiters
  <2>2. Need(call[u].len) \in Nat
    BY <2>1, NeedTyped
  <2> QED  BY <1>1, <2>1, <2>2
<1> HIDE DEF ts
<1>4. Moved(t, NoCall, ts)
  BY DEF ts
<1> QED  BY <1>1, <1>2, <1>3, <1>4, OthersLack, StreamWaiters

LEMMA FetchKeeps ==
    ASSUME SchedulerAssumption, StreamAssumption, KernelOK, StreamOK, StreamKeepsMoving,
           NEW t, Moved(t, NoCall, Waiting({"write"})),
           bytes' <= bytes, bytes' \in Nat, UNCHANGED <<shape, framed, notified>>
    PROVE  StreamKeepsMoving'
<1>1. bytes \in Nat /\ Trigger \in Nat /\ NoCall.phase # "blocked"
  BY ShapeOK, NoCallIs
<1>2. \A u \in Waiting({"read"}) : bytes' < Trigger
  BY <1>1, StreamWaiters
<1> QED  BY <1>1, <1>2, OthersLack, StreamWaiters

(* Nothing has been stored or fetched; c does not wait for what is there.  *)
LEMMA StillKeeps ==
    ASSUME SchedulerAssumption, KernelOK, StreamKeepsMoving,
           NEW t, NEW c, NEW ts, Moved(t, c, ts), UNCHANGED <<shape, framed, bytes>>,
           \A u \in Waiting({"await"}) \ ts : u # t => notified'[u] = 0,
           t \in Thread /\ c.phase = "blocked" =>
               /\ c.op = "read" => bytes < Trigger
               /\ c.op = "write" => Capacity - bytes < Need(c.len)
               /\ c.op = "await" => notified'[t] = 0
    PROVE  StreamKeepsMoving'
BY OthersLack, StreamWaiters

LEMMA StillOK ==
    ASSUME StreamOK, UNCHANGED <<object, shape, framed, bytes, messages>>,
           notified' \in [Task -> 0 .. MaxNotified]
    PROVE  StreamOK'
<1>1. Framing' /\ Capacity' = Capacity
  BY DEF StreamOK, Framing, Capacity
<1> QED  BY <1>1 DEF StreamOK, StreamTypeOK

(* Who may be refused for ever: whoever sends what never fits, or reads.   *)
Excused(u) ==
    \/ call[u].op = "write" /\ NeverFits(call[u].len)
    \/ call[u].op = "read"

LEMMA StreamNextOK ==
    ASSUME SchedulerAssumption, StreamAssumption, KernelOK, StreamOK, StreamKeepsMoving, StreamNext
    PROVE  /\ KernelOK' /\ StreamOK' /\ StreamKeepsMoving'
           /\ \A u \in refused' \ refused : Excused(u)
<1> DEFINE Goal == /\ KernelOK' /\ StreamOK' /\ StreamKeepsMoving'
                   /\ \A u \in refused' \ refused : Excused(u)
<1>1. StreamStep /\ UNCHANGED <<object, pended>>
  BY DEF StreamNext, group
<1>2. ASSUME NEW n \in Lengths, NEW late \in BOOLEAN, NEW k \in Written(n, late), Store(k)
      PROVE  /\ StreamOK' /\ bytes' = bytes + k /\ UNCHANGED <<object, shape, framed, notified>>
             /\ k \in Nat
  <2>1. k \in 0 .. Space /\ (framed /\ k > 0 => k = n + Header) /\ Space \in Nat
    BY <1>2, WrittenOK, ShapeOK
  <2> QED  BY <1>1, <1>2, <2>1, StoreOK
<1>3. \A b : ReaderWoken(b) \subseteq Blocked
  BY StreamWaiters DEF ReaderWoken
<1>4. /\ Idle \notin Task /\ Task \subseteq Thread
      /\ call \in [Thread -> AnyCall] /\ notified \in [Task -> 0 .. MaxNotified]
  BY DEF SchedulerAssumption, Thread, KernelOK, CallsOK, StreamOK, StreamTypeOK
<1>5. ASSUME NEW t \in Task, write(t) PROVE Goal
  <2> DEFINE n == call[t].len
             late == call[t].phase = "late"
  <2>1. call[t].op = "write" /\ call[t].phase \in AboutToTry
    BY <1>5 DEF write, Tries, AboutToTry
  <2>2. n \in Lengths /\ late \in BOOLEAN
    BY <2>1 DEF KernelOK, CallsOK, CallOK, MayWrite
  <2>3. CASE /\ Space < Need(n) /\ Need(n) <= Capacity
             /\ Block(t, {}) /\ UNCHANGED stream
    <3>1. UNCHANGED <<object, shape, framed, bytes, messages, notified>>
      BY <1>1, <2>3 DEF stream
    <3>2. /\ KernelOK' /\ refused' \subseteq refused
          /\ Moved(t, [call[t] EXCEPT !.phase = "blocked"], {})
      BY <1>4, <2>1, <2>3, <3>1, BlockOK DEF AboutToTry
    <3> DEFINE c == [call[t] EXCEPT !.phase = "blocked"]
    <3>3. c.op = "write" /\ Capacity - bytes < Need(c.len)
      BY <1>4, <2>1, <2>3 DEF AnyCall, Space
    <3> HIDE DEF c
    <3>4. Moved(t, c, {})
      BY <3>2 DEF c
    <3>5. StreamKeepsMoving'
      BY <3>1, <3>3, <3>4, StillKeeps, StreamWaiters
    <3> QED  BY <1>4, <3>1, <3>2, <3>5, StillOK
  <2>4. ASSUME NEW k \in Written(n, late), Store(k),
               Space >= Need(n) \/ Need(n) > Capacity \/ ~Patient(t),
               \/ k > 0 /\ Return(t, ReaderWoken(bytes + k))
               \/ k = 0 /\ Refuse(t, {})
        PROVE  Goal
    <3>1. /\ StreamOK' /\ bytes' = bytes + k /\ UNCHANGED <<object, shape, framed, notified>>
          /\ k \in Nat
      BY <1>2, <2>2, <2>4
    <3> DEFINE ts == IF k > 0 THEN ReaderWoken(bytes + k) ELSE {}
    <3>2. (Return(t, ts) \/ Refuse(t, ts)) /\ ts \subseteq Blocked
      BY <1>3, <2>4, <3>1
    <3>3. KernelOK' /\ Moved(t, NoCall, ts)
      BY <3>1, <3>2, ReturnOK
    <3>4. StreamKeepsMoving'
      BY <3>1, <3>3, StoreKeeps
    <3>5. ASSUME ~NeverFits(n), k = 0, Refuse(t, {})
          PROVE  refused' \subseteq refused
      <4>0. Capacity > 0 /\ Need(n) <= Capacity
        <5>1. Need(n) \in Nat /\ Capacity \in Nat
          BY <2>2, ShapeOK, NeedTyped
        <5> HIDE DEF n
        <5> QED  BY <3>5, <5>1 DEF NeverFits
      <4>1. CASE Patient(t)
        <5>1. Space >= Need(n) /\ ~late
          <6>1. ~late
            BY <4>1 DEF Patient
          <6>2. Space >= Need(n) \/ Need(n) > Capacity
            BY <2>4, <4>1
          <6>3. Need(n) \in Nat /\ Capacity \in Nat
            BY <2>2, ShapeOK, NeedTyped
          <6> HIDE DEF n, late
          <6> QED  BY <4>0, <6>1, <6>2, <6>3
        <5>2. k = IF framed THEN (IF Need(n) <= Space THEN Need(n) ELSE 0) ELSE LeastOf(n, Space)
          BY <2>4, <5>1 DEF Written
        <5>3. Need(n) > 0 /\ Need(n) \in Nat /\ Space \in Nat /\ n \in Nat /\ n > 0
          BY <2>2, <4>0, NeedTyped, ShapeOK
        <5> HIDE DEF n
        <5> QED  BY <3>5, <5>1, <5>2, <5>3 DEF LeastOf
      <4>2. CASE ~Patient(t)
        <5>1. call[t].ms # "0xFFFFFFFF"
          BY <4>2 DEF Patient, KernelOK, CallsOK, CallOK, Ticks
        <5> QED  BY <3>5, <5>1 DEF Refuse, RefusedTo
      <4> QED  BY <4>1, <4>2
    <3>6. refused' \subseteq refused \cup {t}
      BY <2>4 DEF Return, Refuse, RefusedTo
    <3>7. ASSUME NEW u \in refused' \ refused PROVE Excused(u)
      <4>1. u = t /\ ~(k > 0)
        BY <2>4, <3>6, <3>7 DEF Return
      <4>2. NeverFits(n)
        BY <2>4, <3>5, <4>1
      <4> QED  BY <2>1, <4>1, <4>2 DEF Excused
    <3> QED  BY <3>1, <3>3, <3>4, <3>7
  <2> QED  BY <1>5, <2>3, <2>4 DEF write
<1>6. ASSUME NEW t \in Task, read(t) PROVE Goal
  <2> DEFINE n == call[t].len
             k == Readable(n)
  <2>1. call[t].op = "read" /\ call[t].phase \in AboutToTry /\ n \in Nat
    BY <1>4, <1>6 DEF read, Tries, AboutToTry, AnyCall
  <2>2. CASE bytes = 0 /\ Block(t, {}) /\ UNCHANGED stream
    <3>1. UNCHANGED <<object, shape, framed, bytes, messages, notified>>
      BY <1>1, <2>2 DEF stream
    <3>2. /\ KernelOK' /\ refused' \subseteq refused
          /\ Moved(t, [call[t] EXCEPT !.phase = "blocked"], {})
      BY <1>4, <2>1, <2>2, <3>1, BlockOK DEF AboutToTry
    <3> DEFINE c == [call[t] EXCEPT !.phase = "blocked"]
    <3>3. c.op = "read" /\ bytes < Trigger
      BY <1>4, <2>1, <2>2, ShapeOK DEF AnyCall
    <3> HIDE DEF c
    <3>4. Moved(t, c, {})
      BY <3>2 DEF c
    <3>5. StreamKeepsMoving'
      BY <3>1, <3>3, <3>4, StillKeeps, StreamWaiters
    <3> QED  BY <1>4, <3>1, <3>2, <3>5, StillOK
  <2>3. CASE k > 0 /\ Fetch(k) /\ Return(t, Waiting({"write"}))
    <3>1. StreamOK' /\ bytes' <= bytes /\ bytes' \in Nat /\ UNCHANGED <<object, shape, framed, notified>>
      BY <1>1, <2>1, <2>3, FetchOK
    <3>2. KernelOK' /\ Moved(t, NoCall, Waiting({"write"})) /\ refused' \subseteq refused
      BY <2>3, <3>1, ReturnOK, StreamWaiters DEF Return
    <3> QED  BY <3>1, <3>2, FetchKeeps
  <2>4. CASE Refuse(t, {}) /\ UNCHANGED stream
    <3>1. UNCHANGED <<object, shape, framed, bytes, messages, notified>>
      BY <1>1, <2>4 DEF stream
    <3>2. KernelOK' /\ Moved(t, NoCall, {})
      BY <2>4, <3>1, ReturnOK
    <3>4. refused' \subseteq refused \cup {t} /\ Excused(t)
      BY <2>1, <2>4 DEF Refuse, RefusedTo, Excused
    <3>3. StreamKeepsMoving'
      BY <3>1, <3>2, StillKeeps, StreamWaiters, NoCallIs
    <3> QED  BY <1>4, <3>1, <3>2, <3>3, <3>4, StillOK
  <2> QED  BY <1>6, <2>2, <2>3, <2>4 DEF read
<1>7. ASSUME NEW t \in Task, reset_buffer(t) PROVE Goal
  <2>1. /\ Waiting({"read", "write"}) = {} /\ bytes' = 0 /\ messages' = <<>>
        /\ UNCHANGED <<kernel, shape, framed, notified>>
    BY <1>7 DEF reset_buffer
  <2>2. UNCHANGED <<exists, running, suspended, isr, call, refused, object, shape, framed, notified, pended>>
    BY <1>1, <2>1 DEF kernel
  <2>3. KernelOK'
    <3>1. CallsOK'
      BY <2>2 DEF KernelOK, CallsOK, CallOK, MayWrite, Need, Capacity
    <3>2. Dispatched'
      BY <2>2 DEF KernelOK, Dispatched, ClearPosted
    <3> QED  BY <2>2, <3>1, <3>2 DEF KernelOK
  <2>4. StreamOK'
    <3>1. Len(messages') = 0 /\ messages' \in Seq(Lengths)
      BY <2>1
    <3>2. Framing'
      <4> DEFINE none == [i \in 0 .. Len(messages') |-> 0]
      <4>1. none \in [0 .. Len(messages') -> Nat] /\ none[0] = bytes' /\ none[Len(messages')] = 0
        BY <2>1, <3>1
      <4>2. \A i \in 1 .. Len(messages') : none[i - 1] = none[i] + messages'[i] + Header
        BY <3>1
      <4> HIDE DEF none
      <4> QED  BY <4>1, <4>2 DEF Framing
    <3>3. bytes' \in 0 .. Capacity /\ Capacity' = Capacity
      BY <2>1, <2>2, ShapeOK DEF Capacity
    <3> QED  BY <2>2, <3>1, <3>2, <3>3 DEF StreamOK, StreamTypeOK
  <2>5. StreamKeepsMoving'
    BY <2>1, <2>2 DEF StreamKeepsMoving, Waiting
  <2> QED  BY <2>2, <2>3, <2>4, <2>5
<1>8. ASSUME NEW n \in Lengths, NEW flagged \in BOOLEAN, write_from_isr(n, flagged) PROVE Goal
  <2>1. PICK k \in Written(n, FALSE) :
            k > 0 /\ Store(k) /\ IsrCall(ReaderWoken(bytes + k), flagged)
    BY <1>8 DEF write_from_isr
  <2>2. /\ StreamOK' /\ bytes' = bytes + k /\ UNCHANGED <<object, shape, framed, notified>>
        /\ k \in Nat
    BY <1>2, <2>1
  <2>3. KernelOK' /\ Moved(Idle, NoCall, ReaderWoken(bytes + k)) /\ refused' \subseteq refused
    BY <1>1, <1>3, <2>1, <2>2, IsrOK DEF ClearPosted
  <2>4. StreamKeepsMoving'
    BY <2>1, <2>2, <2>3, StoreKeeps
  <2> QED  BY <2>2, <2>3, <2>4
<1>9. ASSUME NEW n \in Lengths, NEW flagged \in BOOLEAN, read_from_isr(n, flagged) PROVE Goal
  <2> DEFINE k == Readable(n)
  <2>1. k > 0 /\ Fetch(k) /\ IsrCall(Waiting({"write"}), flagged) /\ n \in Nat
    BY <1>9 DEF read_from_isr, StreamAssumption
  <2>2. StreamOK' /\ bytes' <= bytes /\ bytes' \in Nat /\ UNCHANGED <<object, shape, framed, notified>>
    BY <1>1, <2>1, FetchOK
  <2>3. KernelOK' /\ Moved(Idle, NoCall, Waiting({"write"})) /\ refused' \subseteq refused
    BY <1>1, <2>1, <2>2, IsrOK, StreamWaiters DEF ClearPosted
  <2> QED  BY <2>2, <2>3, FetchKeeps
<1> QED  BY <1>1, <1>5, <1>6, <1>7, <1>8, <1>9 DEF StreamStep

LEMMA NotificationNextOK ==
    ASSUME SchedulerAssumption, StreamAssumption, KernelOK, StreamOK, StreamKeepsMoving,
           NotificationNext
    PROVE  KernelOK' /\ StreamOK' /\ StreamKeepsMoving' /\ refused' \subseteq refused
<1> DEFINE Goal == KernelOK' /\ StreamOK' /\ StreamKeepsMoving' /\ refused' \subseteq refused
<1>1. NotificationStep /\ UNCHANGED <<object, pended>>
  BY DEF NotificationNext, group
<1>2. /\ Idle \notin Thread /\ Task \subseteq Thread /\ MaxNotified \in Nat
      /\ call \in [Thread -> AnyCall] /\ notified \in [Task -> 0 .. MaxNotified]
      /\ \A u \in Waiting({"await"}) : u \in Task /\ notified[u] = 0
  BY StreamWaiters, WaitingTasks
     DEF SchedulerAssumption, StreamAssumption, Thread, KernelOK, CallsOK, StreamOK, StreamTypeOK
<1>3. ASSUME NEW u \in Task, Give(u)
      PROVE  /\ notified' \in [Task -> 0 .. MaxNotified]
             /\ UNCHANGED <<object, shape, framed, bytes, messages>>
             /\ Notified(u) \subseteq Blocked
             /\ \A v \in Waiting({"await"}) \ Notified(u) : notified'[v] = 0
  <2>1. /\ notified[u] < MaxNotified /\ notified' = [notified EXCEPT ![u] = notified[u] + 1]
        /\ UNCHANGED <<object, shape, framed, bytes, messages>>
    BY <1>1, <1>3 DEF Give
  <2>2. notified' \in [Task -> 0 .. MaxNotified]
    BY <1>2, <2>1
  <2>3. ASSUME NEW v \in Waiting({"await"}) \ Notified(u) PROVE notified'[v] = 0
    <3>1. v # u
      BY DEF Notified, Waiting
    <3> QED  BY <1>2, <2>1, <3>1
  <2> QED  BY <2>1, <2>2, <2>3 DEF Notified, Waiting, Blocked
<1>4. ASSUME NEW t \in Task, NEW u \in Task, notify(t, u) PROVE Goal
  <2>1. /\ Give(u) /\ Reschedule(Woken(call, Notified(u)))
        /\ UNCHANGED <<exists, suspended, isr, refused>>
    BY <1>4 DEF notify
  <2>2. KernelOK' /\ Moved(Idle, NoCall, Notified(u))
    BY <1>3, <2>1, WakingOK
  <2>3. StreamKeepsMoving'
    BY <1>2, <1>3, <2>1, <2>2, StillKeeps
  <2> QED  BY <1>3, <2>1, <2>2, <2>3, StillOK
<1>5. ASSUME NEW u \in Task, NEW flagged \in BOOLEAN, notify_from_isr(u, flagged) PROVE Goal
  <2>1. Give(u) /\ IsrCall(Notified(u), flagged)
    BY <1>5 DEF notify_from_isr
  <2>2. KernelOK' /\ Moved(Idle, NoCall, Notified(u)) /\ refused' \subseteq refused
    BY <1>1, <1>3, <2>1, IsrOK DEF ClearPosted
  <2>3. StreamKeepsMoving'
    BY <1>2, <1>3, <2>1, <2>2, StillKeeps
  <2> QED  BY <1>3, <2>1, <2>2, <2>3, StillOK
<1>6. ASSUME NEW t \in Task, await(t) PROVE Goal
  <2>1. /\ call[t].op = "await" /\ call[t].phase \in AboutToTry
        /\ UNCHANGED <<object, shape, framed, bytes, messages>>
    BY <1>1, <1>6 DEF await, Tries, AboutToTry
  <2>2. CASE /\ notified[t] > 0 /\ Return(t, {})
             /\ notified' = [notified EXCEPT ![t] = IF call[t].clear THEN 0 ELSE notified[t] - 1]
    <3>1. /\ notified' \in [Task -> 0 .. MaxNotified]
          /\ \A u \in Waiting({"await"}) : u # t => notified'[u] = 0
      BY <1>2, <2>2
    <3>2. KernelOK' /\ Moved(t, NoCall, {}) /\ refused' \subseteq refused
      BY <2>1, <2>2, ReturnOK DEF Return
    <3>3. StreamKeepsMoving'
      BY <2>1, <3>1, <3>2, StillKeeps, NoCallIs
    <3> QED  BY <2>1, <3>1, <3>2, <3>3, StillOK
  <2>3. CASE notified[t] = 0 /\ BlockOrRefuse(t, {}) /\ UNCHANGED notified
    <3>1. PICK c \in {NoCall, [call[t] EXCEPT !.phase = "blocked"]} :
              KernelOK' /\ refused' \subseteq refused /\ Moved(t, c, {})
      BY <2>1, <2>3, AnswerOK DEF AboutToTry
    <3>2. c.phase = "blocked" => c.op = "await"
      BY <1>2, <2>1, NoCallIs DEF AnyCall
    <3>3. StreamKeepsMoving'
      BY <1>2, <2>1, <2>3, <3>1, <3>2, StillKeeps
    <3> QED  BY <1>2, <2>1, <2>3, <3>1, <3>3, StillOK
  <2> QED  BY <1>6, <2>2, <2>3 DEF await
<1> QED  BY <1>1, <1>4, <1>5, <1>6 DEF NotificationStep

-----------------------------------------------------------------------------
(* The inductive invariant.                                                *)
AllKeepMoving ==
    /\ object \in QueueObject => QueueKeepsMoving
    /\ object = "group" => SatisfiedAreReleased
    /\ object \in StreamObject => StreamKeepsMoving

Inv ==
    /\ object \in Objects
    /\ KernelOK /\ QueueOK /\ GroupTypeOK /\ StreamOK
    /\ AllKeepMoving

LEMMA NobodyWaitsForMore ==
    ASSUME SchedulerAssumption, ObjectAssumption, Inv, Quiet, UNCHANGED <<queue, group, stream, object>>
    PROVE  QueueOK' /\ GroupTypeOK' /\ StreamOK' /\ AllKeepMoving'
<1>1. UNCHANGED <<level, length, bits, pended, arrived, ghosts,
                  shape, framed, bytes, messages, notified, object>>
  BY DEF queue, group, stream
<1>2. \A ops : "delay" \notin ops =>
          /\ Waiting(ops)' \subseteq Waiting(ops)
          /\ \A u \in Waiting(ops)' : call'[u] = call[u]
  BY DEF Quiet, Waiting
<1>3. object \in QueueObject => QueueKeepsMoving'
  BY <1>1, QueueQuiet DEF Inv, AllKeepMoving, QueueOK
<1>4. ASSUME object = "group" PROVE SatisfiedAreReleased'
  <2>1. \A u \in Waiting(Waits)' : u \in Waiting(Waits) /\ call'[u] = call[u]
    BY <1>2 DEF Waits
  <2> QED  BY <1>1, <1>4, <2>1 DEF Inv, AllKeepMoving, SatisfiedAreReleased, Satisfied
<1>5. ASSUME object \in StreamObject PROVE StreamKeepsMoving'
  <2>1. /\ \A u \in Waiting({"read"})' : u \in Waiting({"read"})
        /\ \A u \in Waiting({"write"})' : u \in Waiting({"write"}) /\ call'[u] = call[u]
        /\ \A u \in Waiting({"await"})' : u \in Waiting({"await"})
    BY <1>2
  <2>2. StreamKeepsMoving
    BY <1>5 DEF Inv, AllKeepMoving
  <2>3. (Waiting({"read"}) # {} => bytes < Trigger)'
    BY <1>1, <2>1, <2>2 DEF StreamKeepsMoving, Trigger
  <2>4. (\A u \in Waiting({"write"}) : Space < Need(call[u].len))'
    BY <1>1, <2>1, <2>2 DEF StreamKeepsMoving, Space, Need, Capacity
  <2>5. (\A u \in Waiting({"await"}) : notified[u] = 0)'
    BY <1>1, <2>1, <2>2 DEF StreamKeepsMoving
  <2> QED  BY <2>3, <2>4, <2>5 DEF StreamKeepsMoving
<1>6. StreamOK'
  BY <1>1, StillOK DEF Inv, StreamOK, StreamTypeOK
<1>7. QueueOK' /\ GroupTypeOK'
  BY <1>1 DEF Inv, QueueOK, GroupTypeOK
<1> QED  BY <1>1, <1>3, <1>4, <1>5, <1>6, <1>7 DEF AllKeepMoving

LEMMA StutterOK ==
    ASSUME KernelOK, UNCHANGED <<kernel, group, stream, object>>
    PROVE  KernelOK' /\ Quiet
<1>1. UNCHANGED <<exists, running, suspended, isr, call, refused, pended, shape, framed, object>>
  BY DEF kernel, group, stream
<1>2. CallsOK'
  BY <1>1 DEF KernelOK, CallsOK, CallOK, MayWrite, Need, Capacity
<1>3. Dispatched'
  BY <1>1 DEF KernelOK, Dispatched, ClearPosted
<1> QED  BY <1>1, <1>2, <1>3 DEF KernelOK, Quiet

LEMMA InitInv ==
    ASSUME SchedulerAssumption, QueueAssumption, GroupAssumption, StreamAssumption,
           ObjectAssumption, Init
    PROVE  Inv
<1> DEFINE serving == [NoCall EXCEPT !.op = "serve", !.ticks = "forever", !.phase = "blocked"]
<1>1. /\ object \in Objects /\ exists \in BOOLEAN /\ running \in Top(Task)
      /\ suspended = FALSE /\ isr = NoInterrupt /\ refused = {}
      /\ call = [t \in Thread |-> IF t = Daemon THEN serving ELSE NoCall]
  BY DEF Init, SchedulerInit
<1>2. /\ serving \in AnyCall /\ serving.op = "serve" /\ serving.phase = "blocked"
      /\ NoCall \in AnyCall
  BY DEF NoCall, AnyCall, Op, Timeouts, Phase
<1> HIDE DEF serving
<1>3. /\ Task \subseteq Thread /\ Daemon \in Thread /\ Daemon \notin Task
      /\ call[Daemon] = serving /\ \A t \in Task : call[t] = NoCall
  BY <1>1 DEF SchedulerAssumption, Thread
<1>4. KernelOK
  <2>1. CallsOK
    BY <1>1, <1>2, <1>3, NoCallOK DEF CallsOK
  <2>2. Ready(call) \subseteq Task
    BY <1>2, <1>3 DEF Ready, Thread
  <2>3. Dispatched
    BY <1>1, <2>2 DEF Dispatched, Top
  <2>4. running \in Thread \cup {Idle}
    BY <1>1 DEF Top, Thread
  <2>5. /\ isr \in [active : BOOLEAN, flag : BOOLEAN, switch : BOOLEAN]
    BY <1>1 DEF NoInterrupt
  <2> QED  BY <1>1, <2>1, <2>3, <2>4, <2>5 DEF KernelOK
<1>5. \A ops : "serve" \notin ops => Waiting(ops) = {}
  BY <1>2, <1>3, NoCallIs DEF Waiting, Thread
<1>6. QueueOK
  BY DEF Init, QueueInit, NoQueue, QueueAssumption, QueueOK
<1>7. GroupTypeOK
  <2>1. pended = <<>> /\ bits = {} /\ arrived = [t \in Task |-> {}] /\ ghosts = {}
    BY DEF Init, GroupInit
  <2>2. pended \in Seq([op : {"set", "clear"}, set : SUBSET Bit]) /\ Len(pended) = 0
    BY <2>1
  <2> QED  BY <2>1, <2>2 DEF GroupTypeOK, GroupAssumption
<1>8. StreamOK
  <2>1. /\ bytes = 0 /\ messages = <<>> /\ notified = [t \in Task |-> 0]
        /\ framed = (object = "message")
        /\ shape \in Shapes \/ (shape = NoShape /\ object \notin {"stream", "message"})
    BY DEF Init, StreamInit, NoStream, NoShape
  <2>2. shape \in Shape /\ framed \in BOOLEAN
    <3>1. NoShape \in Shape
      BY DEF Shape, NoShape
    <3>2. \A s \in Shapes : s \in Shape
      BY DEF StreamAssumption
    <3>3. framed \in BOOLEAN
      BY <2>1
    <3> QED  BY <2>1, <3>1, <3>2, <3>3
  <2>3. Capacity \in Nat
    <3>1. shape.BufferSize \in Nat /\ shape.BufferSize >= 1
      BY <2>1, <2>2 DEF StreamAssumption, Shape, NoShape
    <3> QED  BY <3>1 DEF Capacity
  <2>4. messages \in Seq(Lengths) /\ Len(messages) = 0
    BY <2>1
  <2>5. Framing
    <3> DEFINE none == [i \in 0 .. Len(messages) |-> 0]
    <3>1. none \in [0 .. Len(messages) -> Nat] /\ none[0] = bytes /\ none[Len(messages)] = 0
      BY <2>1, <2>4
    <3>2. \A i \in 1 .. Len(messages) : none[i - 1] = none[i] + messages[i] + Header
      BY <2>4
    <3> HIDE DEF none
    <3> QED  BY <3>1, <3>2 DEF Framing
  <2>6. notified \in [Task -> 0 .. MaxNotified]
    BY <2>1 DEF StreamAssumption
  <2> QED  BY <2>1, <2>2, <2>3, <2>4, <2>5, <2>6 DEF StreamOK, StreamTypeOK
<1>9. AllKeepMoving
  <2>1. /\ Waiting({"receive"}) = {} /\ Waiting({"send"}) = {} /\ Waiting(Waits) = {}
        /\ Waiting({"read"}) = {} /\ Waiting({"write"}) = {} /\ Waiting({"await"}) = {}
    BY <1>5 DEF Waits
  <2> QED  BY <2>1 DEF AllKeepMoving, QueueKeepsMoving, Spoken, SatisfiedAreReleased, StreamKeepsMoving
<1> QED  BY <1>1, <1>4, <1>6, <1>7, <1>8, <1>9 DEF Inv

LEMMA StepInv ==
    ASSUME SchedulerAssumption, QueueAssumption, GroupAssumption, StreamAssumption,
           ObjectAssumption, Inv, [Next]_vars
    PROVE  Inv'
<1> USE DEF Inv
<1>1. ASSUME NEW t \in Task, Ask(t) PROVE Inv'
  <2>1. UNCHANGED <<queue, group, stream, object>>
    BY <1>1 DEF Ask
  <2>2. KernelOK' /\ Quiet
    BY <1>1, AskOK
  <2> QED  BY <2>1, <2>2, NobodyWaitsForMore
<1>2. CASE KernelNext
  <2>1. UNCHANGED <<queue, group, stream, object>>
    BY <1>2 DEF KernelNext
  <2>2. KernelOK' /\ Quiet
    BY <1>2, KernelNextOK
  <2> QED  BY <2>1, <2>2, NobodyWaitsForMore
<1>3. CASE QueueNext
  <2>1. /\ object \in QueueObject /\ object \notin StreamObject /\ object # "group"
        /\ object' = object /\ UNCHANGED <<group, stream>>
    BY <1>3 DEF QueueNext, QueueObject, StreamObject
  <2>2. KernelOK' /\ QueueOK' /\ QueueKeepsMoving'
    BY <1>3, <2>1, QueueNextOK DEF AllKeepMoving
  <2>3. GroupTypeOK'
    BY <2>1 DEF GroupTypeOK, group
  <2>4. StreamOK'
    BY <2>1, StillOK DEF stream, StreamOK, StreamTypeOK
  <2> QED  BY <2>1, <2>2, <2>3, <2>4 DEF AllKeepMoving
<1>4. CASE GroupNext
  <2>1. /\ object = "group" /\ object \notin StreamObject /\ object \notin QueueObject
        /\ object' = object /\ UNCHANGED <<queue, stream>>
    BY <1>4 DEF GroupNext, QueueObject, StreamObject
  <2>2. KernelOK' /\ GroupTypeOK' /\ SatisfiedAreReleased'
    BY <1>4, <2>1, GroupNextOK DEF AllKeepMoving
  <2>3. QueueOK'
    BY <2>1 DEF QueueOK, queue
  <2>4. StreamOK'
    BY <2>1, StillOK DEF stream, StreamOK, StreamTypeOK
  <2> QED  BY <2>1, <2>2, <2>3, <2>4 DEF AllKeepMoving
<1>5. CASE StreamNext \/ NotificationNext
  <2>1. /\ object \in StreamObject /\ object # "group" /\ object \notin QueueObject
        /\ object' = object /\ UNCHANGED <<queue, group>>
    BY <1>5 DEF StreamNext, NotificationNext, QueueObject, StreamObject
  <2>2. KernelOK' /\ StreamOK' /\ StreamKeepsMoving'
    BY <1>5, <2>1, StreamNextOK, NotificationNextOK DEF AllKeepMoving
  <2>3. QueueOK' /\ GroupTypeOK'
    BY <2>1 DEF QueueOK, queue, GroupTypeOK, group
  <2> QED  BY <2>1, <2>2, <2>3 DEF AllKeepMoving
<1>6. CASE UNCHANGED vars
  <2>1. UNCHANGED <<kernel, queue, group, stream, object>>
    BY <1>6 DEF vars
  <2>2. KernelOK' /\ Quiet
    BY <2>1, StutterOK
  <2> QED  BY <2>1, <2>2, NobodyWaitsForMore
<1> QED  BY <1>1, <1>2, <1>3, <1>4, <1>5, <1>6 DEF Next

LEMMA InvAlways == Spec => []Inv
<1>1. Init => Inv
  BY InitInv, SchedulerAssumption, QueueAssumption, GroupAssumption, StreamAssumption,
     ObjectAssumption
<1>2. Inv /\ [Next]_vars => Inv'
  BY StepInv, SchedulerAssumption, QueueAssumption, GroupAssumption, StreamAssumption,
     ObjectAssumption
<1> QED  BY <1>1, <1>2, PTL DEF Spec

-----------------------------------------------------------------------------
(* The state of the kernel and of each object is of its type: the level of *)
(* a queue within its length, the bytes of a buffer within its capacity,   *)
(* the daemon's commands within its queue.                                 *)
THEOREM SignalsTypeCorrect == Spec => []TypeOK
<1>1. Inv => TypeOK
  BY DEF Inv, TypeOK, KernelOK, CallsOK, SchedulerTypeOK, QueueOK, StreamOK
<1> QED  BY <1>1, InvAlways, PTL

(* The core is where it belongs, whatever woke the tasks.                  *)
THEOREM HighestPriorityRuns == Spec => []HighestRuns
<1>1. Inv => HighestRuns
  <2> SUFFICES ASSUME Inv, ~isr.active, ~suspended
               PROVE  \A t \in Ready(call) :
                         Priority[t] <= Priority[running] \/ (t = Daemon /\ ClearPosted)
    BY DEF HighestRuns, ClearPosted
  <2>1. isr = NoInterrupt /\ Dispatched
    BY DEF Inv, KernelOK
  <2>2. ~isr.flag /\ ~isr.switch
    BY <2>1 DEF NoInterrupt
  <2> QED  BY <2>1, <2>2 DEF Dispatched
<1> QED  BY <1>1, InvAlways, PTL

-----------------------------------------------------------------------------
(* What a class promises on a condition.                                   *)

(* Nobody is blocked for what is there and nobody else is about to take,   *)
(* in any of the classes: wake-ups reach their tasks whatever is given,    *)
(* taken or timed out, and whatever is reset under one blocked sender.     *)
THEOREM WakeUpsAreKept ==
    ASSUME ~CrowdedReset
    PROVE  Spec => []NobodyForgotten
<1>1. Inv => NobodyForgotten
  BY DEF Inv, AllKeepMoving, QueueKeepsMoving, Spoken, NobodyForgotten, ReceiversKeepMoving,
         SendersKeepMoving
<1> QED  BY <1>1, InvAlways, PTL

CapacityOf(s) == IF s.static THEN s.BufferSize - 1 ELSE s.BufferSize

(* While the level is below the trigger there is room for what is sent: so *)
(* it is for TriggerLevel 1, for any size and any lengths.                 *)
Fits ==
    "stream" \in Objects =>
        \A s \in Shapes : \A n \in Lengths :
            LeastOf(n, CapacityOf(s)) + s.TriggerLevel <= CapacityOf(s) + 1

(* Others who were faster, a partner who was served or a reset never turn  *)
(* away a call with the default timeout 0xFFFFFFFF: if it comes back       *)
(* empty-handed, the handle was null, or it was a receive of a buffer or   *)
(* a send of what the buffer could never take.                             *)
THEOREM PatienceIsKept == Spec => ForeverIsPatient
<1>1. Inv /\ [Next]_vars =>
          [\A t \in refused' \ refused :
              \/ ~exists
              \/ call[t].op = "write" /\ NeverFits(call[t].len)
              \/ call[t].op = "read"]_vars
  <2> SUFFICES ASSUME Inv, [Next]_vars, exists
               PROVE  \A u \in refused' \ refused : Excused(u)
    BY DEF Excused
  <2> USE SchedulerAssumption, ObjectAssumption, GroupAssumption, StreamAssumption DEF Inv
  <2>1. ASSUME NEW t \in Task, Ask(t) PROVE refused' \subseteq refused
    BY <2>1, AskOK
  <2>2. CASE KernelNext
    BY <2>2, KernelNextOK
  <2>3. CASE QueueNext
    BY <2>3, QueueNextOK DEF QueueNext, AllKeepMoving
  <2>4. CASE GroupNext
    BY <2>4, GroupNextOK DEF GroupNext, AllKeepMoving
  <2>5. CASE StreamNext
    BY <2>5, StreamNextOK DEF StreamNext, AllKeepMoving, StreamObject
  <2>6. CASE NotificationNext
    BY <2>6, NotificationNextOK DEF NotificationNext, AllKeepMoving
  <2>7. CASE UNCHANGED vars
    BY <2>7 DEF vars, kernel
  <2> QED  BY <2>1, <2>2, <2>3, <2>4, <2>5, <2>6, <2>7 DEF Next
<1> QED  BY <1>1, InvAlways, PTL DEF Spec, ForeverIsPatient

(* An arrival counts for one rendezvous.                                   *)
THEOREM ArrivalsAreCounted ==
    ASSUME OneRendezvous
    PROVE  Spec => []ArrivalsCountOnce
<1> DEFINE Counted == CountsOK /\ ArrivalsCountOnce
<1>1. Init => Counted
  BY DEF Init, GroupInit, CountsOK, ArrivalsCountOnce
<1>2. Inv /\ Counted /\ [Next]_vars => Counted'
  <2> SUFFICES ASSUME Inv, CountsOK, ArrivalsCountOnce, [Next]_vars
               PROVE  CountsOK' /\ ArrivalsCountOnce'
    OBVIOUS
  <2>1. CASE GroupNext
    BY <2>1, GroupAssumption, GroupCounts DEF Inv
  <2>2. CASE ~GroupNext
    <3>1. UNCHANGED group
      BY <2>2 DEF Next, Ask, KernelNext, QueueNext, StreamNext, NotificationNext, vars
    <3> QED  BY <3>1, FewerBitsCount DEF group
  <2> QED  BY <2>1, <2>2
<1>3. Counted => ArrivalsCountOnce
  OBVIOUS
<1> QED  BY <1>1, <1>2, <1>3, InvAlways, PTL DEF Spec

(* The writer and the reader of a buffer never wait for each other.        *)
THEOREM NobodyIsStranded ==
    ASSUME Fits
    PROVE  Spec => []NobodyStranded
<1>1. Inv => NobodyStranded
  <2> SUFFICES ASSUME Inv, NEW r \in Waiting({"read"}), NEW w \in Waiting({"write"})
               PROVE  FALSE
    BY DEF NobodyStranded
  <2> DEFINE n == call[w].len
  <2>1. object \in {"stream", "message"} /\ n \in Lengths /\ Need(n) <= Capacity
    <3>1. w \in Task
      BY WaitingTasks DEF Inv
    <3> QED  BY <3>1 DEF Inv, KernelOK, CallsOK, CallOK, MayWrite, Waiting
  <2>2. bytes < Trigger /\ Capacity - bytes < Need(n)
    BY <2>1, StreamWaiters DEF Inv, AllKeepMoving, StreamObject
  <2>3. /\ Capacity \in Nat /\ Trigger \in Nat /\ bytes \in Nat /\ bytes <= Capacity
        /\ Header \in Nat /\ n \in Nat /\ Need(n) \in Nat
    BY <2>1, StreamAssumption, ShapeOK, NeedTyped DEF Inv
  <2> HIDE DEF n
  <2>4. CASE object = "message"
    <3>1. Trigger = 1
      BY <2>4 DEF Trigger, Inv, StreamOK
    <3> QED  BY <2>1, <2>2, <2>3, <3>1
  <2>5. CASE object = "stream"
    <3>1. ~framed /\ shape \in Shapes /\ "stream" \in Objects
      BY <2>5 DEF Inv, StreamOK
    <3>2. Trigger = shape.TriggerLevel /\ Capacity = CapacityOf(shape)
      BY <3>1 DEF Trigger, Capacity, CapacityOf
    <3>3. LeastOf(n, Capacity) + Trigger <= Capacity + 1
      BY <2>1, <3>1, <3>2 DEF Fits
    <3>4. Need(n) = LeastOf(n, Capacity)
      BY <3>1 DEF Need, LeastOf
    <3> QED  BY <2>2, <2>3, <3>3, <3>4
  <2> QED  BY <2>1, <2>4, <2>5
<1> QED  BY <1>1, InvAlways, PTL
=============================================================================
