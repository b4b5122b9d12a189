----------------------------- MODULE MCSignals -----------------------------
(* Signals with three tasks, one of them of higher priority.               *)
EXTENDS Signals

Priorities == [t \in {"a", "b", "h", "daemon", "idle"} |->
                 CASE t = "idle" -> 0 [] t \in {"a", "b"} -> 1 [] t = "h" -> 2 [] t = "daemon" -> 3]

Call(op, b, want, clears, ms) ==
    [NoCall EXCEPT !.op = op, !.set = b, !.want = want, !.clear = clears, !.ms = ms]

(* Two tasks meet, with and without patience; the third waits for either   *)
(* or both, sets and clears.                                               *)
MeetingCalls ==
    [t \in Task |->
        CASE t = "a" -> {Call("sync", {1}, Bit, TRUE, ms) : ms \in {"0xFFFFFFFF", "long"}}
          [] t = "b" -> {Call("sync", {2}, Bit, TRUE, ms) : ms \in {"0xFFFFFFFF", "short"}}
          [] t = "h" -> {Call("wait_any", {}, {1}, TRUE, "long"),
                         Call("wait_all", {}, Bit, FALSE, "0xFFFFFFFF"),
                         Call("set", {1}, {}, FALSE, "short"),
                         Call("clear", {2}, {}, FALSE, "short")}]

(* A trigger level below the size; the default one on a dynamic buffer, on *)
(* a static one in which a message of two bytes never fits, and on one     *)
(* that holds nothing.                                                     *)
UsualShapes ==
    {[BufferSize |-> 4, TriggerLevel |-> 2, static |-> TRUE],
     [BufferSize |-> 3, TriggerLevel |-> 1, static |-> FALSE],
     [BufferSize |-> 3, TriggerLevel |-> 1, static |-> TRUE],
     [BufferSize |-> 1, TriggerLevel |-> 1, static |-> TRUE]}

FullTrigger == {[BufferSize |-> 3, TriggerLevel |-> 3, static |-> TRUE]}
=============================================================================
