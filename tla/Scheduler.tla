----------------------------- MODULE Scheduler -----------------------------
(***************************************************************************)
(* What the blocking classes of the library share: the conversion of a     *)
(* timeout, the null handle, the context switch that a _from_isr method    *)
(* asks for, and under them one core of the FreeRTOS scheduler.            *)
(*                                                                         *)
(* A call is begun by the running task, tried in the kernel, and either    *)
(* returns or leaves the task blocked until somebody wakes it or its       *)
(* timeout ends; then it is tried again as soon as the task runs.  A task  *)
(* that is woken is not served by that: others may be faster.              *)
(***************************************************************************)
EXTENDS Integers, Sequences, FiniteSets

CONSTANTS Task,            (* the tasks of the program                       *)
          Daemon,          (* the timer daemon task of the kernel            *)
          Idle,            (* the idle task                                  *)
          Priority,        (* of every task, the daemon and the idle task    *)
          Value            (* what calls are made with: bits, numbers        *)

Thread == Task \cup {Daemon}

ASSUME SchedulerAssumption ==
    /\ IsFiniteSet(Task)
    /\ Daemon \notin Task /\ Idle \notin Thread
    /\ Priority \in [Thread \cup {Idle} -> Nat]
    /\ \A t \in Thread : Priority[t] > Priority[Idle]

VARIABLES exists,          (* the object's creation gave a handle            *)
          running,         (* the task that has the core                     *)
          suspended,       (* between suspend_scheduler, resume_scheduler    *)
          isr,             (* the interrupt being served                     *)
          call,            (* the call each task is in                       *)
          refused          (* history: the tasks whose last call with the    *)
                           (* timeout 0xFFFFFFFF has come back empty-handed, *)
                           (* for whatever reason                            *)

kernel == <<exists, running, suspended, isr, call, refused>>

Timeouts == {"0xFFFFFFFF", "long", "short"}

(* Mutants: the default is a number of milliseconds like any other; the    *)
(* milliseconds are passed on.                                             *)
Ticks_finite(ms) == IF ms = "short" THEN "none" ELSE "finite"
Ticks_unconverted(ms) == ms

(* (ms == 0xFFFFFFFF) ? portMAX_DELAY : pdMS_TO_TICKS(ms).  Less than a    *)
(* tick is no tick.                                                        *)
Ticks(ms) == CASE ms = "0xFFFFFFFF" -> "forever"
               [] ms = "long"       -> "finite"
               [] ms = "short"      -> "none"

NoCall == [op |-> "none", set |-> {}, want |-> {}, clear |-> FALSE, len |-> 0,
           ms |-> "short", ticks |-> "none", phase |-> "none"]

Phase == {"none", "trying", "blocked", "woken", "late"}

(* The methods of all classes, a delay, and the daemon's service.          *)
Op == {"none", "delay", "serve", "send", "receive", "set", "clear", "wait_any", "wait_all",
       "sync", "write", "read", "await"}

AnyCall == [op : Op, set : SUBSET Value, want : SUBSET Value, clear : BOOLEAN, len : Nat,
            ms : Timeouts, ticks : {"none", "finite", "forever"}, phase : Phase]

NoInterrupt == [active |-> FALSE, flag |-> FALSE, switch |-> FALSE]

-----------------------------------------------------------------------------
(* The kernel: the highest ready task runs, the current one before others  *)
(* of its priority.                                                        *)

Ready(c) == {t \in Thread : c[t].phase # "blocked"}

Top(ts) == {t \in ts : \A u \in ts : Priority[u] <= Priority[t]}

Highest(c) == Top(Ready(c) \cup {Idle})

Woken(c, ts) == [t \in Thread |-> IF t \in ts THEN [c[t] EXCEPT !.phase = "woken"] ELSE c[t]]

Reschedule(c) ==
    /\ call' = c
    /\ running' \in IF suspended \/ running \in Highest(c) THEN {running} ELSE Highest(c)

Waiting(ops) == {t \in Thread : call[t].phase = "blocked" /\ call[t].op \in ops}

(* Whom the kernel may take from an event list: one of highest priority.   *)
OneOf(ts) == IF ts = {} THEN {{}} ELSE {{t} : t \in Top(ts)}

-----------------------------------------------------------------------------
(* The tasks whose call with the default timeout was refused, when t comes *)
(* back from one with ms empty-handed.                                     *)
RefusedTo(t, ms) == IF ms = "0xFFFFFFFF" THEN refused \cup {t} ELSE refused \ {t}

(* A task calls a method, which returns empty-handed at once if the handle *)
(* is null.  The kernel forbids blocking calls while the scheduler is      *)
(* suspended.                                                              *)
Begin(t, c) ==
    /\ running = t /\ ~isr.active
    /\ call[t].phase = "none"
    /\ suspended => Ticks(c.ms) = "none"
    /\ \/ /\ exists
          /\ call' = [call EXCEPT ![t] = [c EXCEPT !.ticks = Ticks(c.ms), !.phase = "trying"]]
          /\ refused' = refused \ {t}
       \/ /\ ~exists
          /\ refused' = RefusedTo(t, c.ms)
          /\ UNCHANGED call
    /\ UNCHANGED <<exists, running, suspended, isr>>

Tries(t, ops) ==
    /\ running = t /\ ~isr.active
    /\ call[t].op \in ops
    /\ call[t].phase \in {"trying", "woken", "late"}

(* The call returns, having woken ts.                                      *)
Return(t, ts) ==
    /\ Reschedule([Woken(call, ts) EXCEPT ![t] = NoCall])
    /\ UNCHANGED <<exists, suspended, isr, refused>>

(* It returns without what was asked for.                                  *)
Refuse(t, ts) ==
    /\ Reschedule([Woken(call, ts) EXCEPT ![t] = NoCall])
    /\ refused' = RefusedTo(t, call[t].ms)
    /\ UNCHANGED <<exists, suspended, isr>>

Patient(t) == call[t].ticks # "none" /\ call[t].phase # "late"

Block(t, ts) ==
    /\ Reschedule([Woken(call, ts) EXCEPT ![t].phase = "blocked"])
    /\ UNCHANGED <<exists, suspended, isr, refused>>

(* What was asked for is not there.                                        *)
BlockOrRefuse(t, ts) == IF Patient(t) THEN Block(t, ts) ELSE Refuse(t, ts)

-----------------------------------------------------------------------------
(* Interrupts.                                                             *)

EnterIsr ==
    /\ ~isr.active
    /\ isr' = [NoInterrupt EXCEPT !.active = TRUE]
    /\ UNCHANGED <<exists, running, suspended, call, refused>>

(* Mutant: a _from_isr method never asks for the switch itself.            *)
Reported_forgotten(flagged, woke) == [isr EXCEPT !.flag = @ \/ (flagged /\ woke)]

(* The kernel says whether a task above the running one was woken.  With   *)
(* pxHigherPriorityTaskWoken the caller is told (flagged), without it the  *)
(* method asks for the context switch.                                     *)
Reported(flagged, woke) ==
    [isr EXCEPT !.flag = @ \/ (flagged /\ woke), !.switch = @ \/ (~flagged /\ woke)]

(* A _from_isr method wakes ts; the task the interrupt has interrupted     *)
(* goes on.                                                                *)
IsrWakes(ts) ==
    /\ isr.active
    /\ exists
    /\ call' = Woken(call, ts)
    /\ UNCHANGED <<exists, running, suspended, refused>>

IsrCall(ts, flagged) ==
    /\ IsrWakes(ts)
    /\ isr' = Reported(flagged, \E t \in ts : Priority[t] > Priority[running])

(* The interrupt ends: a caller that passed a flag yields for it now.      *)
ExitIsr ==
    /\ isr.active
    /\ isr' = NoInterrupt
    /\ \/ (isr.flag \/ isr.switch) /\ Reschedule(call)
       \/ ~(isr.flag \/ isr.switch) /\ UNCHANGED <<call, running>>
    /\ UNCHANGED <<exists, suspended, refused>>

-----------------------------------------------------------------------------
(* Time and the scheduler.                                                 *)

(* The tick interrupt ends a wait, also that of a task which was woken and *)
(* has not run since.                                                      *)
Timeout(t) ==
    /\ ~isr.active /\ ~suspended
    /\ call[t].ticks = "finite"
    /\ call[t].phase \in {"blocked", "woken"}
    /\ Reschedule([call EXCEPT ![t].phase = "late"])
    /\ UNCHANGED <<exists, suspended, isr, refused>>

(* Also a time slice.                                                      *)
yield ==
    /\ ~isr.active /\ ~suspended
    /\ running' \in Highest(call) \ {running}
    /\ UNCHANGED <<exists, suspended, isr, call, refused>>

Idles(t) == running = t /\ ~isr.active /\ call[t].phase = "none"

(* delay(ms) with a tick at least.                                         *)
delay(t) ==
    /\ Idles(t) /\ ~suspended
    /\ Reschedule([call EXCEPT ![t] = [NoCall EXCEPT !.op = "delay", !.ms = "long",
                                          !.ticks = "finite", !.phase = "blocked"]])
    /\ UNCHANGED <<exists, suspended, isr, refused>>

DelayEnds(t) == Tries(t, {"delay"}) /\ Return(t, {})

suspend_scheduler(t) ==
    /\ Idles(t) /\ ~suspended
    /\ suspended' = TRUE
    /\ UNCHANGED <<exists, running, isr, call, refused>>

(* Whoever was woken in between is scheduled now.                          *)
resume_scheduler(t) ==
    /\ Idles(t) /\ suspended
    /\ suspended' = FALSE
    /\ running' \in IF t \in Highest(call) THEN {t} ELSE Highest(call)
    /\ UNCHANGED <<exists, isr, call, refused>>

SchedulerInit ==
    /\ exists \in BOOLEAN
    /\ running \in Top(Task)
    /\ suspended = FALSE
    /\ isr = NoInterrupt
    /\ call = [t \in Thread |-> IF t = Daemon THEN [NoCall EXCEPT !.op = "serve",
                                                       !.ticks = "forever", !.phase = "blocked"]
                                              ELSE NoCall]
    /\ refused = {}

SchedulerStep ==
    \/ EnterIsr \/ ExitIsr \/ yield
    \/ \E t \in Task : Timeout(t) \/ delay(t) \/ DelayEnds(t)
                       \/ suspend_scheduler(t) \/ resume_scheduler(t)

-----------------------------------------------------------------------------
SchedulerTypeOK ==
    /\ exists \in BOOLEAN /\ suspended \in BOOLEAN
    /\ running \in Thread \cup {Idle}
    /\ isr \in [active : BOOLEAN, flag : BOOLEAN, switch : BOOLEAN]
    /\ refused \subseteq Task
    /\ call \in [Thread -> AnyCall]
=============================================================================
