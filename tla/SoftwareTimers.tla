--------------------------- MODULE SoftwareTimers ---------------------------
(***************************************************************************)
(* One SoftwareTimer<AutoReload> object (SoftwareTimers.hpp), the tasks    *)
(* and interrupts that call it, and the part of the FreeRTOS timer service *)
(* it talks to: a bounded queue of commands and the daemon task, which     *)
(* carries them out one after the other and calls on_timer().              *)
(*                                                                         *)
(* No method changes the timer itself.  It posts commands, waits for room  *)
(* in the queue at most as long as its timeout says, and returns; the      *)
(* daemon gets to them later, perhaps after the object is gone.  on_timer  *)
(* runs in the daemon and may call the same methods.                       *)
(***************************************************************************)
EXTENDS Integers, Sequences

CONSTANTS Task, Isr,
          Daemon,        (* the daemon, as a caller in on_timer()            *)
          Starter,       (* the callers of start(); others only control      *)
          Owner,         (* who destroys the object                          *)
          Wait,          (* the timeouts each caller uses, the daemon in     *)
                         (* on_timer()                                       *)
          Builds,        (* the platforms and template arguments considered  *)
          QueueLength,   (* configTIMER_QUEUE_LENGTH                         *)
          MaxCalls       (* bound: how many calls each caller makes          *)

Caller == Task \cup Isr \cup {Daemon}

Timeouts == {"0xFFFFFFFF", "long", "short"}

(* AutoReload: the template argument.  DaemonFirst: one core, where the    *)
(* daemon has a higher priority than all callers.                          *)
(* CreateMayFail: dynamic allocation (AVR).                                *)
Build == [AutoReload : BOOLEAN, DaemonFirst : BOOLEAN, CreateMayFail : BOOLEAN]

ASSUME TimerAssumption ==
    /\ Daemon \notin Task \cup Isr
    /\ Task \cap Isr = {}
    /\ Starter \subseteq Task \cup {Daemon} /\ Owner \subseteq Task
    /\ Wait \in [Caller -> SUBSET Timeouts]
    /\ Builds \subseteq Build
    /\ QueueLength \in Nat \ {0}
    /\ MaxCalls \in [Caller -> Nat]

VARIABLES xHandle,       (* is it set?                                       *)
          object,        (* how much of the C++ object is left               *)
          queue,         (* the commands the daemon has not carried out      *)
          active,        (* the timer is in the kernel's list                *)
          daemon,        (* what the daemon is doing                         *)
          call,          (* the call each caller is in                       *)
          calls,         (* how many it has begun                            *)
          build,         (* what is considered; does not change              *)
          wish,          (* history: what the last successful call asked for *)
          calm,          (* history: the callers in a stop() since whose     *)
                         (* beginning nothing has asked the timer to run     *)
          silent,        (* history: such a stop() has returned true         *)
          lost           (* history: xBuffer was initialised while in use    *)

vars == <<xHandle, object, queue, active, daemon, call, calls, build, wish, calm, silent, lost>>

(* A command to this timer, or to some other timer of the program; where   *)
(* the first are in the queue.                                             *)
Command == {"start", "stop", "change", "delete"}

Ours(q) == {i \in DOMAIN q : q[i] # "other"}

Operation == {"start", "stop", "reset", "set_period"}

Idle == [op |-> "none", todo |-> <<>>, wait |-> "none", ok |-> TRUE]

InCall(c) == call[c] # Idle

Full == Len(queue) >= QueueLength

(* The daemon blocks when it posts in on_timer() and the queue is full.    *)
DaemonBlocked ==
    /\ call[Daemon].todo # <<>>
    /\ call[Daemon].wait # "none"
    /\ Full

(* On one core a task runs only when a daemon of higher priority does not; *)
(* on_timer() itself must not block.                                       *)
Scheduled(c) ==
    /\ c = Daemon => daemon = "callback"
    /\ (build.DaemonFirst /\ c \in Task) =>
            DaemonBlocked \/ (daemon = "wait" /\ queue = <<>>)

-----------------------------------------------------------------------------
(* What a method does: the commands it posts.                              *)

(* Mutants: start() creates the timer each time; stop() posts a reset; the *)
(* destructor posts nothing.                                               *)
StartCommands_create_again == <<"create", "start">>
StopCommands_reset == <<"start">>
DeleteCommands_none == <<>>

StartCommands == IF xHandle THEN <<"change", "start">> ELSE <<"create", "start">>

StopCommands == <<"stop">>

(* stop_and_delete().                                                      *)
DeleteCommands == <<"stop", "delete">>

(* Without a handle only start() has something to do.  xTimerReset is      *)
(* xTimerStart to the daemon.                                              *)
Commands(op) ==
    CASE op = "start"                -> StartCommands
      [] op # "start" /\ ~xHandle    -> <<>>
      [] op = "stop" /\ xHandle      -> StopCommands
      [] op = "reset" /\ xHandle     -> <<"start">>
      [] op = "set_period" /\ xHandle -> <<"change">>
      [] op = "destroy" /\ xHandle   -> DeleteCommands

(* Mutants: the timeout is replaced by portMAX_DELAY; it is not converted. *)
Ticks_forever(timeout) == "forever"
Ticks_unconverted(timeout) == timeout

(* (timeout_ms == 0xFFFFFFFF) ? portMAX_DELAY : pdMS_TO_TICKS(timeout_ms). *)
(* Less than a tick is no tick.                                            *)
Ticks(timeout) ==
    CASE timeout = "0xFFFFFFFF" -> "forever"
      [] timeout = "long"       -> "finite"
      [] timeout = "short"      -> "none"

Begin(c, op, wait) ==
    /\ ~InCall(c)
    /\ Scheduled(c)
    /\ object = "whole"
    /\ calls[c] < MaxCalls[c]
    /\ call' = [call EXCEPT ![c] =
            [op |-> op, todo |-> Commands(op), wait |-> wait,
             ok |-> Commands(op) # <<>>]]
    /\ calls' = [calls EXCEPT ![c] = @ + 1]
    /\ calm' = IF op = "stop" /\ c # Daemon THEN calm \cup {c} ELSE calm
    /\ UNCHANGED <<xHandle, object, queue, active, daemon, build, wish, silent, lost>>

(* start(), stop(), reset() and set_period(); reset_from_isr().            *)
Ask(c) ==
    \/ /\ c \notin Isr
       /\ \E op \in Operation, timeout \in Wait[c] :
             (op = "start" => c \in Starter) /\ Begin(c, op, Ticks(timeout))
    \/ c \in Isr /\ Begin(c, "reset", "none")

(* The destructor, when nobody else is in a call: the derived class, whose *)
(* on_timer() it is, is gone before ~SoftwareTimer is entered.             *)
Destroy(c) ==
    /\ c \in Owner
    /\ \A other \in Task \cup Isr : ~InCall(other)
    /\ Scheduled(c)
    /\ object = "whole"
    /\ object' = "base"
    /\ call' = [call EXCEPT ![c] =
            [op |-> "destroy", todo |-> Commands("destroy"), wait |-> "forever", ok |-> TRUE]]
    /\ UNCHANGED <<xHandle, queue, active, daemon, calls, build, wish, calm, silent, lost>>

-----------------------------------------------------------------------------
(* The steps of a call.                                                    *)

Next_(c) == Head(call[c].todo)

Advance(c) == call' = [call EXCEPT ![c].todo = Tail(@)]

(* Mutant: a rejected command is reported as accepted.                     *)
Abandon_true(c) == call' = [call EXCEPT ![c].todo = <<>>]

Abandon(c) == call' = [call EXCEPT ![c].todo = <<>>, ![c].ok = FALSE]

(* xTimerCreateStatic initialises xBuffer.                                 *)
Create(c) ==
    /\ Scheduled(c)
    /\ call[c].todo # <<>>
    /\ Next_(c) = "create"
    /\ \/ /\ Advance(c)
          /\ xHandle' = TRUE
          /\ lost' = (lost \/ active \/ Ours(queue) # {})
          /\ active' = FALSE
       \/ build.CreateMayFail /\ Abandon(c) /\ UNCHANGED <<xHandle, lost, active>>
    /\ UNCHANGED <<object, queue, daemon, calls, build, wish, calm, silent>>

(* stop_and_delete() gives its xTimerStop no time.                         *)
Patience(c) ==
    IF call[c].op = "destroy" /\ Next_(c) = "stop" THEN "none" ELSE call[c].wait

Asked(c) ==
    CASE call[c].op \in {"stop", "destroy"} -> "halt"
      [] call[c].op \notin {"stop", "destroy"} ->
            IF Len(call[c].todo) = 1 THEN "run" ELSE "either"

Post(c) ==
    /\ Scheduled(c)
    /\ call[c].todo # <<>>
    /\ Next_(c) # "create"
    /\ ~Full
    /\ queue' = Append(queue, Next_(c))
    /\ Advance(c)
    /\ wish' = Asked(c)
    /\ calm' = IF Asked(c) = "halt" THEN calm ELSE {}
    /\ silent' = (silent /\ Asked(c) = "halt")
    /\ UNCHANGED <<xHandle, object, active, daemon, calls, build, lost>>

(* The queue is full and the timeout is zero, or is over.  start() returns *)
(* false, with its xTimerChangePeriod perhaps accepted; stop_and_delete()  *)
(* ignores the result.                                                     *)
GiveUp(c) ==
    /\ call[c].todo # <<>>
    /\ Next_(c) # "create"
    /\ Full
    /\ Patience(c) # "forever"
    /\ IF call[c].op = "destroy" THEN Advance(c) ELSE Abandon(c)
    /\ UNCHANGED <<xHandle, object, queue, active, daemon, calls, build, wish, calm, silent, lost>>

Return(c) ==
    /\ InCall(c)
    /\ Scheduled(c)
    /\ call[c].todo = <<>>
    /\ call' = [call EXCEPT ![c] = Idle]
    /\ silent' = (silent \/ (c \in calm /\ call[c].ok))
    /\ calm' = calm \ {c}
    /\ IF call[c].op = "destroy"
       THEN object' = "dead" /\ xHandle' = FALSE
       ELSE UNCHANGED <<object, xHandle>>
    /\ UNCHANGED <<queue, active, daemon, calls, build, wish, lost>>

(* Some other timer of the program posts a command.                        *)
PostOther ==
    /\ ~Full
    /\ queue' = Append(queue, "other")
    /\ UNCHANGED <<xHandle, object, active, daemon, call, calls, build, wish, calm, silent, lost>>

-----------------------------------------------------------------------------
(* FreeRTOS: the daemon.  It waits until a timer expires or a command      *)
(* comes; after either it carries out all commands before it waits again.  *)

(* callback_hook() calls on_timer(), with q left in the queue.  A one-shot *)
(* timer is then inactive.                                                 *)
Fire(q) ==
    /\ daemon' = "callback"
    /\ active' = build.AutoReload
    /\ wish' = IF ~build.AutoReload /\ Ours(q) = {} THEN "halt" ELSE wish

Expire ==
    /\ daemon = "wait"
    /\ active
    /\ build.DaemonFirst => queue = <<>>
    /\ Fire(queue)
    /\ UNCHANGED <<xHandle, object, queue, call, calls, build, calm, silent, lost>>

CallbackReturns ==
    /\ daemon = "callback"
    /\ ~InCall(Daemon)
    /\ daemon' = "drain"
    /\ UNCHANGED <<xHandle, object, queue, active, call, calls, build, wish, calm, silent, lost>>

After(cmd) == IF cmd = "other" THEN active ELSE cmd \in {"start", "change"}

(* A start that was posted longer ago than the period fires at once.       *)
Process ==
    /\ daemon # "callback"
    /\ queue # <<>>
    /\ queue' = Tail(queue)
    /\ \/ active' = After(Head(queue)) /\ daemon' = "drain" /\ UNCHANGED wish
       \/ Head(queue) = "start" /\ Fire(Tail(queue))
    /\ UNCHANGED <<xHandle, object, call, calls, build, calm, silent, lost>>

Drained ==
    /\ daemon = "drain"
    /\ queue = <<>>
    /\ daemon' = "wait"
    /\ UNCHANGED <<xHandle, object, queue, active, call, calls, build, wish, calm, silent, lost>>

-----------------------------------------------------------------------------
Init ==
    /\ xHandle = FALSE
    /\ object = "whole"
    /\ queue = <<>>
    /\ active = FALSE
    /\ daemon = "wait"
    /\ call = [c \in Caller |-> Idle]
    /\ calls = [c \in Caller |-> 0]
    /\ build \in Builds
    /\ wish = "halt"
    /\ calm = {}
    /\ silent = FALSE
    /\ lost = FALSE

Continue(c) == Create(c) \/ Post(c) \/ GiveUp(c) \/ Return(c)

DaemonStep == CallbackReturns \/ Process \/ Drained

Next ==
    \/ \E c \in Caller : Ask(c) \/ Destroy(c) \/ Continue(c)
    \/ Expire
    \/ DaemonStep
    \/ PostOther

Spec == Init /\ [][Next]_vars

(* The scheduler runs the daemon and every task that is in a call, and     *)
(* on_timer() ends.                                                        *)
FairSpec ==
    /\ Spec
    /\ WF_vars(DaemonStep)
    /\ \A c \in Caller \ Isr : SF_vars(Continue(c))

-----------------------------------------------------------------------------
TypeOK ==
    /\ {xHandle, active, silent, lost} \subseteq BOOLEAN
    /\ object \in {"whole", "base", "dead"}
    /\ queue \in Seq(Command \cup {"other"}) /\ Len(queue) <= QueueLength
    /\ daemon \in {"wait", "callback", "drain"}
    /\ call \in [Caller -> [op : Operation \cup {"destroy", "none"},
                            todo : Seq(Command \cup {"create"}),
                            wait : {"none", "finite", "forever"},
                            ok : BOOLEAN]]
    /\ calls \in [Caller -> Nat] /\ \A c \in Caller : calls[c] <= MaxCalls[c]
    /\ build \in Builds
    /\ wish \in {"run", "halt", "either"}
    /\ calm \subseteq Task

(* Whether the timer runs once the daemon has caught up.                   *)
WillRun ==
    \/ active /\ Ours(queue) = {}
    \/ \E i \in Ours(queue) : After(queue[i]) /\ \A j \in Ours(queue) : j <= i

(* The last call that succeeded decides whether the timer will run, also   *)
(* when calls of several callers, expiries and rejected calls come in      *)
(* between.  A call that returned false has changed nothing, except a      *)
(* start() of an existing timer, whose two commands can be half accepted   *)
(* (SoftwareTimers.hpp:64-68).                                             *)
LastCallWins ==
    /\ wish = "run" => WillRun
    /\ wish = "halt" => ~WillRun

(* start() may be called again at any time: it never initialises a timer   *)
(* that the kernel has in its list or in its queue (SoftwareTimers.hpp:49).*)
NeverRecreated == ~lost

(* Where the daemon runs before its callers, on_timer() is neither called  *)
(* nor being called after stop() has returned true, until somebody starts  *)
(* the timer again; so a timer may be destroyed after stop().              *)
StoppedStaysSilent == build.DaemonFirst /\ silent => daemon # "callback"

(* There the kernel has forgotten the timer when the destructor returns:   *)
(* neither its list nor its queue leads into the dead object.              *)
DeadIsForgotten ==
    build.DaemonFirst /\ object = "dead" =>
        ~active /\ Ours(queue) = {} /\ daemon # "callback"

(* Every call returns, also one that is made in on_timer() while the queue *)
(* is full, provided those have a timeout; the default has none.  (On one  *)
(* core a daemon that always has something to do may keep every task from  *)
(* running.)                                                               *)
CallsReturn == \A c \in Caller \ Isr : InCall(c) /\ ~build.DaemonFirst ~> ~InCall(c)
=============================================================================
