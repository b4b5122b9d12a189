------------------------------ MODULE Threads ------------------------------
(***************************************************************************)
(* The life of one ThreadABS object (Threads.hpp) and of the FreeRTOS      *)
(* tasks it starts one after the other.                                    *)
(*                                                                         *)
(* The object and its task share one member, xHandle, without any lock:    *)
(* operator() tests and sets it, the task clears it when Run() returns,    *)
(* the destructor tests it and deletes, IsRunning() and TaskNotification   *)
(* read it.  A task is known by its control block, whose address is its    *)
(* handle.  A static task's block is xTaskBuffer, the same at every start, *)
(* and its stack is xStack; a dynamic task takes a free block of the heap, *)
(* which may be one that an earlier task had.                              *)
(***************************************************************************)
EXTENDS Integers

CONSTANTS Starter,       (* callers of operator()                            *)
          Notifier,      (* callers of TaskNotification::notify and of       *)
                         (* stack_high_water_mark                            *)
          Owner,         (* who destroys the object                          *)
          Blocks,        (* bound: the heap's places for control blocks      *)
          Builds         (* the platforms, classes and programs considered   *)

Caller == Starter \cup Notifier \cup Owner

Block == 1 .. Blocks

Null == 0

xTaskBuffer == 1

(* Static: not THREADS_NO_STATIC_ALLOC.  CreatorFirst: a new task does not *)
(* run before operator() is over, because the scheduler is not started yet *)
(* or the creator has a higher priority on the only core.  Pins: RP2040,   *)
(* where the affinity is set after the creation.  OneShot: Run() returns;  *)
(* that of a ThreadArduino does not.  Shared: others use the thread's      *)
(* handle, or destroy the thread.  Patient: the program starts the thread  *)
(* again only when the kernel has let go of its last task, for which it    *)
(* must wait longer than until IsRunning() is false.                       *)
Build == [Static : BOOLEAN, CreatorFirst : BOOLEAN, Pins : BOOLEAN,
          OneShot : BOOLEAN, Shared : BOOLEAN, Patient : BOOLEAN]

ASSUME ThreadAssumption == Blocks \in Nat \ {0} /\ Builds \subseteq Build

VARIABLES xHandle,       (* the member                                       *)
          object,        (* how much of the C++ object is left               *)
          task,          (* where the task of each block is, in TaskHook or  *)
                         (* in the kernel                                    *)
          saved,         (* tempHandle of each task                          *)
          pc,            (* where each caller is                             *)
          handle,        (* the handle each caller has in a register         *)
          build,         (* what is considered; does not change              *)
          overwritten,   (* history: a task was created in a block that the  *)
                         (* kernel had not let go of                         *)
          misused        (* history: the kernel was given the handle of a    *)
                         (* deleted task, or null for its caller             *)

vars == <<xHandle, object, task, saved, pc, handle, build, overwritten, misused>>

(* In TaskHook: Run() not begun, in Run(), and after each of the           *)
(* statements that follow it; asleep is the endless loop at its end.       *)
InHook == {"ready", "running", "returned", "saved", "cleared", "asleep"}

(* A block without a task, or with one that the idle task has yet to       *)
(* unlink: a handle of either is the handle of a deleted task.             *)
Deleted == {"none", "terminated"}

Goto(c, label) == pc' = [pc EXCEPT ![c] = label]

Becomes(b, state) == task' = [task EXCEPT ![b] = state]

Uses(h) == misused' = (misused \/ h = Null \/ task[h] \in Deleted)

(* vTaskDelete: a task that has a core is terminated, one that has none    *)
(* is let go of at once.                                                   *)
Ends(b) == IF task[b] \in InHook THEN Deleted ELSE {task[b]}

-----------------------------------------------------------------------------
(* operator(): the test, the creation, the store of the handle.            *)

(* Mutant: operator() does not return early.                               *)
Test_unguarded(c) ==
    /\ c \in Starter
    /\ pc[c] = "idle"
    /\ object = "whole"
    /\ Goto(c, "creating")
    /\ UNCHANGED <<xHandle, object, task, saved, handle, build, overwritten, misused>>

Test(c) ==
    /\ c \in Starter
    /\ pc[c] = "idle"
    /\ object = "whole"
    /\ build.Patient => \A b \in Block : task[b] = "none"
    /\ xHandle = Null
    /\ Goto(c, "creating")
    /\ UNCHANGED <<xHandle, object, task, saved, handle, build, overwritten, misused>>

Place == IF build.Static THEN {xTaskBuffer} ELSE {b \in Block : task[b] = "none"}

AfterStore == IF build.Pins THEN "pinning" ELSE "idle"

(* FreeRTOS: xTaskCreate writes the handle through the pointer it is given *)
(* before the task can run; xTaskCreateStatic returns it.                  *)
Create(c) ==
    /\ pc[c] = "creating"
    /\ \E b \in Place :
          /\ Becomes(b, "ready")
          /\ overwritten' = (overwritten \/ task[b] # "none")
          /\ handle' = [handle EXCEPT ![c] = b]
          /\ xHandle' = IF build.Static THEN xHandle ELSE b
    /\ Goto(c, IF build.Static THEN "storing" ELSE AfterStore)
    /\ UNCHANGED <<object, saved, build, misused>>

(* xTaskCreate finds no memory, and nobody looks at its result.            *)
CreateFails(c) ==
    /\ pc[c] = "creating"
    /\ ~build.Static
    /\ Goto(c, AfterStore)
    /\ UNCHANGED <<xHandle, object, task, saved, handle, build, overwritten, misused>>

Store(c) ==
    /\ pc[c] = "storing"
    /\ xHandle' = handle[c]
    /\ Goto(c, AfterStore)
    /\ UNCHANGED <<object, task, saved, handle, build, overwritten, misused>>

(* Mutant: the affinity is set without a test, of whatever was created.    *)
Pin_untested(c) ==
    /\ pc[c] = "pinning"
    /\ handle' = [handle EXCEPT ![c] = xHandle]
    /\ Goto(c, "setting")
    /\ UNCHANGED <<xHandle, object, task, saved, build, overwritten, misused>>

(* The null test before vTaskCoreAffinitySet.                              *)
Pin(c) ==
    /\ pc[c] = "pinning"
    /\ handle' = [handle EXCEPT ![c] = xHandle]
    /\ Goto(c, IF xHandle = Null THEN "idle" ELSE "setting")
    /\ UNCHANGED <<xHandle, object, task, saved, build, overwritten, misused>>

(* Where the member is tested and then used, the compiler may use the      *)
(* value that was tested or read it again.                                 *)
SetAffinity(c) ==
    /\ pc[c] = "setting"
    /\ \E h \in {handle[c], xHandle} : Uses(h)
    /\ Goto(c, "idle")
    /\ UNCHANGED <<xHandle, object, task, saved, handle, build, overwritten>>

-----------------------------------------------------------------------------
(* TaskHook, in the task.                                                  *)

MayRun ==
    build.CreatorFirst => \A c \in Starter : pc[c] \notin {"storing", "pinning", "setting"}

Run(b) ==
    /\ MayRun
    /\ task[b] = "ready"
    /\ Becomes(b, "running")
    /\ UNCHANGED <<xHandle, object, saved, pc, handle, build, overwritten, misused>>

Return(b) ==
    /\ MayRun
    /\ build.OneShot
    /\ task[b] = "running"
    /\ Becomes(b, "returned")
    /\ UNCHANGED <<xHandle, object, saved, pc, handle, build, overwritten, misused>>

SaveHandle(b) ==
    /\ MayRun
    /\ task[b] = "returned"
    /\ saved' = [saved EXCEPT ![b] = xHandle]
    /\ Becomes(b, "saved")
    /\ UNCHANGED <<xHandle, object, pc, handle, build, overwritten, misused>>

(* Mutants: TaskHook deletes its task without clearing xHandle, or sets it *)
(* to something else than the null handle that the tests are for.          *)
ClearedHandle_forgotten == xHandle
ClearedHandle_invalid == -1

ClearedHandle == Null

ClearHandle(b) ==
    /\ MayRun
    /\ task[b] = "saved"
    /\ xHandle' = ClearedHandle
    /\ Becomes(b, "cleared")
    /\ UNCHANGED <<object, saved, pc, handle, build, overwritten, misused>>

(* Mutant: the task goes to sleep, and is never deleted.                   *)
DeleteTask_forgotten(b) ==
    /\ MayRun
    /\ task[b] = "cleared"
    /\ Becomes(b, "asleep")
    /\ UNCHANGED <<xHandle, object, saved, pc, handle, build, overwritten, misused>>

(* vTaskDelete(tempHandle), where NULL is the calling task.  If it deletes *)
(* another task, this one sleeps for ever.                                 *)
DeleteTask(b) ==
    LET target == IF saved[b] = Null THEN b ELSE saved[b]
    IN  /\ MayRun
        /\ task[b] = "cleared"
        /\ \E end \in IF target = b THEN {"terminated"} ELSE Ends(target) :
              task' = [task EXCEPT ![b] = "asleep", ![target] = end]
        /\ misused' = (misused \/ task[target] \in Deleted)
        /\ UNCHANGED <<xHandle, object, saved, pc, handle, build, overwritten>>

(* FreeRTOS: the idle task unlinks a terminated task's control block; if   *)
(* it was overwritten meanwhile, it unlinks the task that is there now.    *)
Idle(b) ==
    /\ task[b] \in IF overwritten THEN {"terminated"} \cup InHook ELSE {"terminated"}
    /\ Becomes(b, "none")
    /\ UNCHANGED <<xHandle, object, saved, pc, handle, build, overwritten, misused>>

-----------------------------------------------------------------------------
(* Handle() is read and tested by notify and notify_from_isr, xHandle by   *)
(* stack_high_water_mark, and then given to the kernel.                    *)
ReadHandle(c) ==
    /\ c \in Notifier
    /\ build.Shared
    /\ pc[c] = "idle"
    /\ object = "whole"
    /\ xHandle # Null
    /\ handle' = [handle EXCEPT ![c] = xHandle]
    /\ Goto(c, "notifying") \/ Goto(c, "measuring")
    /\ UNCHANGED <<xHandle, object, task, saved, build, overwritten, misused>>

(* notify has the handle in a variable of its own.                         *)
Notify(c) ==
    /\ pc[c] = "notifying"
    /\ Uses(handle[c])
    /\ Goto(c, "idle")
    /\ UNCHANGED <<xHandle, object, task, saved, handle, build, overwritten>>

Measure(c) ==
    /\ pc[c] = "measuring"
    /\ \E h \in {handle[c], xHandle} : Uses(h)
    /\ Goto(c, "idle")
    /\ UNCHANGED <<xHandle, object, task, saved, handle, build, overwritten>>

-----------------------------------------------------------------------------
(* Destruction, when nobody but its task uses the object any more.  The    *)
(* derived class, whose members Run() works on, goes first.                *)
DestroyDerived(c) ==
    /\ c \in Owner
    /\ build.Shared
    /\ object = "whole"
    /\ \A d \in Caller : pc[d] = "idle"
    /\ object' = "base"
    /\ Goto(c, "testing")
    /\ UNCHANGED <<xHandle, task, saved, handle, build, overwritten, misused>>

DestroyTest(c) ==
    /\ pc[c] = "testing"
    /\ handle' = [handle EXCEPT ![c] = xHandle]
    /\ \/ xHandle # Null /\ Goto(c, "deleting") /\ UNCHANGED object
       \/ xHandle = Null /\ Goto(c, "idle") /\ object' = "dead"
    /\ UNCHANGED <<xHandle, task, saved, build, overwritten, misused>>

(* vTaskDelete(xHandle); null would be the destroying task itself.         *)
DestroyDelete(c) ==
    /\ pc[c] = "deleting"
    /\ \E h \in {handle[c], xHandle} :
          /\ Uses(h)
          /\ IF h = Null THEN UNCHANGED task ELSE \E end \in Ends(h) : Becomes(h, end)
    /\ Goto(c, "clearing")
    /\ UNCHANGED <<xHandle, object, saved, handle, build, overwritten>>

DestroyClear(c) ==
    /\ pc[c] = "clearing"
    /\ xHandle' = Null
    /\ object' = "dead"
    /\ Goto(c, "idle")
    /\ UNCHANGED <<task, saved, handle, build, overwritten, misused>>

-----------------------------------------------------------------------------
Init ==
    /\ xHandle = Null
    /\ object = "whole"
    /\ task = [b \in Block |-> "none"]
    /\ saved = [b \in Block |-> Null]
    /\ pc = [c \in Caller |-> "idle"]
    /\ handle = [c \in Caller |-> Null]
    /\ build \in Builds
    /\ overwritten = FALSE
    /\ misused = FALSE

CallerStep(c) ==
    \/ Test(c) \/ Create(c) \/ CreateFails(c) \/ Store(c) \/ Pin(c) \/ SetAffinity(c)
    \/ ReadHandle(c) \/ Notify(c) \/ Measure(c)
    \/ DestroyDerived(c) \/ DestroyTest(c) \/ DestroyDelete(c) \/ DestroyClear(c)

TaskStep(b) ==
    \/ Run(b) \/ Return(b)
    \/ SaveHandle(b) \/ ClearHandle(b) \/ DeleteTask(b)
    \/ Idle(b)

Next ==
    \/ \E c \in Caller : CallerStep(c)
    \/ \E b \in Block : TaskStep(b)

Spec == Init /\ [][Next]_vars

(* The scheduler runs every task, the idle task too, and every call that   *)
(* has begun goes on.                                                      *)
FairSpec ==
    /\ Spec
    /\ \A b \in Block : WF_vars(TaskStep(b))
    /\ \A c \in Caller : WF_vars(pc[c] # "idle" /\ CallerStep(c))

-----------------------------------------------------------------------------
TypeOK ==
    /\ xHandle \in Block \cup {Null}
    /\ object \in {"whole", "base", "dead"}
    /\ task \in [Block -> InHook \cup Deleted]
    /\ saved \in [Block -> Block \cup {Null}]
    /\ pc \in [Caller -> {"idle", "creating", "storing", "pinning", "setting", "notifying",
                          "measuring", "testing", "deleting", "clearing"}]
    /\ handle \in [Caller -> Block \cup {Null}]
    /\ build \in Builds
    /\ overwritten \in BOOLEAN
    /\ misused \in BOOLEAN

(* IsRunning() is false once the task has finished executing               *)
(* (ThreadRTOS_Example.ino:66): until the destructor, when nobody can ask, *)
(* xHandle never names a deleted task, also when another task has had the  *)
(* same control block and ended.                                           *)
HandleNamesLiveTask ==
    object = "whole" /\ xHandle # Null => task[xHandle] \notin Deleted

(* IsRunning() is true while Run() is executed, except before the          *)
(* operator() that created the task has stored its handle; so a second     *)
(* operator() cannot start another task beside it.                         *)
RunIsReported ==
    \A b \in Block :
        task[b] = "running" =>
            xHandle = b \/ \E c \in Starter : pc[c] = "storing" /\ handle[c] = b

(* The kernel is never given null by operator(), notify, the destructor or *)
(* stack_high_water_mark, whose caller it would take for the task that is  *)
(* meant, also when a creation has failed; nor the handle of a deleted     *)
(* task, by them or by TaskHook.  Nothing but the program keeps a one-shot *)
(* thread from ending while it is destroyed or notified: such builds are   *)
(* not among those for which this is claimed.                              *)
NoStaleHandle == ~misused

(* The stack and the control block inside the object belong to one task at *)
(* a time, until the kernel has let go of it ("releases its resources from *)
(* the scheduler safely", README.md:18).                                   *)
OneTaskPerStack == ~overwritten

(* A one-shot thread that was started, however often and in whatever block,*)
(* is let go of by the kernel in the end, and is then not reported as      *)
(* running any more.                                                       *)
FinishedIsReported ==
    \A b \in Block :
        (build.OneShot /\ task[b] = "ready") ~> (task[b] = "none" /\ xHandle # b)
=============================================================================
