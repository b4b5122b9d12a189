--------------------------- MODULE ThreadsProofs ---------------------------
(***************************************************************************)
(* The handle of a thread is right, and its stack has one task at a time,  *)
(* for any number of starts, notifiers and owners, where the build is      *)
(* Ordered and one caller starts the thread.                               *)
(*                                                                         *)
(* Both conditions are needed: the run threads_late_store shows a task     *)
(* that ends before its creator has stored the handle, threads_restart a   *)
(* task that is created on the stack of another, threads_destroy a task    *)
(* that ends while its object is destroyed; and two starters can both pass *)
(* operator()'s test before either has created its task.                   *)
(*                                                                         *)
(* The argument: a task from its creation until it clears xHandle is named *)
(* by xHandle, or by the operator() that is about to store it.  There is   *)
(* one such task at most, so the task that clears xHandle clears its own   *)
(* entry, and the handle it has saved for vTaskDelete is its own.          *)
(***************************************************************************)
EXTENDS Threads, TLAPS

(* operator() has one caller at a time.                                    *)
OneStarter == \A c, d \in Starter : c = d

(* A thread whose Run() returns is not used by others, who could not know  *)
(* when; it does not run before its handle is stored and its affinity is   *)
(* set, unless xTaskCreate stores the handle and nothing is set; and the   *)
(* program waits for the kernel before it starts a static one again.       *)
Ordered(b) ==
    b.OneShot =>
        /\ ~b.Shared
        /\ b.CreatorFirst \/ ~(b.Static \/ b.Pins)
        /\ b.Static => b.Patient

Sound == OneStarter /\ \A b \in Builds : Ordered(b)

-----------------------------------------------------------------------------
(* A task counts on its entry in xHandle until it has cleared it.          *)
Counted == {"ready", "running", "returned", "saved"}

Storing(b) == \E c \in Starter : pc[c] = "storing" /\ handle[c] = b

(* operator().                                                             *)
Starting ==
    \A c \in Caller :
        /\ pc[c] \in {"creating", "storing", "pinning", "setting"} =>
              c \in Starter /\ object = "whole"
        /\ pc[c] \in {"creating", "storing"} => xHandle = Null
        /\ pc[c] = "creating" /\ build.Static => task[xTaskBuffer] = "none"
        /\ pc[c] = "storing" => build.Static /\ handle[c] # Null /\ task[handle[c]] \in Counted

Named ==
    /\ \A b \in Block : task[b] \in Counted => xHandle = b \/ Storing(b)
    /\ object = "whole" /\ xHandle # Null => task[xHandle] \in Counted

(* The rest of TaskHook.                                                   *)
Ending ==
    \A b \in Block :
        /\ task[b] \in {"saved", "cleared"} => saved[b] = b
        /\ task[b] # "asleep"
        /\ ~build.OneShot => task[b] \in {"ready", "running"} \cup Deleted
        /\ ~build.OneShot /\ object = "whole" => task[b] # "terminated"

(* The destructor.                                                         *)
Destroying ==
    /\ ~build.Shared => object = "whole"
    /\ \A c \in Caller :
          /\ pc[c] \in {"testing", "deleting", "clearing"} =>
                object = "base" /\ \A d \in Caller : d # c => pc[d] = "idle"
          /\ pc[c] = "deleting" => xHandle # Null /\ handle[c] = xHandle
          /\ pc[c] = "clearing" => \A b \in Block : task[b] \notin Counted

ThreadInv ==
    TypeOK /\ Ordered(build) /\ Starting /\ Named /\ Ending /\ Destroying /\ ~overwritten
-----------------------------------------------------------------------------
(* Types: of every step, whatever the build.                               *)

LEMMA ThreadTypeInit == Init => TypeOK
BY ThreadAssumption DEF Init, TypeOK, Null, Deleted

LEMMA ThreadTypeNext == TypeOK /\ [Next]_vars => TypeOK'
<1> SUFFICES ASSUME TypeOK, [Next]_vars
             PROVE  TypeOK'
    OBVIOUS
<1>b. xTaskBuffer \in Block
    BY ThreadAssumption DEF xTaskBuffer, Block
<1> USE DEF TypeOK, Goto, Becomes, Uses, InHook, Deleted
<1>1. ASSUME NEW c \in Caller, Test(c)
      PROVE  TypeOK'
    BY <1>1 DEF Test
<1>2. ASSUME NEW c \in Caller, Create(c)
      PROVE  TypeOK'
    BY <1>2, <1>b DEF Create, Place, AfterStore
<1>3. ASSUME NEW c \in Caller, CreateFails(c)
      PROVE  TypeOK'
    BY <1>3 DEF CreateFails, AfterStore
<1>4. ASSUME NEW c \in Caller, Store(c)
      PROVE  TypeOK'
    BY <1>4 DEF Store, AfterStore
<1>5. ASSUME NEW c \in Caller, Pin(c)
      PROVE  TypeOK'
    BY <1>5 DEF Pin
<1>6. ASSUME NEW c \in Caller, SetAffinity(c)
      PROVE  TypeOK'
    BY <1>6 DEF SetAffinity
<1>7. ASSUME NEW c \in Caller, ReadHandle(c)
      PROVE  TypeOK'
    BY <1>7 DEF ReadHandle
<1>8. ASSUME NEW c \in Caller, Notify(c) \/ Measure(c)
      PROVE  TypeOK'
    BY <1>8 DEF Notify, Measure
<1>9. ASSUME NEW c \in Caller, DestroyDerived(c)
      PROVE  TypeOK'
    BY <1>9 DEF DestroyDerived
<1>10. ASSUME NEW c \in Caller, DestroyTest(c)
       PROVE  TypeOK'
    BY <1>10 DEF DestroyTest
<1>11. ASSUME NEW c \in Caller, DestroyDelete(c)
       PROVE  TypeOK'
    <2>1. \A b \in Block : Ends(b) \subseteq InHook \cup Deleted
        BY DEF Ends
    <2>2. QED
        BY <1>11, <2>1 DEF DestroyDelete
<1>12. ASSUME NEW c \in Caller, DestroyClear(c)
       PROVE  TypeOK'
    BY <1>12 DEF DestroyClear
<1>13. ASSUME NEW b \in Block, TaskStep(b)
       PROVE  TypeOK'
    <2>1. CASE Run(b) \/ Return(b)
        BY <2>1 DEF Run, Return
    <2>2. CASE SaveHandle(b)
        BY <2>2 DEF SaveHandle
    <2>3. CASE ClearHandle(b)
        BY <2>3 DEF ClearHandle, ClearedHandle
    <2>4. CASE DeleteTask(b)
        <3>1. \A t \in Block : Ends(t) \subseteq InHook \cup Deleted
            BY DEF Ends
        <3>2. QED
            BY <2>4, <3>1 DEF DeleteTask
    <2>5. CASE Idle(b)
        BY <2>5 DEF Idle
    <2>6. QED
        BY <1>13, <2>1, <2>2, <2>3, <2>4, <2>5 DEF TaskStep
<1>14. CASE UNCHANGED vars
    BY <1>14 DEF vars
<1>15. QED
    BY <1>1, <1>2, <1>3, <1>4, <1>5, <1>6, <1>7, <1>8, <1>9, <1>10, <1>11, <1>12, <1>13, <1>14
    DEF Next, CallerStep

(* The members, the tasks and the callers of a thread keep their types,    *)
(* whoever starts, notifies and destroys it, also where its handle goes    *)
(* wrong.                                                                  *)
THEOREM ThreadTypeCorrect == Spec => []TypeOK
BY ThreadTypeInit, ThreadTypeNext, PTL DEF Spec
-----------------------------------------------------------------------------
(* The invariant.                                                          *)

LEMMA ThreadInvInit ==
    ASSUME Sound
    PROVE  Init => ThreadInv
<1> SUFFICES ASSUME Init
             PROVE  ThreadInv
    OBVIOUS
<1>1. TypeOK
    BY ThreadTypeInit
<1>2. QED
    BY <1>1, Sound DEF Sound, Init, ThreadInv, Starting, Named, Ending, Destroying, Counted,
       InHook, Deleted

(* While operator() creates a task, or has called nothing yet, no task     *)
(* counts on the empty xHandle.                                            *)
LEMMA NothingCounted ==
    ASSUME Sound, ThreadInv, xHandle = Null,
           NEW c \in Starter, pc[c] # "storing",
           NEW b \in Block
    PROVE  task[b] \notin Counted
BY Sound DEF Sound, OneStarter, ThreadInv, Named, Storing, Block, Null

(* A task that may run and is past Run() is the one that xHandle names.    *)
LEMMA RunnerIsNamed ==
    ASSUME Sound, ThreadInv, MayRun,
           NEW b \in Block, task[b] \in Counted, build.OneShot
    PROVE  xHandle = b
<1>1. ASSUME Storing(b)
      PROVE  FALSE
    BY <1>1 DEF ThreadInv, Ordered, Starting, Storing, MayRun, Caller
<1>2. QED
    BY <1>1 DEF ThreadInv, Named

(* operator().                                                             *)
LEMMA StartKeeps ==
    ASSUME Sound, ThreadInv, TypeOK', Ordered(build)',
           NEW c \in Caller,
           Test(c) \/ Create(c) \/ CreateFails(c) \/ Store(c) \/ Pin(c) \/ SetAffinity(c)
    PROVE  ThreadInv'
<1>n. 0 \notin Block /\ xTaskBuffer \in Block
    BY ThreadAssumption DEF Block, xTaskBuffer
<1> USE DEF ThreadInv, TypeOK, Goto, Becomes, Uses, Null, Caller, Storing
<1>1. CASE Test(c)
    <2>1. c \in Starter /\ object = "whole" /\ xHandle = Null
        BY <1>1 DEF Test
    <2>2. \A b \in Block : task[b] \notin Counted
        BY <1>1, <2>1, NothingCounted, Sound DEF Test
    <2>3. build.Static => task[xTaskBuffer] = "none"
        <3>1. CASE build.OneShot
            BY <1>1, <3>1, <1>n DEF Test, Ordered
        <3>2. CASE ~build.OneShot
            BY <3>2, <2>1, <2>2, <1>n DEF Ending, Counted, Deleted
        <3>3. QED
            BY <3>1, <3>2
    <2>4. Starting'
        BY <1>1, <2>1, <2>3 DEF Test, Starting
    <2>5. Named' /\ Ending' /\ Destroying'
        BY <1>1, <2>1 DEF Test, Named, Ending, Destroying
    <2>6. QED
        BY <1>1, <2>4, <2>5 DEF Test
<1>2. CASE Create(c)
    <2>1. PICK b \in Place :
              /\ task' = [task EXCEPT ![b] = "ready"]
              /\ overwritten' = (overwritten \/ task[b] # "none")
              /\ handle' = [handle EXCEPT ![c] = b]
              /\ xHandle' = IF build.Static THEN xHandle ELSE b
        BY <1>2 DEF Create
    <2>2. c \in Starter /\ object = "whole" /\ xHandle = Null
        BY <1>2 DEF Create, Starting
    <2>3. b \in Block /\ task[b] = "none"
        BY <1>2, <2>1, <1>n DEF Create, Place, Starting
    <2>4. \A d \in Block : task[d] \notin Counted
        BY <1>2, <2>2, NothingCounted, Sound DEF Create
    <2>5. \A d \in Caller : d # c => pc[d] \notin {"creating", "storing", "pinning", "setting"}
        BY <2>2, Sound DEF Sound, OneStarter, Starting
    <2>6. Starting'
        BY <1>2, <2>1, <2>2, <2>3, <2>5, <1>n DEF Create, Starting, AfterStore, Counted
    <2>7. Named'
        BY <1>2, <2>1, <2>2, <2>3, <2>4, <1>n DEF Create, Named, AfterStore, Counted
    <2>8. Ending' /\ Destroying'
        BY <1>2, <2>1, <2>2, <2>3 DEF Create, Ending, Destroying, AfterStore, Deleted
    <2>9. QED
        BY <2>1, <2>3, <2>6, <2>7, <2>8
<1>3. CASE CreateFails(c)
    <2>1. c \in Starter /\ object = "whole" /\ xHandle = Null
        BY <1>3 DEF CreateFails, Starting
    <2>2. QED
        BY <1>3, <2>1 DEF CreateFails, AfterStore, Starting, Named, Ending, Destroying
<1>4. CASE Store(c)
    <2>1. c \in Starter /\ object = "whole" /\ xHandle = Null
        BY <1>4 DEF Store, Starting
    <2>2. handle[c] # Null /\ task[handle[c]] \in Counted
        BY <1>4 DEF Store, Starting
    <2>3. \A d \in Caller : d # c => pc[d] \notin {"creating", "storing", "pinning", "setting"}
        BY <2>1, Sound DEF Sound, OneStarter, Starting
    <2>4. Starting'
        BY <1>4, <2>1, <2>3 DEF Store, Starting, AfterStore
    <2>5. \A b \in Block : task[b] \in Counted => b = handle[c]
        BY <2>1, <2>3, <1>n DEF Named
    <2>6. Named'
        BY <1>4, <2>2, <2>5, <1>n DEF Store, Named
    <2>7. Ending' /\ Destroying'
        BY <1>4, <2>1 DEF Store, Ending, Destroying, AfterStore
    <2>8. QED
        BY <1>4, <2>4, <2>6, <2>7 DEF Store
<1>5. CASE Pin(c)
    <2>1. c \in Starter /\ object = "whole"
        BY <1>5 DEF Pin, Starting
    <2>2. QED
        BY <1>5, <2>1 DEF Pin, Starting, Named, Ending, Destroying
<1>6. CASE SetAffinity(c)
    BY <1>6 DEF SetAffinity, Starting, Named, Ending, Destroying
<1>7. QED
    BY <1>1, <1>2, <1>3, <1>4, <1>5, <1>6

(* The notifiers and the destructor.                                       *)
LEMMA OthersKeep ==
    ASSUME Sound, ThreadInv, TypeOK', Ordered(build)',
           NEW c \in Caller,
           \/ ReadHandle(c) \/ Notify(c) \/ Measure(c)
           \/ DestroyDerived(c) \/ DestroyTest(c) \/ DestroyDelete(c) \/ DestroyClear(c)
    PROVE  ThreadInv'
<1>n. 0 \notin Block
    BY DEF Block
<1> USE DEF ThreadInv, TypeOK, Goto, Becomes, Uses, Null, Caller, Storing
<1>1. CASE ReadHandle(c)
    BY <1>1 DEF ReadHandle, Starting, Named, Ending, Destroying
<1>2. CASE Notify(c) \/ Measure(c)
    BY <1>2 DEF Notify, Measure, Starting, Named, Ending, Destroying
<1>3. CASE DestroyDerived(c)
    BY <1>3 DEF DestroyDerived, Starting, Named, Ending, Destroying
<1>4. CASE DestroyTest(c)
    BY <1>4 DEF DestroyTest, Starting, Named, Ending, Destroying
<1>5. CASE DestroyDelete(c)
    <2>1. xHandle # Null /\ handle[c] = xHandle /\ object = "base"
        BY <1>5 DEF DestroyDelete, Destroying
    <2>2. \A d \in Caller : d # c => pc[d] = "idle"
        BY <1>5 DEF DestroyDelete, Destroying
    <2>3. ~build.OneShot
        BY <2>1 DEF Destroying, Ordered
    <2>4. task[xHandle] \in {"ready", "running"} \cup Deleted
        BY <2>1, <2>3 DEF Ending
    <2>5. PICK end \in Deleted : task' = [task EXCEPT ![xHandle] = end]
        BY <1>5, <2>1, <2>4 DEF DestroyDelete, Ends, InHook
    <2>6. \A b \in Block : task'[b] \notin Counted
        BY <1>5, <2>1, <2>2, <2>5 DEF DestroyDelete, Named, Counted, Deleted
    <2>7. Starting'
        BY <1>5, <2>2 DEF DestroyDelete, Starting
    <2>8. Named'
        BY <1>5, <2>1, <2>6 DEF DestroyDelete, Named
    <2>9. Ending'
        BY <1>5, <2>1, <2>3, <2>5 DEF DestroyDelete, Ending, Deleted
    <2>10. Destroying'
        BY <1>5, <2>1, <2>2, <2>6 DEF DestroyDelete, Destroying
    <2>11. QED
        BY <1>5, <2>7, <2>8, <2>9, <2>10 DEF DestroyDelete
<1>6. CASE DestroyClear(c)
    <2>1. \A d \in Caller : d # c => pc[d] = "idle"
        BY <1>6 DEF DestroyClear, Destroying
    <2>2. \A b \in Block : task[b] \notin Counted
        BY <1>6 DEF DestroyClear, Destroying
    <2>3. object = "base"
        BY <1>6 DEF DestroyClear, Destroying
    <2>4. QED
        BY <1>6, <2>1, <2>2, <2>3 DEF DestroyClear, Starting, Named, Ending, Destroying
<1>7. QED
    BY <1>1, <1>2, <1>3, <1>4, <1>5, <1>6

(* TaskHook and the idle task.                                             *)
LEMMA TaskKeeps ==
    ASSUME Sound, ThreadInv, TypeOK', Ordered(build)',
           NEW b \in Block, TaskStep(b)
    PROVE  ThreadInv'
<1>n. 0 \notin Block /\ xTaskBuffer \in Block
    BY ThreadAssumption DEF Block, xTaskBuffer
<1> USE DEF ThreadInv, TypeOK, Becomes, Null, Caller, Storing
<1>1. CASE Run(b) \/ Return(b)
    <2>1. PICK next \in {"running", "returned"} :
              /\ task' = [task EXCEPT ![b] = next]
              /\ next = "returned" => build.OneShot
        BY <1>1 DEF Run, Return
    <2>2. task[b] \in {"ready", "running"}
        BY <1>1 DEF Run, Return
    <2>3. UNCHANGED <<xHandle, object, saved, pc, handle, build, overwritten>>
        BY <1>1 DEF Run, Return
    <2>4. Starting' /\ Named'
        BY <2>1, <2>2, <2>3, <1>n DEF Starting, Named, Counted
    <2>5. Ending' /\ Destroying'
        BY <2>1, <2>2, <2>3 DEF Ending, Destroying, Counted, Deleted
    <2>6. QED
        BY <2>3, <2>4, <2>5
<1>2. CASE SaveHandle(b)
    <2>1. build.OneShot
        BY <1>2 DEF SaveHandle, Ending, Deleted
    <2>2. xHandle = b
        BY <1>2, <2>1, RunnerIsNamed, Sound DEF SaveHandle, Counted
    <2>3. QED
        BY <1>2, <2>1, <2>2
        DEF SaveHandle, Starting, Named, Ending, Destroying, Counted, Deleted
<1>3. CASE ClearHandle(b)
    <2>1. build.OneShot
        BY <1>3 DEF ClearHandle, Ending, Deleted
    <2>2. xHandle = b
        BY <1>3, <2>1, RunnerIsNamed, Sound DEF ClearHandle, Counted
    <2>3. object = "whole"
        BY <2>1 DEF Ordered, Destroying
    <2>4. \A c \in Caller :
              pc[c] \notin {"creating", "storing", "testing", "deleting", "clearing"}
        BY <2>2, <2>3, <1>n DEF Starting, Destroying
    <2>5. QED
        BY <1>3, <2>1, <2>2, <2>3, <2>4
        DEF ClearHandle, ClearedHandle, Starting, Named, Ending, Destroying, Counted, Deleted
<1>4. CASE DeleteTask(b)
    <2>1. build.OneShot /\ saved[b] = b
        BY <1>4 DEF DeleteTask, Ending, Deleted
    <2>2. task' = [task EXCEPT ![b] = "terminated"]
        BY <1>4, <2>1, <1>n DEF DeleteTask
    <2>3. QED
        BY <1>4, <2>1, <2>2
        DEF DeleteTask, Starting, Named, Ending, Destroying, Counted, Deleted
<1>5. CASE Idle(b)
    BY <1>5 DEF Idle, Starting, Named, Ending, Destroying, Counted, Deleted
<1>6. QED
    BY <1>1, <1>2, <1>3, <1>4, <1>5 DEF TaskStep

LEMMA ThreadInvariance ==
    ASSUME Sound
    PROVE  Spec => []ThreadInv
<1>1. Init => ThreadInv
    BY ThreadInvInit, Sound
<1>2. ThreadInv /\ [Next]_vars => ThreadInv'
    <2> SUFFICES ASSUME ThreadInv, [Next]_vars
                 PROVE  ThreadInv'
        OBVIOUS
    <2>1. TypeOK'
        BY ThreadTypeNext DEF ThreadInv
    <2>2. Ordered(build)'
        BY <2>1, Sound DEF Sound, TypeOK
    <2>3. CASE UNCHANGED vars
        BY <2>1, <2>2, <2>3
        DEF vars, ThreadInv, Starting, Named, Storing, Ending, Destroying
    <2>4. ASSUME NEW c \in Caller, CallerStep(c)
          PROVE  ThreadInv'
        BY <2>1, <2>2, <2>4, StartKeeps, OthersKeep, Sound DEF CallerStep
    <2>5. ASSUME NEW b \in Block, TaskStep(b)
          PROVE  ThreadInv'
        BY <2>1, <2>2, <2>5, TaskKeeps, Sound
    <2>6. QED
        BY <2>3, <2>4, <2>5 DEF Next
<1>3. QED
    BY <1>1, <1>2, PTL DEF Spec

-----------------------------------------------------------------------------
(* IsRunning() is false as soon as the task is deleted: until the          *)
(* destructor, xHandle never names a task that vTaskDelete has been given, *)
(* however often the thread is started again and in whatever block.        *)
THEOREM HandleIsLive ==
    ASSUME Sound
    PROVE  Spec => []HandleNamesLiveTask
<1>1. ThreadInv => HandleNamesLiveTask
    BY DEF ThreadInv, Named, HandleNamesLiveTask, Counted, Deleted
<1>2. QED
    BY <1>1, ThreadInvariance, Sound, PTL

(* IsRunning() is true during Run(), except between the creation of the    *)
(* task and the store of its handle by the operator() that created it; so  *)
(* a second call of operator() never starts a task beside it.              *)
THEOREM RunningIsReported ==
    ASSUME Sound
    PROVE  Spec => []RunIsReported
<1>1. ThreadInv => RunIsReported
    BY DEF ThreadInv, Named, RunIsReported, Storing, Counted
<1>2. QED
    BY <1>1, ThreadInvariance, Sound, PTL

(* xStack and xTaskBuffer are never given to a new task before the kernel  *)
(* has let go of the last one: neither of a thread whose Run() never       *)
(* returns, nor of a one-shot thread in a program that waits for the       *)
(* kernel.  (Without the wait they are: run threads_restart.)              *)
THEOREM StackIsExclusive ==
    ASSUME Sound
    PROVE  Spec => []OneTaskPerStack
<1>1. ThreadInv => OneTaskPerStack
    BY DEF ThreadInv, OneTaskPerStack
<1>2. QED
    BY <1>1, ThreadInvariance, Sound, PTL
-----------------------------------------------------------------------------
(* What the kernel is given.                                               *)

(* A handle that was tested is still the thread's when it is used.         *)
Using ==
    /\ \A c \in Caller :
          /\ pc[c] \in {"setting", "notifying", "measuring"} =>
                object = "whole" /\ xHandle # Null /\ handle[c] = xHandle
          /\ pc[c] \in {"pinning", "setting"} => build.Pins
          /\ pc[c] \in {"notifying", "measuring"} => build.Shared
          /\ pc[c] \in {"testing", "deleting"} /\ xHandle # Null => task[xHandle] \in Counted
    /\ ~misused

LEMMA CallersUse ==
    ASSUME Sound, ThreadInv, ThreadInv', Using,
           NEW c \in Caller, CallerStep(c)
    PROVE  Using'
<1>n. 0 \notin Block
    BY DEF Block
<1> USE DEF ThreadInv, TypeOK, Goto, Becomes, Uses, Null
<1>1. CASE Test(c)
    BY <1>1 DEF Test, Using
<1>2. CASE Create(c)
    <2>1. object = "whole" /\ xHandle = Null
        BY <1>2 DEF Create, Starting
    <2>2. \A d \in Caller : pc[d] \notin {"setting", "notifying", "measuring", "testing", "deleting"}
        BY <2>1 DEF Using, Destroying
    <2>3. pc' = [pc EXCEPT ![c] = IF build.Static THEN "storing" ELSE AfterStore]
        BY <1>2 DEF Create
    <2>4. AfterStore \in {"pinning", "idle"} /\ (AfterStore = "pinning" => build.Pins)
        BY DEF AfterStore
    <2>5. UNCHANGED <<object, build, misused>>
        BY <1>2 DEF Create
    <2>6. QED
        BY <2>2, <2>3, <2>4, <2>5 DEF Using
<1>3. CASE CreateFails(c)
    BY <1>3 DEF CreateFails, AfterStore, Using
<1>4. CASE Store(c)
    <2>1. object = "whole" /\ xHandle = Null
        BY <1>4 DEF Store, Starting
    <2>2. \A d \in Caller : pc[d] \notin {"setting", "notifying", "measuring", "testing", "deleting"}
        BY <2>1 DEF Using, Destroying
    <2>3. QED
        BY <1>4, <2>2 DEF Store, AfterStore, Using
<1>5. CASE Pin(c)
    <2>1. object = "whole"
        BY <1>5 DEF Pin, Starting
    <2>2. QED
        BY <1>5, <2>1 DEF Pin, Using
<1>6. CASE SetAffinity(c) \/ Notify(c) \/ Measure(c)
    <2>1. object = "whole" /\ xHandle # Null /\ handle[c] = xHandle
        BY <1>6 DEF SetAffinity, Notify, Measure, Using
    <2>2. task[xHandle] \notin Deleted
        BY <2>1 DEF Named, Counted, Deleted
    <2>3. QED
        BY <1>6, <2>1, <2>2 DEF SetAffinity, Notify, Measure, Using
<1>7. CASE ReadHandle(c)
    BY <1>7 DEF ReadHandle, Using
<1>8. CASE DestroyDerived(c)
    BY <1>8 DEF DestroyDerived, Using, Named
<1>9. CASE DestroyTest(c)
    <2>1. object = "base" /\ ~build.OneShot
        BY <1>9 DEF DestroyTest, Destroying, Ordered
    <2>2. \A d \in Caller : d # c => pc[d] = "idle"
        BY <1>9 DEF DestroyTest, Destroying
    <2>3. QED
        BY <1>9, <2>1, <2>2 DEF DestroyTest, Using
<1>10. CASE DestroyDelete(c)
    <2>1. xHandle # Null /\ handle[c] = xHandle /\ task[xHandle] \in Counted
        BY <1>10 DEF DestroyDelete, Destroying, Using
    <2>2. \A d \in Caller : d # c => pc[d] = "idle"
        BY <1>10 DEF DestroyDelete, Destroying
    <2>3. QED
        BY <1>10, <2>1, <2>2 DEF DestroyDelete, Using, Counted, Deleted
<1>11. CASE DestroyClear(c)
    <2>1. \A d \in Caller : d # c => pc[d] = "idle"
        BY <1>11 DEF DestroyClear, Destroying
    <2>2. QED
        BY <1>11, <2>1 DEF DestroyClear, Using
<1>12. QED
    BY <1>1, <1>2, <1>3, <1>4, <1>5, <1>6, <1>7, <1>8, <1>9, <1>10, <1>11 DEF CallerStep

LEMMA TasksUse ==
    ASSUME Sound, ThreadInv, Using,
           NEW b \in Block, TaskStep(b)
    PROVE  Using'
<1>n. 0 \notin Block
    BY DEF Block
<1> USE DEF ThreadInv, TypeOK, Becomes, Null
<1>1. CASE Run(b) \/ Return(b) \/ SaveHandle(b)
    <2>1. PICK next \in Counted : task' = [task EXCEPT ![b] = next]
        BY <1>1 DEF Run, Return, SaveHandle, Counted
    <2>2. UNCHANGED <<xHandle, object, pc, handle, build, misused>>
        BY <1>1 DEF Run, Return, SaveHandle
    <2>3. QED
        BY <2>1, <2>2 DEF Using
<1>2. CASE ClearHandle(b)
    <2>1. build.OneShot
        BY <1>2 DEF ClearHandle, Ending, Deleted
    <2>2. \A c \in Caller : pc[c] \notin {"setting", "notifying", "measuring", "testing", "deleting"}
        BY <1>2, <2>1 DEF ClearHandle, MayRun, Ordered, Starting, Destroying, Using
    <2>3. QED
        BY <1>2, <2>2 DEF ClearHandle, Using
<1>3. CASE DeleteTask(b)
    <2>1. task[b] = "cleared" /\ saved[b] = b
        BY <1>3 DEF DeleteTask, Ending
    <2>2. task' = [task EXCEPT ![b] = "terminated"] /\ misused' = misused
        BY <1>3, <2>1, <1>n DEF DeleteTask, Deleted, Using
    <2>3. QED
        BY <1>3, <2>1, <2>2 DEF DeleteTask, Using, Counted
<1>4. CASE Idle(b)
    BY <1>4 DEF Idle, Using, Counted
<1>5. QED
    BY <1>1, <1>2, <1>3, <1>4 DEF TaskStep

(* Whatever of operator(), notify, stack_high_water_mark, the destructor   *)
(* and TaskHook calls the kernel gives it a task that is there: the tests  *)
(* for null see to it after a failed creation, too.  Of a one-shot thread  *)
(* that others destroy or notify it is false (Sound excludes it).          *)
THEOREM HandlesAreGood ==
    ASSUME Sound
    PROVE  Spec => []NoStaleHandle
<1>1. Init => Using
    BY DEF Init, Using
<1>2. ThreadInv /\ ThreadInv' /\ Using /\ [Next]_vars => Using'
    <2> SUFFICES ASSUME ThreadInv, ThreadInv', Using, [Next]_vars
                 PROVE  Using'
        OBVIOUS
    <2>1. CASE UNCHANGED vars
        BY <2>1 DEF vars, Using
    <2>2. CASE Next
        BY <2>2, CallersUse, TasksUse, Sound DEF Next
    <2>3. QED
        BY <2>1, <2>2
<1>3. Using => NoStaleHandle
    BY DEF Using, NoStaleHandle
<1>4. QED
    BY <1>1, <1>2, <1>3, ThreadInvariance, Sound, PTL DEF Spec
=============================================================================
