# FreeRTOS_CJJ in TLA+

FreeRTOS_CJJ (`src/`) wraps the C API of FreeRTOS in C++ classes: threads, locks and
their guards, queues, a ring buffer, stream and message buffers, semaphores, event groups,
notifications, software timers, and lock-protected serial, I2C and SPI ports. It runs on
three platforms that differ in exactly the things that matter here: the ATmega328P (one
core, dynamic allocation), the ESP32 (two cores, its own critical-section macros) and the
RP2040 (two cores, the SMP kernel). These modules model what the library's own code does
on top of the kernel; the kernel is modelled only as far as the library's calls show.

Paths below are relative to the repository. The library is the directory `src/src`.

## 1. Inventory

| component | state it keeps | operations | talks to |
|---|---|---|---|
| `SafeRingBuffer` | `data`, `head`, `count` | push, pop, insert, remove, get, back, for_each, clear; four `_from_isr` forms | tasks and interrupts, through critical sections |
| Kernel critical sections (`Kernel.cpp`, `FreeRTOS_Base.h`) | the interrupt mask of a core, a cross-core lock | enter, exit, `_from_isr` forms, `CriticalGuard` | `SafeRingBuffer` and user code |
| Kernel time and scheduler wrappers (`Kernel.cpp`) | none | delay, delay_until, yield, suspend and resume, uptime_ms, ... | the kernel |
| Lock guards (`LGuards.cpp`) | a mutex handle and `is_locked` | take in the constructor, lock, unlock, destructor | `Mutex`, `RecursiveMutex` |
| `Mutex`, `RecursiveMutex` | a handle, perhaps null | create, destroy, handle | guards; SafeSerial, SafeWire, SafeSPI |
| Threads (`Threads.hpp`, `ThreadRTOS.hpp`, `ThreadArduino.hpp`) | `xHandle`, stack, control block | operator(), TaskHook, IsRunning, Handle, destructor | its task, callers, `TaskNotification` |
| `TaskNotification` | the thread it points to | notify, notify_from_isr, wait | `Threads` |
| `SoftwareTimers` | `xHandle`, `xBuffer` | start, stop, reset, set_period, reset_from_isr, destructor; calls on_timer() | the kernel's timer daemon and its command queue |
| `SafeQueues` | a handle | send, receive, `_from_isr` forms, reset | tasks and interrupts |
| `StreamBuffer`, `MessageBuffer` | a handle | send, receive, send_value, receive_value, `_from_isr` forms | one writer and one reader |
| `Semaphores` | a handle | take, give, give_from_isr, get_count | tasks and interrupts |
| `EventGroup` | a handle | set, clear, wait, sync, `_from_isr` forms | tasks, the timer daemon |
| `SafeSerial`, `SafeWire`, `SafeSPI` | a mutex, a port | print and Locked; register access; transfer and transactions | `Mutex`, the hardware |

Where the difficulty lies:

* **Two actors, one variable, no lock.** A thread's `xHandle` is set by the creator, cleared
  by the task, read by everybody (`Threads.hpp:55,78,101`).
* **Masking against locking.** The ring buffer is right only if a task and an interrupt on
  *different* cores exclude each other, which depends on a macro per platform
  (`FreeRTOS_Base.h:43-53`).
* **Index arithmetic in two directions.** `SafeRingBuffer` wraps, evicts at either end and
  shifts the shorter half; `insert` clamps an index that its own eviction invalidated.
* **Ownership remembered twice.** `is_locked` is the guard's copy of what the kernel knows;
  timeouts, nesting and early unlocking can make them differ.
* **Asynchronous commands.** A timer method returns when its command is queued; the queue
  is bounded, shared, and emptied by the task that also runs on_timer().
* **Woken is not served.** A task that was woken competes for what woke it with everybody who
  is faster, and must go back to sleep without losing what is left of its timeout, or the
  wake-up itself. A `_from_isr` method must ask for the context switch exactly when its
  caller does not (`SafeQueues.hpp:61` and nine other places of the same shape).
* **Early returns under a lock.** A port's method returns from the middle of a transaction
  (`SafeWire.cpp:55,60`), inside the scope of other guards.

What makes each component correct:

* ring buffer: it is a bounded deque to its callers, whatever the interleaving; no element
  stays alive in a slot nobody can reach; nothing accepted is lost;
* guards: `owns_lock()` is the truth, an inner release does not free the mutex of an outer
  guard, and a task without guards holds nothing;
* threads: `IsRunning()` is true exactly while the task runs, no deleted task's handle is
  used, and a stack has one task at a time;
* timers: the last successful call decides, the kernel is never given the control block of
  a live timer again, silence after `stop()`, no timer outlives its object, calls return;
* queues, semaphores, event groups, buffers, notifications: nobody waits for what is there,
  an infinite timeout is infinite, an interrupt that wakes a task has it run, and an
  arrival at a rendezvous counts once;
* ports: one caller's line, register access or transfer at a time, and what is read is
  what was asked for.

The full list of hazards, each with its line and the property that watches it, is in
`PROJECT.json`.

## 2. Modules

| module | models | against |
|---|---|---|
| `SafeRingBuffer` | each operation as one action; its private helpers as operators on a ring record `data, head, count` | `SafeRingBuffer.hpp` |
| `Deque` | what callers are promised: a bounded sequence | (abstract specification) |
| `RingBufferAccess` | the same operations as lists of single stores, run inside the critical sections of each platform by tasks and interrupts | `SafeRingBuffer.hpp`, `Kernel.cpp`, `FreeRTOS_Base.h` |
| `LockGuards` | stacks of guards, with timeouts, over the kernel's mutexes | `LGuards.cpp`, `Mutex.cpp` |
| `Threads` | one thread object, the tasks it starts, its callers, its destruction | `Threads.hpp`, `ThreadArduino.hpp`, `TaskNotification.cpp` |
| `SoftwareTimers` | one timer, its callers, the command queue and the daemon | `SoftwareTimers.hpp` |
| `Scheduler` | what the blocking classes share: timeouts, null handles, the switch at the end of an interrupt, delay, yield, suspend and resume, and one core of the kernel's scheduler | `Kernel.cpp`, the head and tail of the methods below |
| `SafeQueues` | queue and both semaphores: places and items, blocked senders and receivers | `SafeQueues.hpp`, `Semaphores.cpp` |
| `EventGroups` | bits, conditions, rendezvous, and what interrupts post to the daemon | `EventGroups.cpp` |
| `StreamBuffers` | bytes, trigger level, framed messages, notifications | `StreamBuffer.hpp`, `TaskNotification.cpp` |
| `Signals` | the three over one scheduler: tasks, daemon and interrupts share an object | all of these |
| `Ports` | the methods of the three ports, step by step on the hardware, over `LockGuards` | `SafeSerial.hpp`, `SafeWire.cpp`, `SafeSPI.cpp` |
| `SafeRingBufferProofs`, `SafeRingBufferRefinement`, `RingBufferAccessProofs`, `LockGuardsProofs`, `PortsProofs`, `ThreadsProofs`, `SoftwareTimersProofs`, `SignalsProofs` | theorems | |
| `MC...` | constants for TLC | |

The chain `RingBufferAccess => SafeRingBuffer => Deque` is a refinement in two steps: stores
inside sections implement atomic operations on the array, and those implement a deque.
`Ports` is composed with `LockGuards` the other way round: its state is that of the guards
and more, its steps are steps of the guards, and what holds of the guards holds of it.

### SafeRingBuffer and Deque

`ring` is the three members. `phys`, `reset_front_unlocked`, `reset_back_unlocked` and
`make_room_unlocked` have the names they have in the code; `At(b, i)` is `data[phys(i)]`. A
task-context operation and its `_from_isr` form have the same body, hence the same action.
Results go to `ret` (what is returned and what an output argument or callback was given).
A shifting loop is modelled by the array it leaves (`ShiftDown`, `ShiftUp`): that no
element is overwritten before it is copied is a question of order, and
`RingBufferAccess` answers it store by store. The callback of `for_each_until` is a
function from values to values that stops at some call, since the header forbids it to call
back into the buffer. `Deque` never mentions slots; its `items` is refined by `Window(ring)`.

### RingBufferAccess

Every caller goes *outside, entering, inside, outside*. `Enter` masks its core's
interrupts, `Begin` takes the cross-core lock if its kind of caller takes one
(`TakesLock`) and makes the body's first test, `Step` performs one store, `Exit` leaves.
`IsrTakesLock` is the platform: TRUE where `taskENTER_CRITICAL_FROM_ISR` of an SMP kernel
takes the lock, FALSE on the ESP32, whose redefinition at `FreeRTOS_Base.h:45-53` covers the
task-context macros only. `head` and `count` are loaded once per body, because a compiler may
do so; elements are read when used. `before` is the ring at the start of the section:
seen from outside, the buffer is `before` until the section ends, which is the refinement
mapping to `SafeRingBuffer`.

### LockGuards

A task's guards are a sequence, because scopes nest. Taking has three outcomes: at once,
failure at once, or blocking until `Grant` or `Timeout`. A timeout shorter than a tick is
rounded to zero by `pdMS_TO_TICKS` and is then "none". Mutex creation may fail (`exists`).
The kernel part (`Available`, `Acquire`, `Give`, `Grant`, `Timeout`) is external, taken from
how the guards use it. `holder` and `depth` are the kernel's truth, `is_locked` the guard's.

### Threads

A task is known by its control block, whose address is its handle: `task[b]` is the place in
`TaskHook` or in the kernel of the task in block `b`. A static task's block is always
`xTaskBuffer`, so a restart before the idle task has let go of the last one overwrites a block
that is still on the kernel's lists (`overwritten`); a dynamic task takes any free place of the
heap, an earlier task's too, and its creation may fail (`CreateFails`), which nobody looks at.
`pc[c]` is the place of a caller in `operator()`, `notify`, `stack_high_water_mark` or the destructor; every
read and write of `xHandle` is a step of its own, `vTaskDelete` in the destructor and the clear
after it included. `build` is chosen once: static or dynamic allocation, whether a new task can
run before its creator has gone on, core affinity, a `Run()` that returns or not,
whether others use the thread's handle or destroy the thread, and whether the program waits for
the kernel before it starts the thread again. Where the code tests `xHandle` and then uses it, both
the tested and the current value may be used: it is an ordinary member that another task writes.

### SoftwareTimers

A method posts commands to `queue`; `todo` is what a call in progress has still to post, and
`Ticks` the conversion of its timeout: `0xFFFFFFFF` is for ever, less than a tick is none.
The daemon carries out commands in order and fires the timer; in its callback it is a caller
like the others, and blocks itself if it waits for room. `PostOther` is any other timer of the
program. A `start` that was posted longer ago than the period fires at once, as the kernel
does when it finds the expiry time passed. `wish`, `calm`, `silent` and `lost` are history:
what the last successful call asked for, and whether a `stop()` has returned true since which
nobody has asked the timer to run.

### Scheduler, SafeQueues, EventGroups, StreamBuffers, Signals

`call[t]` is the call a task is in. `Begin` is the head that all blocking methods share: the
null test, which returns empty-handed at once, and the conversion of the timeout (`Ticks`; less than a tick is none, `0xFFFFFFFF` is
for ever). The rest of a method is its one call of the kernel, which is tried (*trying*),
blocks, and is tried again when the task has been *woken* or its timeout has ended (*late*)
and it has the core; `Return` and `Refuse`, empty-handed, are the two ways it ends; `refused` is the
tasks that came back empty-handed from an infinite timeout. Whoever changes the
object wakes tasks by the kernel's rule for that object: one of highest priority for a queue,
all whose condition holds for an event group, the reader only from the trigger level for a
stream buffer. The kernel is external, taken from FreeRTOS's documented behaviour; what is checked
is that the library's use of it keeps its promises.

`isr` is the interrupt being served. `flagged` says whether the caller passed
`pxHigherPriorityTaskWoken`; `Reported` is the tail of every `_from_isr` method, and `ExitIsr` a
caller that yields if its flag was set. `clear_from_isr` is the exception: it has no
flag (`EventGroups.cpp:49-54`), so the daemon it wakes runs only when somebody else switches.

`SafeQueues` counts items. `reset()` frees every place but wakes one blocked sender; `CrowdedReset` says whether
the program calls it while more than one is blocked. `EventGroups` remembers in `arrived` which bits have been set since each
task's last rendezvous: a task in `ghosts` has completed `sync()` with a partner who had not
come again. In `StreamBuffers` the capacity is what the kernel makes of the constructor's
arguments: one byte less than `BufferSize` for a static buffer, and a reader blocked on a
buffer can be ended by a notification, because the kernel uses the same one. A receive waits once,
and a message that is longer than the buffer it is given stays; either way it returns with nothing.

`Signals` chooses an object once and composes its steps with those of the scheduler.

### Ports

Every method is a `UniqueLock` and a list of steps on the hardware (`Body`); `frames[t]` has one
entry per guard of `guards[t]`, so that a method called in the scope of a `Locked` nests as its guard
does. `bus[m]` is the task whose transaction is open on a port: printed text under one lock,
from `beginTransmission` to `endTransmission` or the end of `requestFrom`, while the chip
select is low. `endTransmission` and `requestFrom` may fail; the early returns are `GiveUp`. A repeated start that
fails (`SafeWire.cpp:55`) may leave the bus free or without a stop (`Unstopped`), in which state
the next transmission finds it. `rx` is
`TwoWire`'s receive buffer, with the task whose request filled it.

## 3. Runs

Deadlock checking is off only where the configuration says why: calls, tasks and posts
are bounded, so behaviours end.

| run | bounds | what it shows |
|---|---|---|
| `ring_buffer` | Capacity 4, two values | Type, unused slots reset, and the refinement of `Deque`, for every sequence of operations. With four slots both halves of insert and remove move elements, and every head position wraps some window. |
| `ring_two_cores` | Capacity 3, two values, two tasks on two cores, one interrupt | Operations taken apart into stores look atomic, sections exclude each other, nothing accepted is lost. Three slots make a loop copy at least one element. |
| `ring_esp32` | as above, Capacity 2 | **violation**: the interrupt takes no lock, and an element is lost. |
| `guards` | two tasks, a mutex and a recursive mutex, 3 calls per task, all timeouts | `is_locked` is true to the kernel; releases do not free too much. Three calls nest guards, lock one twice and meet the other task. |
| `guards_relock` | two tasks, one recursive mutex, 2 calls | **violation**: the second `lock()` takes again and is never given. |
| `threads` | one starter, two notifiers, three control blocks, four builds: AVR (dynamic, one-shot), RP2040 (one-shot, static or dynamic, restarted when the kernel has let go), `ThreadArduino` notified and destroyed | Until the destructor the handle names no deleted task, also in a block used again; `Run()` is reported; the kernel is not given null, also when a creation has failed; what ends is let go of by the kernel. Any number of starts; with three blocks a new task may have the block of the last one, of an earlier one or its own. |
| `threads_late_store` | a static one-shot task that may run at once | **violation**: a handle that stays set for good. |
| `threads_restart` | a static one-shot task | **violation**: two tasks on one stack. |
| `timers` | two tasks, an interrupt, on_timer(); queue of 1; 2 calls of one task, 1 of the others; a one-shot timer on two cores, a periodic one where the daemon comes first | The last call wins, no re-creation; where the daemon comes first, silence after `stop()` and no access to a dead object; where it does not, every call with a finite timeout in on_timer() returns. The queue fills up between the two commands of `start()` and of the destructor. |
| `signals` | two tasks of one priority, one above them, the daemon; interrupts that make any number of calls; queue of 2, buffers of up to 3 bytes, 2 event bits, a daemon queue of 2; a queue is reset under one blocked sender at most | No wake-up or context switch is lost, an arrival counts once, and an infinite timeout ends empty-handed only for a null handle, a send that never fits or a receive of a buffer. Two tasks of one priority rob each other of what woke them, the third overtakes both; one byte less than a message fits in one buffer, and nothing in a static `StreamBuffer<1>`. |
| `stream_level` | as above, one static buffer of size and trigger level 3 | **violation**: writer and reader wait for each other. |
| `ports` | two tasks, three ports, 3 calls each, all timeouts, registers of 2 bytes | No transaction is mixed with another, and reads that return true are whole. Three calls nest a method in a `Locked`, or two, while the other task waits. |

### Fairness

* `Threads!FairSpec`: weak fairness of every task's step and of calls in progress. FreeRTOS
  schedules every ready task as long as higher ones block, and the idle task frees deleted
  ones; nothing is assumed about calls being *begun*.
* `SoftwareTimers!FairSpec`: weak fairness of the daemon; strong fairness of each call in
  progress of a task, because a sender that waits for room competes with others for each
  place, and the kernel wakes the one of highest priority that has waited longest. Interrupts
  need none: their calls never wait. Other timers that post for ever (`PostOther`) are not
  excluded, nor is an endless sequence of expiries. `CallsReturn` is claimed where the daemon
  does not always come first (a timer that expires without end would then keep its callers off
  the core), and checked with finite or no timeout inside on_timer(): with the default
  (infinite) one the daemon waits for itself.
* `Signals` and `Ports` state no fairness. That no wake-up is lost is stated as an invariant
  (`NobodyForgotten`), which is stronger than liveness under fairness and does not depend
  on who is scheduled: a task of low priority may starve, and nothing in the library says otherwise.

### Findings

Five places where the code does not do what a document of the repository says (each is a
`violation` run; the quotations are in `PROJECT.json`).

1. **ESP32 interrupts and the ring buffer** (`FreeRTOS_Base.h:47`). Task sections take
   `esp32_kernel_mux`, the `_from_isr` sections only mask their own core. The buffer is
   described as thread-safe and ISR-safe.
2. **`RecursiveUniqueLock::lock()` twice** (`LGuards.cpp:112`). Two takes, one give. The
   guards are said to release automatically.
3. **The late store in `operator()`** (`Threads.hpp:101`). If the static task ends before
   the creator stores the returned handle, `IsRunning()` stays true and the thread cannot be
   started again.
4. **Restart on an occupied stack** (`Threads.hpp:55`). `xHandle` is cleared before the task
   is deleted; a caller that waits for `IsRunning()` to become false and starts the thread
   again creates a task on the stack that the old one is still using.
5. **A trigger level that is never reached** (`StreamBuffer.hpp:37`). The static buffer is given
   `BufferSize` bytes and holds one less, although `ucStorage` has one more. A trigger level of
   `BufferSize`, which the `static_assert` admits, is never reached: a reader and a writer with
   infinite timeouts wait for each other.

## 4. Proofs

All theorems hold for every value of the constants allowed by the named assumptions, and
are checked by TLAPS without further assumptions.

**`SafeRingBufferProofs`: `TypeCorrect`, `ResetWhenUnused`** (assumption: Capacity is a positive
number, `Default` a value). The inductive invariant is `RingInv == TypeOK /\ UnusedSlotsReset`.
Neither half suffices: resetting a slot at the end says something about the slot that an
operation extends into next only if the window is a window. The arithmetic is done once:
`PhysValue` gives `(head + i) % Capacity` without `%`, `PhysInjective` says that two logical
indices never share a slot, and each helper has a lemma `...At` that says what it leaves at
every logical index. Everything above works on logical indices only.

**`SafeRingBufferRefinement`: `RingImplementsDeque`**. On `RingInv` every action of the ring is
the action of the same name of `Deque` on `Window(ring)`; for insert and remove this holds for
both halves, and for the index that is clamped after the eviction.

**`RingBufferAccessProofs`: `MembersStayLegal`, `SectionsExclude`, `NothingIsLost`,
`AccessImplementsAtomicBuffer`, `AccessImplementsDeque`** (all but the first
assume `Protected`: two callers that may meet share a core or both take the lock). Every
store a body can make is one to a slot of the array, whatever it read at its start, so the
members stay legal even where sections do not exclude each other. `Exclusive` alone is not
inductive: it must be known that the lock names the caller inside (`LockNamesHolder`), and that
a core has one caller past its masking (`OnePerCore`). For `NothingLost` a remaining list of
stores `Settles` the count: its last store to `count` leaves what the section found at its
start, plus the gain its caller is told of. The work is in the bodies, whose lists of
stores have a loop in the middle; `Settles` looks at the end of a list only, so that no
induction over a loop is needed.

For the refinement, `Leads(b, o, s, c, q)` says that the stores `s` take the members and the output from
`b` and `o` to `c` and `q`. That is not a recursion but a pair of witnesses: functions that give the
members and the output after each store, so that a loop is proved by naming what it has done after each
turn (`ShiftDown` up to here, `Handed` so far, `Clearing` a third of a turn further) and checking one turn.
The `...Reaches` lemmas do this for each operation; the invariant `Promise` says that what a
body has left to store leads to the outcome of one operation on `before`. Leaving a section, with
nothing left, is then an action of `SafeRingBuffer`, and no other step shows. With
`RingImplementsDeque` the whole chain down to `Deque` holds (`AccessImplementsDeque`).
`ring_esp32` is what remains when `Protected` does not hold.

**`LockGuardsProofs`: `TypeCorrect`, `OwnsLockTrue`, `TakenOncePerGuard`** (assumption
`GuardAssumption`: the two kinds of mutexes are disjoint). The inductive invariant `GuardInv` adds
three things to what is proved: a guard has a mutex of its class's kind, with a handle if it is
locked (`Good`); a task waits on a guard that it has and that is not locked (`WaitsUnlocked`);
a mutex is free when it is taken zero times (`FreeWhenUntaken`). Without the first, a
`RecursiveUniqueLock` that says it is locked could wait for a plain mutex in a second `lock()`;
without the last, a give could go below zero. The proof meets in the sets `Locked(gs, m)`: the `LockedBy...` lemmas say what a step
does to them, `AcquireAgrees`, `GiveAgrees` and `SameAgrees` what a take, a give or neither may do
without breaking the agreement with `holder` and `depth`. `ReleasedOutOfScope` is not a theorem:
it fails (finding 2).

**`PortsProofs`: `PortsImplementGuards`, `PortTypeCorrect`, `NeverMixed`, `ReadsWhole`** (assumptions:
`GuardAssumption`, and `PortAssumption`: the mutexes are those of the three ports). Every step of
`Ports` is a step of `LockGuards` or leaves its variables alone, so `PortSpec => Spec`, and
`GuardInv` comes for free.
`TransactionsUnderLock` is not inductive: nothing in it says that a method which has opened a
transaction ends it before its guard goes. The invariant `PortInv` adds that an open
transaction is answered for by a locked guard of its task whose method has a closing step
left, or by a `Locked` (`BusAnswered`), and that every list of steps that claims a port
later lets it go (`Sound`). That the guard is locked gives the holder by `OwnsLockIsTrue`.
`ReadsAreWhole` needs `ReadInv` on top: a frame in the middle of reading has counted the bytes
that its plan no longer has, and the receive buffer holds, for its task, as many as it still has to read.
That nobody else's request comes between is `NeverMixed` again, for two frames of one port
whose guards are both locked.

**`ThreadsProofs`: `ThreadTypeCorrect`, `HandleIsLive`, `RunningIsReported`, `StackIsExclusive`**. The
first holds as it stands. The others fail in general, as `threads_late_store` and `threads_restart`
show, and are proved where the code is used as it can be: one caller
starts the thread (`OneStarter`), and a thread whose `Run()` returns is not used through its
handle by others, does not run before its creator has stored the handle, and, if it is static, is
started again only when the kernel has let go of its task (`Ordered`, of each
build; it says nothing of a thread that never returns). `Sound` is both. The invariant `ThreadInv`: a task,
from its creation until it clears `xHandle`, is the one that `xHandle` names, or the one whose
handle `operator()` is about to store (`Named`); there is at most one, so that the task that
clears `xHandle` clears its own entry, and what it has saved for `vTaskDelete` is itself (`Ending`).
That no block is overwritten is part of it: what the idle task unlinks is otherwise any task.
`HandlesAreGood` is `NoStaleHandle` under the same conditions: a handle that was tested for null, after a
failed creation too, is still the thread's when it is used (`Using`). It says nothing of a one-shot
thread that others destroy or notify, which `Sound` excludes (section 5).

**`SoftwareTimersProofs`: `TimerTypeCorrect`, `LastCallDecides`, `CreationIsSafe`, `StopIsSilent`,
`DestructionIsComplete`** (assumption `OneStarter`: one task starts the timer; on_timer() may
restart it, for any queue length, callers, interrupts and timeouts). Two tasks that both find
no handle would both initialise `xBuffer`. The invariant `TimerInv`: what is left of a call is a
suffix of what the method posts (`Orderly`); while there is no handle the kernel knows nothing of the timer
and its creation is under way at most once (`Handled`); the daemon makes calls only in
its callback; and after `stop()` nothing in the queue starts the timer, and a stop is on its way
if it is still active (`Quiet`). Whether the timer *will* run is a matter of the last command
of this timer in the queue: `AppendDecides` and `HeadIsDecided` say what posting a command and carrying
one out do to it, and `LastCallWins` is inductive with them.

**`SignalsProofs`: `SignalsTypeCorrect`, `HighestPriorityRuns`, `WakeUpsAreKept`** (assumptions on
the constants only: `SchedulerAssumption`, `QueueAssumption`, `GroupAssumption`,
`StreamAssumption`, `ObjectAssumption`; `WakeUpsAreKept` also that no queue is reset under two
senders, `~CrowdedReset`), **`PatienceIsKept`** (the same, without that), **`ArrivalsAreCounted`,
`NobodyIsStranded`** (each with a hypothesis of its own). `HighestRuns` speaks of the states outside interrupts, and
is not inductive because an interrupt wakes tasks first and switches later: `Dispatched` says
that the core is with one of the highest unless a switch is on its way, by the caller's flag or
by the method's own yield. `NobodyForgotten` is inductive only with the calls known to be ones
the program makes (`CallsOK`), and has a reason per class: an item left in a
queue has a receiver on its way, for each item one, and a free place a sender, which is an argument about
cardinalities (`Spoken`, once for both sides); whoever sets bits wakes all whose condition holds; a writer waits
for more than there is room for. In a message buffer the bytes in use are those of the
messages with their headers (`Framing`, a function that gives the bytes after each message,
because a sum over a sequence would be an induction).

* `PatienceIsKept` is a property of steps: it names the exceptions, a null handle, a send that
  never fits (a message longer than the buffer, or anything into a static `StreamBuffer<1>`, whose
  capacity is 0) and a receive of a stream or message buffer. No other call with an infinite
  timeout comes back empty-handed.
* `ArrivalsAreCounted` assumes `OneRendezvous`: the `sync()` calls of one task wait for the same bits
  (different tasks may differ). A bit that one of its meetings leaves out may be older than its last one.
* `NobodyIsStranded` assumes `Fits`: what is sent fits in while the level is below the trigger,
  which holds for the default trigger level of 1 with any size and any lengths.
  `stream_level` is a shape where it does not hold.

Only model-checked: liveness, `FinishedIsReported` and `CallsReturn` (the prover does not do fairness
or ENABLED). Every other property of a passing run is a theorem. `NobodyStranded` and
`OneTaskPerStack` are theorems under their hypotheses and violated without them.
No module uses a RECURSIVE operator, and no theorem depends on induction over data.

## 5. Not modelled, and the plan

Not modelled: a `for_each` callback that re-enters the buffer (the header forbids it);
two concurrent callers of one thread's `operator()`; destroying a
mutex under its guards, or any other object in use; deleting a thread inside a guard.

Contained in the modules, but excluded from the passing runs and by hypotheses of the theorems, because the
code does nothing against them and leaves them to its user:

* a one-shot thread that ends between the destructor's test of `xHandle` and its `vTaskDelete`
  (`Threads.hpp:69-71`), which is then given the handle of a deleted task, or null, which is the
  task that destroys the thread; and one that ends before a notification reaches it. With a build that is `OneShot`
  and `Shared` `NoStaleHandle` fails.
* `reset()` of a queue under two blocked senders (`SafeQueues.hpp:89`): every place is free, one
  sender is woken, and when it has sent, the other waits beside a free place until somebody receives.
  With `CrowdedReset` set `SendersKeepMoving` fails.

`DestroyDerived` records that derived members
go before the task does, but no property rules it out: the code leaves that to its user.

Data: items of queues and bytes of buffers are counted, not told apart, so the FIFO order of
the kernel's queues is not a subject, nor is a `receive_value` that takes a message of
another type for its own. Time: timeouts end at any moment, and the 32-bit arithmetic of
`uptime_ms` and `get_period_ms` is not modelled. Queries (`messages_waiting`, `get_count`, `get`,
`is_empty`, ...) change nothing; those without a null test rely on the kernel's. `begin()` of
SafeWire and SafeSPI takes no lock and is taken to run before the tasks do. The
ATmega328P, whose `portYIELD_FROM_ISR` (`FreeRTOS_Base.h:69`) switches at once, in the
middle of the interrupt, is not modelled in `Signals`. The examples and the umbrella header hold no state of their own.

What is left of the plan, in this order:

1. `Ticks`: 8-, 16- and 32-bit time arithmetic of `uptime_ms`, `get_period_ms` and the
   timeouts, against the ideal conversion.
2. Threads that end or are deleted inside a guard (`Threads` with `LockGuards`).
