----------------------------- MODULE LockGuards -----------------------------
(***************************************************************************)
(* The RAII guards of LGuards.cpp over the mutexes of Mutex.cpp.           *)
(*                                                                         *)
(* Every task keeps its guards as C++ does, on a stack: a guard is         *)
(* constructed last and destroyed first.  A guard is two members, the      *)
(* mutex it refers to and is_locked, and the whole question is whether     *)
(* is_locked tells the truth about the kernel's mutex, whose holder and    *)
(* recursion depth are modelled from the FreeRTOS calls the guards make.   *)
(*                                                                         *)
(* A take either succeeds at once, or fails at once (a timeout of zero     *)
(* ticks, which is also what a timeout shorter than a tick becomes), or    *)
(* blocks the task until the mutex is granted or a finite timeout ends.    *)
(* The mutexes outlive the guards.                                         *)
(***************************************************************************)
EXTENDS Integers, Sequences, FiniteSets

CONSTANTS Task,
          Mutex,           (* objects of class Mutex                         *)
          RecursiveMutex,  (* objects of class RecursiveMutex                *)
          NoTask,          (* holder of a free mutex                         *)
          Kind,            (* the guard classes the program uses             *)
          Wait,            (* the timeouts it uses                           *)
          MaxCalls         (* bound: constructors and lock() calls per task  *)

AnyMutex == Mutex \cup RecursiveMutex

PlainKind == {"LockGuard", "UniqueLock"}
RecursiveKind == {"RecursiveLockGuard", "RecursiveUniqueLock"}
UniqueKind == {"UniqueLock", "RecursiveUniqueLock"}

ASSUME GuardAssumption ==
    /\ NoTask \notin Task
    /\ Mutex \cap RecursiveMutex = {}
    /\ Kind \subseteq PlainKind \cup RecursiveKind
    /\ Wait \subseteq {"none", "finite", "forever"}
    /\ MaxCalls \in Nat

VARIABLES exists,          (* the mutexes whose creation gave a handle       *)
          holder,          (* the task that has a mutex, or NoTask           *)
          depth,           (* how often its holder has taken it              *)
          guards,          (* the guards of each task, innermost last        *)
          blocked,         (* the guard and timeout a task is blocked on     *)
          calls            (* constructors and lock() calls so far           *)

vars == <<exists, holder, depth, guards, blocked, calls>>

Guard == [kind : Kind, mutex : AnyMutex, is_locked : BOOLEAN]

Running == [guard |-> 0, wait |-> "none"]

Runs(t) == blocked[t] = Running

MutexOf(kind) == IF kind \in PlainKind THEN Mutex ELSE RecursiveMutex

-----------------------------------------------------------------------------
(* FreeRTOS: xSemaphoreTake, xSemaphoreTakeRecursive and the gives.        *)

Available(t, m) == holder[m] = NoTask \/ (m \in RecursiveMutex /\ holder[m] = t)

Acquire(t, m) ==
    /\ holder' = [holder EXCEPT ![m] = t]
    /\ depth' = [depth EXCEPT ![m] = @ + 1]

(* Mutant: a recursive mutex is given whole too.                           *)
GiveWhole(m) ==
    /\ holder' = [holder EXCEPT ![m] = NoTask]
    /\ depth' = [depth EXCEPT ![m] = 0]

(* A plain mutex is given whole, a recursive one a level at a time.        *)
Give(m) ==
    /\ holder' = [holder EXCEPT ![m] = IF depth[m] = 1 THEN NoTask ELSE @]
    /\ depth' = [depth EXCEPT ![m] = @ - 1]

WithLocked(gs, i, locked) == [gs EXCEPT ![i].is_locked = locked]

(* is_locked = (take(...) == pdTRUE) for the i-th guard of t, whose guards *)
(* are gs.                                                                 *)
Take(t, gs, i, wait) ==
    LET m == gs[i].mutex
    IN  \/ /\ Available(t, m)
           /\ Acquire(t, m)
           /\ guards' = [guards EXCEPT ![t] = WithLocked(gs, i, TRUE)]
           /\ UNCHANGED blocked
        \/ /\ ~Available(t, m)
           /\ wait = "none"
           /\ guards' = [guards EXCEPT ![t] = WithLocked(gs, i, FALSE)]
           /\ UNCHANGED <<holder, depth, blocked>>
        \/ /\ ~Available(t, m)
           /\ wait # "none"
           /\ guards' = [guards EXCEPT ![t] = gs]
           /\ blocked' = [blocked EXCEPT ![t] = [guard |-> i, wait |-> wait]]
           /\ UNCHANGED <<holder, depth>>

Call(t) ==
    /\ Runs(t)
    /\ calls[t] < MaxCalls
    /\ calls' = [calls EXCEPT ![t] = @ + 1]

-----------------------------------------------------------------------------
(* A constructor that takes.  A null handle leaves the guard unlocked.     *)
Construct(t, kind, m, wait) ==
    LET gs == Append(guards[t], [kind |-> kind, mutex |-> m, is_locked |-> FALSE])
    IN  /\ Call(t)
        /\ \/ m \in exists /\ Take(t, gs, Len(gs), wait)
           \/ /\ m \notin exists
              /\ guards' = [guards EXCEPT ![t] = gs]
              /\ UNCHANGED <<holder, depth, blocked>>
        /\ UNCHANGED exists

(* A constructor with defer_lock.                                          *)
Defer(t, kind, m) ==
    /\ Call(t)
    /\ kind \in UniqueKind
    /\ guards' = [guards EXCEPT ![t] =
                    Append(@, [kind |-> kind, mutex |-> m, is_locked |-> FALSE])]
    /\ UNCHANGED <<exists, holder, depth, blocked>>

(* Mutant: UniqueLock::lock takes without looking at is_locked.            *)
TakesAlways(g) == g.mutex \in exists

(* UniqueLock::lock takes only if it is not locked; RecursiveUniqueLock::  *)
(* lock takes again, and is_locked remembers one of the takes.             *)
TakesOnLock(g) ==
    /\ g.mutex \in exists
    /\ g.kind = "UniqueLock" => ~g.is_locked

lock(t, i, wait) ==
    /\ Call(t)
    /\ guards[t][i].kind \in UniqueKind
    /\ \/ TakesOnLock(guards[t][i]) /\ Take(t, guards[t], i, wait)
       \/ ~TakesOnLock(guards[t][i]) /\ UNCHANGED <<holder, depth, guards, blocked>>
    /\ UNCHANGED exists

unlock(t, i) ==
    LET g == guards[t][i]
    IN  /\ Runs(t)
        /\ g.kind \in UniqueKind
        /\ g.mutex \in exists
        /\ g.is_locked
        /\ Give(g.mutex)
        /\ guards' = [guards EXCEPT ![t] = WithLocked(@, i, FALSE)]
        /\ UNCHANGED <<exists, blocked, calls>>

(* Mutant: the destructor gives whatever is_locked says.                   *)
GivesAlways(g) == g.mutex \in exists

GivesOnDestroy(g) == g.mutex \in exists /\ g.is_locked

(* The innermost guard goes out of scope.                                  *)
Destroy(t) ==
    LET gs == guards[t]
        g == gs[Len(gs)]
    IN  /\ Runs(t)
        /\ gs # <<>>
        /\ \/ GivesOnDestroy(g) /\ Give(g.mutex)
           \/ ~GivesOnDestroy(g) /\ UNCHANGED <<holder, depth>>
        /\ guards' = [guards EXCEPT ![t] = SubSeq(gs, 1, Len(gs) - 1)]
        /\ UNCHANGED <<exists, blocked, calls>>

(* The kernel hands a mutex to one of the tasks blocked on it.             *)
Grant(t) ==
    LET i == blocked[t].guard
        m == guards[t][i].mutex
    IN  /\ ~Runs(t)
        /\ Available(t, m)
        /\ Acquire(t, m)
        /\ guards' = [guards EXCEPT ![t] = WithLocked(@, i, TRUE)]
        /\ blocked' = [blocked EXCEPT ![t] = Running]
        /\ UNCHANGED <<exists, calls>>

(* A finite timeout ends: the take returns pdFALSE.                        *)
Timeout(t) ==
    LET i == blocked[t].guard
    IN  /\ blocked[t].wait = "finite"
        /\ guards' = [guards EXCEPT ![t] = WithLocked(@, i, FALSE)]
        /\ blocked' = [blocked EXCEPT ![t] = Running]
        /\ UNCHANGED <<exists, holder, depth, calls>>

-----------------------------------------------------------------------------
Init ==
    /\ exists \in SUBSET AnyMutex
    /\ holder = [m \in AnyMutex |-> NoTask]
    /\ depth = [m \in AnyMutex |-> 0]
    /\ guards = [t \in Task |-> <<>>]
    /\ blocked = [t \in Task |-> Running]
    /\ calls = [t \in Task |-> 0]

TaskStep(t) ==
    \/ \E kind \in Kind : \E m \in MutexOf(kind) :
          \/ \E wait \in Wait : Construct(t, kind, m, wait)
          \/ Defer(t, kind, m)
    \/ \E i \in DOMAIN guards[t] : unlock(t, i) \/ \E wait \in Wait : lock(t, i, wait)
    \/ Destroy(t)
    \/ Grant(t)
    \/ Timeout(t)

Next == \E t \in Task : TaskStep(t)

Spec == Init /\ [][Next]_vars

-----------------------------------------------------------------------------
(* The guards on m that say they are locked.                               *)
Locked(gs, m) == {i \in DOMAIN gs : gs[i].mutex = m /\ gs[i].is_locked}

LockedOn(t, m) == Locked(guards[t], m)

TypeOK ==
    /\ exists \subseteq AnyMutex
    /\ holder \in [AnyMutex -> Task \cup {NoTask}]
    /\ depth \in [AnyMutex -> Nat]
    /\ guards \in [Task -> Seq(Guard)]
    /\ blocked \in [Task -> [guard : Nat, wait : {"none", "finite", "forever"}]]
    /\ calls \in [Task -> 0 .. MaxCalls]

(* owns_lock() never lies: a guard that says it is locked is a guard of    *)
(* the task that has the mutex, whatever other guards on the same mutex    *)
(* that task has destroyed or unlocked, and whatever timed out.            *)
OwnsLockIsTrue ==
    \A t \in Task, m \in AnyMutex : LockedOn(t, m) # {} => holder[m] = t

(* No release takes a mutex away from under an outer guard, and no guard   *)
(* is counted twice: the mutex is taken at least once for each guard that  *)
(* says so, and exactly once for the one guard of a plain mutex.           *)
TakenForEachGuard ==
    \A t \in Task, m \in AnyMutex :
        holder[m] = t =>
            /\ depth[m] >= Cardinality(LockedOn(t, m))
            /\ m \in Mutex => depth[m] = 1 /\ Cardinality(LockedOn(t, m)) = 1

(* Mutexes are released when the guards go out of scope (README.md:17): a  *)
(* task without guards has no mutex.                                       *)
ReleasedOutOfScope ==
    \A t \in Task, m \in AnyMutex : holder[m] = t => guards[t] # <<>>
=============================================================================
