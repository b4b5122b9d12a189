-------------------------- MODULE RingBufferAccess --------------------------
(***************************************************************************)
(* The critical sections of SafeRingBuffer taken apart: tasks and          *)
(* interrupt service routines on one or two cores run its operations one   *)
(* store to a member at a time, with exactly the protection that           *)
(* Kernel::CriticalGuard and enter_critical_from_isr give on the platform. *)
(*                                                                         *)
(* A body is a list of stores.  The members head and count are loaded at   *)
(* its first test and live in registers until the body stores them, which  *)
(* is what an optimising build does; elements are read when they are used. *)
(* Where the protection excludes everybody else that choice is invisible.  *)
(***************************************************************************)
EXTENDS Integers, Sequences

CONSTANTS Capacity, Value, Default,
          Task,          (* callers of the task-context operations           *)
          Isr,           (* callers of the _from_isr operations              *)
          CoreOf,        (* the core each of them runs on                    *)
          NoOne,         (* holder of a free lock                            *)
          IsrTakesLock   (* taskENTER_CRITICAL_FROM_ISR takes the cross-core *)
                         (* lock too (SMP kernel of the RP2040), or masks    *)
                         (* the interrupts of its own core only (ESP32)      *)

VARIABLES ring,          (* the members of the buffer                        *)
          phase,         (* where each caller is                             *)
          work,          (* the body it is in the middle of                  *)
          lock,          (* who holds the cross-core lock (esp32_kernel_mux) *)
          before,        (* history: ring as the body found it               *)
          ret,           (* history: what the last call returned             *)
          balance        (* history: elements put in less elements taken out *)

vars == <<ring, phase, work, lock, before, ret, balance>>

Process == Task \cup Isr

ASSUME BufferAssumption == Capacity \in Nat \ {0} /\ Default \in Value

ASSUME PlatformAssumption ==
    /\ Task \cap Isr = {}
    /\ DOMAIN CoreOf = Process
    /\ IsrTakesLock \in BOOLEAN
    /\ NoOne \notin Process

Inside(p) == phase[p] = "inside"

Quiet == \A p \in Process : ~Inside(p)

(* The atomic buffer, whose private helpers this module shares.  While a   *)
(* body runs nobody may see what it has stored so far.                     *)
A == INSTANCE SafeRingBuffer WITH ring <- IF Quiet THEN ring ELSE before

-----------------------------------------------------------------------------
(* Stores to the members.                                                  *)
Put(s, v)   == [kind |-> "put",   slot |-> s, value |-> v]
Copy(s, r)  == [kind |-> "copy",  slot |-> s, from |-> r]
Visit(s, f) == [kind |-> "visit", slot |-> s, rewrite |-> f]
Head_(h)    == [kind |-> "head",  value |-> h]
Count_(n)   == [kind |-> "count", value |-> n]

(* The ring after one store.                                               *)
Stored(b, st) ==
    CASE st.kind = "put"   -> [b EXCEPT !.data[st.slot] = st.value]
      [] st.kind = "copy"  -> [b EXCEPT !.data[st.slot] = b.data[st.from]]
      [] st.kind = "visit" -> [b EXCEPT !.data[st.slot] = st.rewrite[@]]
      [] st.kind = "head"  -> [b EXCEPT !.head = st.value]
      [] st.kind = "count" -> [b EXCEPT !.count = st.value]

(* A body: what it answers, what it gained, and what it still has to store.*)
Accepted(gain, todo, out) == [ok |-> TRUE, gain |-> gain, todo |-> todo, out |-> out]

Refused == [ok |-> FALSE, gain |-> 0, todo |-> <<>>, out |-> <<>>]

Last(b) == A!phys(b, b.count - 1)

(* Mutant: the wrap of head is forgotten.                                  *)
ResetFrontWithoutWrap(b) ==
    <<Put(b.head, Default), Head_(b.head + 1), Count_(b.count - 1)>>

ResetFront(b) == <<Put(b.head, Default), Head_((b.head + 1) % Capacity), Count_(b.count - 1)>>

ResetBack(b) == <<Put(Last(b), Default), Count_(b.count - 1)>>

(* make_room_unlocked, and how many elements it cost.                      *)
Evict(b, policy) ==
    CASE b.count < Capacity                      -> <<>>
      [] b.count >= Capacity /\ policy = "Front" -> ResetFront(b)
      [] b.count >= Capacity /\ policy = "Back"  -> ResetBack(b)

Lost(b) == IF b.count < Capacity THEN 0 ELSE 1

-----------------------------------------------------------------------------
(* The bodies, as functions of the members at their first test.  A loop is *)
(* the sequence of the stores of its turns.                                *)

(* Mutant: ++count is forgotten.                                           *)
push_back_uncounted(b, v, policy) ==
    LET m == A!make_room_unlocked(b, policy)
    IN  IF A!HasRoom(b, policy)
        THEN Accepted(1 - Lost(b), Evict(b, policy) \o <<Put(A!phys(m, m.count), v)>>, <<>>)
        ELSE Refused

push_back(b, v, policy) ==
    LET m == A!make_room_unlocked(b, policy)
    IN  IF A!HasRoom(b, policy)
        THEN Accepted(1 - Lost(b),
                      Evict(b, policy) \o <<Put(A!phys(m, m.count), v), Count_(m.count + 1)>>,
                      <<>>)
        ELSE Refused

push_front(b, v, policy) ==
    LET m == A!make_room_unlocked(b, policy)
        h == A!StepBack(m).head
    IN  IF A!HasRoom(b, policy)
        THEN Accepted(1 - Lost(b),
                      Evict(b, policy) \o <<Head_(h), Put(h, v), Count_(m.count + 1)>>,
                      <<>>)
        ELSE Refused

pop_back(b) ==
    IF b.count # 0 THEN Accepted(-1, ResetBack(b), <<b.data[Last(b)]>>) ELSE Refused

pop_front(b) ==
    IF b.count # 0 THEN Accepted(-1, ResetFront(b), <<b.data[b.head]>>) ELSE Refused

insert(b, i, v, policy) ==
    LET m == A!make_room_unlocked(b, policy)
        k == IF i > m.count THEN m.count ELSE i
        h == A!StepBack(m)
        down == [n \in 1 .. k |-> Copy(A!phys(h, n - 1), A!phys(h, n))]
        up == [n \in 1 .. m.count - k |->
                  Copy(A!phys(m, m.count - n + 1), A!phys(m, m.count - n))]
        shift == IF k <= m.count \div 2
                 THEN <<Head_(h.head)>> \o down \o <<Put(A!phys(h, k), v)>>
                 ELSE up \o <<Put(A!phys(m, k), v)>>
    IN  IF i <= b.count /\ A!HasRoom(b, policy)
        THEN Accepted(1 - Lost(b),
                      Evict(b, policy) \o shift \o <<Count_(m.count + 1)>>,
                      <<>>)
        ELSE Refused

remove(b, i, wanted) ==
    LET up == [n \in 1 .. i |-> Copy(A!phys(b, i - n + 1), A!phys(b, i - n))]
        down == [n \in 1 .. b.count - 1 - i |->
                    Copy(A!phys(b, i + n - 1), A!phys(b, i + n))]
        shift == IF i <= b.count \div 2
                 THEN up \o ResetFront(b)
                 ELSE down \o ResetBack(b)
    IN  IF i < b.count
        THEN Accepted(-1, shift, IF wanted THEN <<A!At(b, i)>> ELSE <<>>)
        ELSE Refused

(* Mutant: the index is used without phys().                               *)
get_raw(b, i) == IF i < b.count THEN Accepted(0, <<>>, <<b.data[i]>>) ELSE Refused

get(b, i) == IF i < b.count THEN Accepted(0, <<>>, <<A!At(b, i)>>) ELSE Refused

back(b) == IF b.count # 0 THEN Accepted(0, <<>>, <<b.data[Last(b)]>>) ELSE Refused

for_each_until(b, f, stop) ==
    LET turns == IF stop <= b.count THEN stop ELSE b.count
    IN  Accepted(0, [n \in 1 .. turns |-> Visit(A!phys(b, n - 1), f)], <<>>)

(* Three stores for each element, the last element's followed by head = 0. *)
clear(b) ==
    LET turns == [n \in 1 .. 3 * b.count |->
                     LET i == (n - 1) \div 3
                     IN  CASE n % 3 = 1 -> Put(A!phys(b, i), Default)
                           [] n % 3 = 2 -> Head_(A!phys(b, i + 1))
                           [] n % 3 = 0 -> Count_(b.count - i - 1)]
    IN  Accepted(-b.count, turns \o <<Head_(0)>>, <<>>)

(* What an interrupt service routine may call, and what a task may call.   *)
FromIsr(b) ==
    {pop_back(b), pop_front(b)}
    \cup {push_back(b, v, policy) : v \in Value, policy \in A!Policy}
    \cup {push_front(b, v, policy) : v \in Value, policy \in A!Policy}

FromTask(b) ==
    FromIsr(b)
    \cup {insert(b, i, v, policy) : i \in 0 .. Capacity, v \in Value, policy \in A!Policy}
    \cup {remove(b, i, wanted) : i \in 0 .. Capacity, wanted \in BOOLEAN}
    \cup {get(b, i) : i \in 0 .. Capacity}
    \cup {for_each_until(b, f, stop) : f \in [Value -> Value], stop \in 1 .. Capacity}
    \cup {back(b), clear(b)}

-----------------------------------------------------------------------------
(* Mutant: only tasks take the lock, as on the ESP32.                      *)
TasksTakeLock(p) == p \in Task

TakesLock(p) == p \in Task \/ IsrTakesLock

(* Interrupts are masked on a core from the moment somebody there enters a *)
(* critical section: neither an interrupt nor a context switch happens on  *)
(* that core until it has left.                                            *)
Masked(core) == \E p \in Process : CoreOf[p] = core /\ phase[p] # "outside"

Enter(p) ==
    /\ phase[p] = "outside"
    /\ ~Masked(CoreOf[p])
    /\ phase' = [phase EXCEPT ![p] = "entering"]
    /\ UNCHANGED <<ring, work, lock, before, ret, balance>>

(* The lock is taken and the body makes its first test.                    *)
Begin(p) ==
    /\ phase[p] = "entering"
    /\ TakesLock(p) => lock = NoOne
    /\ lock' = IF TakesLock(p) THEN p ELSE lock
    /\ phase' = [phase EXCEPT ![p] = "inside"]
    /\ \E w \in IF p \in Task THEN FromTask(ring) ELSE FromIsr(ring) :
          work' = [work EXCEPT ![p] = w]
    /\ before' = ring
    /\ UNCHANGED <<ring, ret, balance>>

Step(p) ==
    /\ Inside(p)
    /\ work[p].todo # <<>>
    /\ LET st == Head(work[p].todo)
       IN  /\ ring' = Stored(ring, st)
           /\ work' = [work EXCEPT
                ![p].todo = Tail(@),
                ![p].out = IF st.kind = "visit" THEN Append(@, ring.data[st.slot]) ELSE @]
    /\ UNCHANGED <<phase, lock, before, ret, balance>>

(* The guard goes out of scope, or exit_critical_from_isr restores.        *)
Exit(p) ==
    /\ Inside(p)
    /\ work[p].todo = <<>>
    /\ lock' = IF TakesLock(p) THEN NoOne ELSE lock
    /\ phase' = [phase EXCEPT ![p] = "outside"]
    /\ work' = [work EXCEPT ![p] = Refused]
    /\ ret' = [ok |-> work[p].ok, out |-> work[p].out]
    /\ balance' = balance + work[p].gain
    /\ UNCHANGED <<ring, before>>

Init ==
    /\ ring = [data |-> [s \in A!Slot |-> Default], head |-> 0, count |-> 0]
    /\ phase = [p \in Process |-> "outside"]
    /\ work = [p \in Process |-> Refused]
    /\ lock = NoOne
    /\ before = ring
    /\ ret = [ok |-> FALSE, out |-> <<>>]
    /\ balance = 0

Next == \E p \in Process : Enter(p) \/ Begin(p) \/ Step(p) \/ Exit(p)

Spec == Init /\ [][Next]_vars

-----------------------------------------------------------------------------
Store == [kind : {"put"}, slot : A!Slot, value : Value]
         \cup [kind : {"copy"}, slot : A!Slot, from : A!Slot]
         \cup [kind : {"visit"}, slot : A!Slot, rewrite : [Value -> Value]]
         \cup [kind : {"head"}, value : A!Slot]
         \cup [kind : {"count"}, value : 0 .. Capacity]

Body == [ok : BOOLEAN, gain : -Capacity .. 1, out : Seq(Value), todo : Seq(Store)]

(* Half-way through a body the members are already a legal ring: a store   *)
(* never goes outside the array, not even in the middle of a loop.         *)
TypeOK ==
    /\ ring \in A!Ring
    /\ before \in A!Ring
    /\ phase \in [Process -> {"outside", "entering", "inside"}]
    /\ work \in [Process -> Body]
    /\ lock \in Process \cup {NoOne}
    /\ ret \in [ok : BOOLEAN, out : Seq(Value)]
    /\ balance \in Int

(* Nobody is in the middle of an operation while somebody else is.         *)
Exclusive == \A p, q \in Process : Inside(p) /\ Inside(q) => p = q

(* What the platform must give for that: two callers that may be in the    *)
(* buffer share a core, whose interrupts are masked, or both take the lock.*)
Protected ==
    \A p, q \in Process : CoreOf[p] = CoreOf[q] \/ (TakesLock(p) /\ TakesLock(q))

(* Seen from outside a critical section every operation happens at once:   *)
(* whatever tasks and interrupts do on any core, they find the buffer as   *)
(* some sequence of whole operations left it and are told what that        *)
(* sequence tells them.                                                    *)
ImplementsAtomicBuffer == A!Spec

(* size() is the number of elements that were accepted less the number     *)
(* that were taken out or evicted ("Thread-safe (and ISR-safe) circular    *)
(* buffer / deque", SafeRingBuffer.hpp:23).                                *)
NothingLost == Quiet => ring.count = balance
=============================================================================
