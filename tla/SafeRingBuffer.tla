--------------------------- MODULE SafeRingBuffer ---------------------------
(***************************************************************************)
(* fcjj::SafeRingBuffer<T, Capacity> (src/SafeRingBuffer.hpp): a circular  *)
(* buffer in an array that is never constructed into or destroyed, only    *)
(* assigned.  Each operation is one action, because each one runs inside   *)
(* one critical section from its first test to its last assignment; the    *)
(* module RingBufferAccess takes that critical section apart.              *)
(*                                                                         *)
(* The three members form one record, and a private helper that changes    *)
(* them is an operator from record to record, so an action composes the    *)
(* same helpers in the same order as the method it stands for.  size_t     *)
(* cannot wrap: an array of Capacity elements takes less than half of the  *)
(* address space, and no intermediate value reaches 2 * Capacity.          *)
(***************************************************************************)
EXTENDS Integers, Sequences

CONSTANTS Capacity,  (* the template argument                         *)
          Value,     (* the values of T                               *)
          Default    (* T{}, a value a caller may store like another  *)

ASSUME CapacityAssumption == Capacity \in Nat \ {0}

ASSUME DefaultAssumption == Default \in Value

VARIABLES ring,      (* the members data, head and count              *)
          ret        (* what the last operation gave its caller       *)

vars == <<ring, ret>>

Slot == 0 .. Capacity - 1

Ring == [data : [Slot -> Value], head : Slot, count : 0 .. Capacity]

Policy == {"None", "Front", "Back"}

-----------------------------------------------------------------------------
(* The private helpers.                                                    *)

phys(b, i) == (b.head + i) % Capacity

(* The element at logical index i.                                         *)
At(b, i) == b.data[phys(b, i)]

(* The logical index a slot has, the inverse of phys.                      *)
logical(b, s) == (s + Capacity - b.head) % Capacity

(* The single assignments: an element, head moved back, count moved.       *)
Store(b, i, v) == [b EXCEPT !.data[phys(b, i)] = v]

StepBack(b) == [b EXCEPT !.head = (@ + Capacity - 1) % Capacity]

Grown(b) == [b EXCEPT !.count = @ + 1]

Shrunk(b) == [b EXCEPT !.count = @ - 1]

(* Mutants: the wrap of head is forgotten; the popped slot is not reset.   *)
reset_front_without_wrap(b) ==
    [data  |-> [b.data EXCEPT ![b.head] = Default],
     head  |-> b.head + 1,
     count |-> b.count - 1]

reset_front_keeping_element(b) ==
    [data  |-> b.data,
     head  |-> (b.head + 1) % Capacity,
     count |-> b.count - 1]

reset_front_unlocked(b) ==
    [data  |-> [b.data EXCEPT ![b.head] = Default],
     head  |-> (b.head + 1) % Capacity,
     count |-> b.count - 1]

reset_back_unlocked(b) == Shrunk(Store(b, b.count - 1, Default))

(* make_room_unlocked returns HasRoom and leaves the buffer as follows.    *)
HasRoom(b, policy) == b.count < Capacity \/ policy # "None"

make_room_unlocked(b, policy) ==
    CASE b.count < Capacity                      -> b
      [] b.count >= Capacity /\ policy = "Front" -> reset_front_unlocked(b)
      [] b.count >= Capacity /\ policy = "Back"  -> reset_back_unlocked(b)

(* The buffer with f[i] at each logical index i.                           *)
WithElements(b, f) ==
    [b EXCEPT !.data = [s \in Slot |-> f[logical(b, s)]]]

(* The loops that close or open a gap.  ShiftDown copies every element of  *)
(* lo+1..hi one place towards the front, in ascending order; ShiftUp every *)
(* element of lo..hi-1 one place towards the back, in descending order.    *)
ShiftDown(b, lo, hi) ==
    WithElements(b, [i \in Slot |->
        IF i \in lo .. hi - 1 THEN At(b, i + 1) ELSE At(b, i)])

ShiftUp(b, lo, hi) ==
    WithElements(b, [i \in Slot |->
        IF i \in lo + 1 .. hi THEN At(b, i - 1) ELSE At(b, i)])

-----------------------------------------------------------------------------
Return(b, out) ==
    /\ ring' = b
    /\ ret' = [ok |-> TRUE, out |-> out]

ReturnFalse ==
    /\ ret' = [ok |-> FALSE, out |-> <<>>]
    /\ UNCHANGED ring

push_back(v, policy) ==
    \/ /\ HasRoom(ring, policy)
       /\ LET b == make_room_unlocked(ring, policy)
          IN  Return(Grown(Store(b, b.count, v)), <<>>)
    \/ ~HasRoom(ring, policy) /\ ReturnFalse

push_front(v, policy) ==
    \/ /\ HasRoom(ring, policy)
       /\ LET b == StepBack(make_room_unlocked(ring, policy))
          IN  Return(Grown(Store(b, 0, v)), <<>>)
    \/ ~HasRoom(ring, policy) /\ ReturnFalse

pop_back ==
    \/ /\ ring.count # 0
       /\ Return(reset_back_unlocked(ring), <<At(ring, ring.count - 1)>>)
    \/ ring.count = 0 /\ ReturnFalse

pop_front ==
    \/ /\ ring.count # 0
       /\ Return(reset_front_unlocked(ring), <<ring.data[ring.head]>>)
    \/ ring.count = 0 /\ ReturnFalse

(* Elements move on the side of the gap that holds fewer of them.          *)
InsertInFrontHalf(b, i, v) == Grown(Store(ShiftDown(StepBack(b), 0, i), i, v))

InsertInBackHalf(b, i, v) == Grown(Store(ShiftUp(b, i, b.count), i, v))

(* Mutant: the index is not clamped after an eviction.                     *)
insert_without_clamp(i, v, policy) ==
    \/ /\ i <= ring.count
       /\ HasRoom(ring, policy)
       /\ LET b == make_room_unlocked(ring, policy)
          IN  Return(IF i <= b.count \div 2
                     THEN InsertInFrontHalf(b, i, v)
                     ELSE InsertInBackHalf(b, i, v), <<>>)
    \/ (i > ring.count \/ ~HasRoom(ring, policy)) /\ ReturnFalse

insert(i, v, policy) ==
    \/ /\ i <= ring.count
       /\ HasRoom(ring, policy)
       /\ LET b == make_room_unlocked(ring, policy)
              k == IF i > b.count THEN b.count ELSE i
          IN  Return(IF k <= b.count \div 2
                     THEN InsertInFrontHalf(b, k, v)
                     ELSE InsertInBackHalf(b, k, v), <<>>)
    \/ (i > ring.count \/ ~HasRoom(ring, policy)) /\ ReturnFalse

RemoveInFrontHalf(b, i) == reset_front_unlocked(ShiftUp(b, 0, i))

RemoveInBackHalf(b, i) == reset_back_unlocked(ShiftDown(b, i, b.count - 1))

remove(i, wanted) ==
    \/ /\ i < ring.count
       /\ Return(IF i <= ring.count \div 2
                 THEN RemoveInFrontHalf(ring, i)
                 ELSE RemoveInBackHalf(ring, i),
                 IF wanted THEN <<At(ring, i)>> ELSE <<>>)
    \/ i >= ring.count /\ ReturnFalse

(* get, and front, which is get(0).                                        *)
get(i) ==
    \/ i < ring.count /\ Return(ring, <<At(ring, i)>>)
    \/ i >= ring.count /\ ReturnFalse

back ==
    \/ /\ ring.count # 0
       /\ Return(ring, <<At(ring, ring.count - 1)>>)
    \/ ring.count = 0 /\ ReturnFalse

(* for_each and for_each_until, const or not: the callback is a function f *)
(* on values that answers false at its stop-th call.  A const traversal is *)
(* f the identity, and for_each is stop = Capacity.                        *)
for_each_until(f, stop) ==
    LET seen == IF stop <= ring.count THEN stop ELSE ring.count
    IN  Return(WithElements(ring, [i \in Slot |->
                    IF i < seen THEN f[At(ring, i)] ELSE At(ring, i)]),
               [n \in 1 .. seen |-> At(ring, n - 1)])

(* Elements are reset from the front until none is left, then head moves.  *)
clear ==
    LET b == WithElements(ring, [i \in Slot |->
                 IF i < ring.count THEN Default ELSE At(ring, i)])
    IN  Return([data |-> b.data, head |-> 0, count |-> 0], <<>>)

-----------------------------------------------------------------------------
Init ==
    /\ ring = [data |-> [s \in Slot |-> Default], head |-> 0, count |-> 0]
    /\ ret = [ok |-> FALSE, out |-> <<>>]

(* Indices beyond the last valid one are enumerated one past the end.      *)
Next ==
    \/ \E v \in Value, policy \in Policy :
          \/ push_back(v, policy)
          \/ push_front(v, policy)
          \/ \E i \in 0 .. Capacity + 1 : insert(i, v, policy)
    \/ pop_back
    \/ pop_front
    \/ \E i \in 0 .. Capacity, wanted \in BOOLEAN : remove(i, wanted)
    \/ \E i \in 0 .. Capacity : get(i)
    \/ back
    \/ \E f \in [Value -> Value], stop \in 1 .. Capacity :
          for_each_until(f, stop)
    \/ clear

Spec == Init /\ [][Next]_vars

-----------------------------------------------------------------------------
TypeOK ==
    /\ ring \in Ring
    /\ ret \in [ok : BOOLEAN, out : Seq(Value)]

(* Every slot outside the window head .. head+count-1 holds T{}: whatever  *)
(* sequence of pushes, evictions, shifts and removals came before, an      *)
(* element that left the buffer is not kept alive in a slot nobody can     *)
(* reach ("Resets every element back to T{}", SafeRingBuffer.hpp:344).     *)
Clean(b) == \A i \in Slot : i >= b.count => At(b, i) = Default

UnusedSlotsReset == Clean(ring)

(* The elements as a caller sees them, front first.                        *)
Window(b) == [n \in 1 .. b.count |-> At(b, n - 1)]

D == INSTANCE Deque WITH items <- Window(ring)

(* Whatever wrapping, shifting direction or eviction an operation uses,    *)
(* its callers see the bounded deque of module Deque, in contents and in   *)
(* results.                                                                *)
ImplementsDeque == D!Spec
=============================================================================
