------------------------ MODULE SafeRingBufferProofs ------------------------
(***************************************************************************)
(* Type correctness and UnusedSlotsReset of SafeRingBuffer, for every      *)
(* capacity and element type.                                              *)
(*                                                                         *)
(* The proofs speak of logical indices: a lemma for each private helper    *)
(* says what it leaves at every logical index, and two predicates,         *)
(* HasInserted and HasRemoved, say what a whole operation leaves there,    *)
(* whichever half of the buffer it shifted.                                *)
(***************************************************************************)
EXTENDS SafeRingBuffer, SequenceTheorems, TLAPS

(* The capacity, as the arithmetic steps use it. *)
LEMMA CapacityType == Capacity \in Nat /\ Capacity > 0
  BY CapacityAssumption

(* The wrap of (head + offset) % Capacity is one comparison and one subtraction
   as long as the sum stays below twice the capacity. *)
LEMMA ModWrap ==
    ASSUME NEW x \in Nat, x < 2 * Capacity
    PROVE  x % Capacity = IF x < Capacity THEN x ELSE x - Capacity
<1>1. CASE x < Capacity
    BY <1>1, CapacityType
<1>2. CASE x >= Capacity
    BY <1>2, CapacityType
<1>3. QED
    BY <1>1, <1>2, CapacityType

(* phys maps a logical index to a slot, and logical takes it back. *)
LEMMA PhysValue ==
    ASSUME NEW b \in Ring, NEW i \in Slot
    PROVE  /\ phys(b, i) = IF b.head + i < Capacity THEN b.head + i
                                                    ELSE b.head + i - Capacity
           /\ phys(b, i) \in Slot
           /\ logical(b, phys(b, i)) = i
<1> DEFINE y == b.head + i
           p == phys(b, i)
           z == p + Capacity - b.head
<1>1. b.head \in Slot /\ b.head \in Nat /\ i \in Nat /\ b.head < Capacity /\ i < Capacity
    BY CapacityType DEF Ring, Slot
<1>2. y \in Nat /\ y < 2 * Capacity
    BY <1>1, CapacityType
<1>3. y % Capacity = IF y < Capacity THEN y ELSE y - Capacity
    <2> HIDE DEF y
    <2> QED BY <1>2, ModWrap
<1>4. p = IF y < Capacity THEN y ELSE y - Capacity
    BY <1>3 DEF phys
<1>5. p \in Slot
    BY <1>1, <1>4, CapacityType DEF Slot
<1>6. z \in Nat /\ z < 2 * Capacity /\ (z = i \/ z = i + Capacity)
    <2> HIDE DEF p
    <2> QED BY <1>1, <1>4, <1>5, CapacityType DEF Slot
<1>7. z % Capacity = IF z < Capacity THEN z ELSE z - Capacity
    <2> HIDE DEF z
    <2> QED BY <1>6, ModWrap
<1>8. z % Capacity = i
    <2> HIDE DEF z
    <2> QED BY <1>1, <1>6, <1>7, CapacityType
<1>9. logical(b, p) = i
    BY <1>8 DEF logical
<1>10. QED
    <2>1. phys(b, i) = IF b.head + i < Capacity THEN b.head + i
                                                ELSE b.head + i - Capacity
        BY <1>1, <1>4, CapacityType
    <2>2. QED
        BY <2>1, <1>5, <1>9

(* logical maps a slot to a logical index, and phys takes it back. *)
LEMMA LogicalValue ==
    ASSUME NEW b \in Ring, NEW s \in Slot
    PROVE  /\ logical(b, s) \in Slot
           /\ phys(b, logical(b, s)) = s
<1> DEFINE x == s + Capacity - b.head
<1>1. b.head \in Slot
    BY DEF Ring
<1>2. x \in Nat /\ x < 2 * Capacity
    BY <1>1, CapacityType DEF Slot
<1>3. logical(b, s) = IF x < Capacity THEN x ELSE x - Capacity
    BY <1>2, ModWrap DEF logical
<1>4. logical(b, s) \in Slot
    BY <1>1, <1>3, CapacityType DEF Slot
<1>5. phys(b, logical(b, s)) = s
    BY <1>1, <1>3, <1>4, PhysValue, CapacityType DEF Slot
<1>6. QED
    BY <1>4, <1>5

-----------------------------------------------------------------------------
(* What each helper leaves at every logical index.                         *)

(* A ring is the record of its three members. *)
LEMMA RingType ==
    ASSUME NEW b \in Ring
    PROVE  /\ b = [data |-> b.data, head |-> b.head, count |-> b.count]
           /\ b.data \in [Slot -> Value]
           /\ b.head \in Slot
           /\ b.count \in 0 .. Capacity
BY DEF Ring

(* Every logical index below the capacity holds a value of T. *)
LEMMA AtType ==
    ASSUME NEW b \in Ring, NEW i \in Slot
    PROVE  At(b, i) \in Value
BY PhysValue, RingType DEF At

(* Two logical indices never share a slot. *)
LEMMA PhysInjective ==
    ASSUME NEW b \in Ring, NEW i \in Slot, NEW j \in Slot,
           phys(b, i) = phys(b, j)
    PROVE  i = j
BY PhysValue

(* Assigning to data[phys(k)] changes logical index k alone. *)
LEMMA StoreAt ==
    ASSUME NEW b \in Ring, NEW k \in Slot, NEW v \in Value
    PROVE  /\ Store(b, k, v) \in Ring
           /\ Store(b, k, v).count = b.count
           /\ Store(b, k, v).head = b.head
           /\ \A j \in Slot :
                 At(Store(b, k, v), j) = IF j = k THEN v ELSE At(b, j)
<1> DEFINE c == Store(b, k, v)
<1>1. /\ c.data = [b.data EXCEPT ![phys(b, k)] = v]
      /\ c.head = b.head
      /\ c.count = b.count
      /\ c \in Ring
    BY PhysValue DEF Store, Ring
<1>2. ASSUME NEW j \in Slot
      PROVE  At(c, j) = IF j = k THEN v ELSE At(b, j)
    <2>1. phys(c, j) = phys(b, j)
        BY <1>1 DEF phys
    <2>2. phys(b, j) \in Slot /\ phys(b, k) \in Slot
        BY PhysValue
    <2>3. phys(b, j) = phys(b, k) <=> j = k
        BY PhysInjective
    <2>4. QED
        BY <1>1, <2>1, <2>2, <2>3, RingType DEF At
<1>3. QED
    BY <1>1, <1>2

(* Moving head back (push_front, the front half of insert) renumbers every
   element one place up and puts the last slot at index 0. *)
LEMMA StepBackAt ==
    ASSUME NEW b \in Ring
    PROVE  /\ StepBack(b) \in Ring
           /\ StepBack(b).count = b.count
           /\ \A j \in Slot :
                 At(StepBack(b), j) =
                    IF j = 0 THEN At(b, Capacity - 1) ELSE At(b, j - 1)
<1> DEFINE c == StepBack(b)
           x == b.head + Capacity - 1
<1>1. b.head \in Nat /\ b.head < Capacity /\ Capacity \in Nat
    BY CapacityType, RingType DEF Slot
<1>2. x \in Nat /\ x < 2 * Capacity
    BY <1>1
<1>3. x % Capacity = IF x < Capacity THEN x ELSE x - Capacity
    <2> HIDE DEF x
    <2> QED BY <1>2, ModWrap
<1>4. c.head = x % Capacity /\ c.data = b.data /\ c.count = b.count
    BY RingType DEF StepBack
<1>5. c.head = IF b.head = 0 THEN Capacity - 1 ELSE b.head - 1
    <2>1. c.head = IF x < Capacity THEN x ELSE x - Capacity
        <3> HIDE DEF x, c
        <3> QED BY <1>3, <1>4
    <2>2. QED
        <3> HIDE DEF c
        <3> QED BY <1>1, <2>1
<1>6. c \in Ring
    <2>1. c.head \in Slot
        BY <1>1, <1>5 DEF Slot
    <2>2. c = [data |-> b.data, head |-> c.head, count |-> b.count]
        BY RingType DEF StepBack
    <2>3. QED
        BY <2>1, <2>2, RingType DEF Ring
<1>7. ASSUME NEW j \in Slot
      PROVE  At(c, j) = IF j = 0 THEN At(b, Capacity - 1) ELSE At(b, j - 1)
    <2> HIDE DEF c
    <2>1. j \in Nat /\ j < Capacity
        BY CapacityType DEF Slot
    <2>2. phys(c, j) = IF c.head + j < Capacity THEN c.head + j
                                                ELSE c.head + j - Capacity
        BY <1>6, PhysValue
    <2>3. CASE j = 0
        <3>1. Capacity - 1 \in Slot
            BY CapacityType DEF Slot
        <3>2. phys(b, Capacity - 1) =
                IF b.head + (Capacity - 1) < Capacity
                THEN b.head + (Capacity - 1)
                ELSE b.head + (Capacity - 1) - Capacity
            BY <3>1, PhysValue
        <3>3. phys(c, j) = phys(b, Capacity - 1)
            BY <1>1, <1>5, <2>2, <2>3, <3>2
        <3>4. QED
            BY <1>4, <2>3, <3>3 DEF At
    <2>4. CASE j # 0
        <3>1. j - 1 \in Slot
            BY <2>1, <2>4, CapacityType DEF Slot
        <3>2. phys(b, j - 1) =
                IF b.head + (j - 1) < Capacity
                THEN b.head + (j - 1)
                ELSE b.head + (j - 1) - Capacity
            BY <3>1, PhysValue
        <3>3. phys(c, j) = phys(b, j - 1)
            BY <1>1, <1>5, <2>1, <2>2, <2>4, <3>2
        <3>4. QED
            BY <1>4, <2>4, <3>3 DEF At
    <2>5. QED
        BY <2>3, <2>4
<1>8. QED
    BY <1>4, <1>6, <1>7

(* reset_front_unlocked renumbers every element one place down and leaves T{}
   at the last index. *)
LEMMA ResetFrontAt ==
    ASSUME NEW b \in Ring, b.count > 0
    PROVE  /\ reset_front_unlocked(b) \in Ring
           /\ reset_front_unlocked(b).count = b.count - 1
           /\ \A j \in Slot :
                 At(reset_front_unlocked(b), j) =
                    IF j = Capacity - 1 THEN Default ELSE At(b, j + 1)
<1> DEFINE c == reset_front_unlocked(b)
           x == b.head + 1
<1>1. /\ b.head \in Nat /\ b.head < Capacity /\ b.head \in Slot
      /\ Capacity \in Nat /\ Capacity > 0 /\ b.count \in Nat
    BY CapacityType, RingType DEF Slot
<1>2. x % Capacity = IF x < Capacity THEN x ELSE x - Capacity
    <2>1. x \in Nat /\ x < 2 * Capacity
        BY <1>1
    <2> HIDE DEF x
    <2> QED BY <2>1, ModWrap
<1>3. /\ c.data = [b.data EXCEPT ![b.head] = Default]
      /\ c.head = x % Capacity
      /\ c.count = b.count - 1
    BY DEF reset_front_unlocked
<1>4. c.head = IF b.head + 1 = Capacity THEN 0 ELSE b.head + 1
    BY <1>1, <1>2, <1>3
<1>5. c \in Ring
    <2>1. c.head \in Slot
        BY <1>1, <1>4 DEF Slot
    <2>2. c.data \in [Slot -> Value]
        BY <1>3, RingType, DefaultAssumption
    <2>3. c.count \in 0 .. Capacity
        BY <1>1, <1>3, RingType
    <2>4. c = [data |-> c.data, head |-> c.head, count |-> c.count]
        BY DEF reset_front_unlocked
    <2> HIDE DEF c
    <2>5. QED
        BY <2>1, <2>2, <2>3, <2>4 DEF Ring
<1>6. ASSUME NEW j \in Slot
      PROVE  At(c, j) = IF j = Capacity - 1 THEN Default ELSE At(b, j + 1)
    <2> HIDE DEF c
    <2>1. j \in Nat /\ j < Capacity
        BY CapacityType DEF Slot
    <2>2. phys(c, j) = IF c.head + j < Capacity THEN c.head + j
                                                ELSE c.head + j - Capacity
        BY <1>5, PhysValue
    <2>3. CASE j = Capacity - 1
        <3>1. phys(c, j) = b.head
            BY <1>1, <1>4, <2>2, <2>3
        <3>2. QED
            BY <1>1, <1>3, <2>3, <3>1, RingType DEF At
    <2>4. CASE j # Capacity - 1
        <3>1. j + 1 \in Slot
            BY <2>1, <2>4, CapacityType DEF Slot
        <3>2. /\ phys(b, j + 1) =
                    IF b.head + (j + 1) < Capacity
                    THEN b.head + (j + 1)
                    ELSE b.head + (j + 1) - Capacity
              /\ phys(b, j + 1) \in Slot
            BY <3>1, PhysValue
        <3>3. phys(c, j) = phys(b, j + 1) /\ phys(b, j + 1) # b.head
            BY <1>1, <1>4, <2>1, <2>2, <2>4, <3>2
        <3>4. QED
            BY <1>1, <1>3, <2>4, <3>2, <3>3, RingType DEF At
    <2>5. QED
        BY <2>3, <2>4
<1>7. QED
    BY <1>3, <1>5, <1>6

(* Assigning to count moves no element. *)
LEMMA CountAt ==
    ASSUME NEW b \in Ring
    PROVE  /\ b.count < Capacity =>
                /\ Grown(b) \in Ring
                /\ Grown(b).count = b.count + 1
                /\ \A j \in Slot : At(Grown(b), j) = At(b, j)
           /\ b.count > 0 =>
                /\ Shrunk(b) \in Ring
                /\ Shrunk(b).count = b.count - 1
                /\ \A j \in Slot : At(Shrunk(b), j) = At(b, j)
<1>1. /\ Grown(b) = [data |-> b.data, head |-> b.head, count |-> b.count + 1]
      /\ Shrunk(b) = [data |-> b.data, head |-> b.head, count |-> b.count - 1]
    BY RingType DEF Grown, Shrunk
<1>2. \A j : At(Grown(b), j) = At(b, j) /\ At(Shrunk(b), j) = At(b, j)
    BY <1>1 DEF At, phys
<1>3. b.count \in Nat /\ b.count <= Capacity /\ Capacity \in Nat
    BY RingType, CapacityType
<1>4. QED
    BY <1>1, <1>2, <1>3, RingType DEF Ring

(* reset_back_unlocked leaves T{} where the last element was. *)
LEMMA ResetBackAt ==
    ASSUME NEW b \in Ring, b.count > 0
    PROVE  /\ reset_back_unlocked(b) \in Ring
           /\ reset_back_unlocked(b).count = b.count - 1
           /\ \A j \in Slot :
                 At(reset_back_unlocked(b), j) =
                    IF j = b.count - 1 THEN Default ELSE At(b, j)
<1> DEFINE c == Store(b, b.count - 1, Default)
<1>1. b.count - 1 \in Slot
    BY RingType, CapacityType DEF Slot
<1>2. /\ c \in Ring
      /\ c.count = b.count
      /\ \A j \in Slot : At(c, j) = IF j = b.count - 1 THEN Default ELSE At(b, j)
    BY <1>1, StoreAt, DefaultAssumption
<1>3. /\ Shrunk(c) \in Ring
      /\ Shrunk(c).count = b.count - 1
      /\ \A j \in Slot : At(Shrunk(c), j) = At(c, j)
    <2> HIDE DEF c
    <2> QED BY <1>2, CountAt
<1>4. QED
    BY <1>2, <1>3 DEF reset_back_unlocked

(* WithElements puts f[j] at every logical index j. *)
LEMMA WithElementsAt ==
    ASSUME NEW b \in Ring, NEW f \in [Slot -> Value]
    PROVE  /\ WithElements(b, f) \in Ring
           /\ WithElements(b, f).count = b.count
           /\ \A j \in Slot : At(WithElements(b, f), j) = f[j]
<1> DEFINE c == WithElements(b, f)
<1>1. c = [data  |-> [s \in Slot |-> f[logical(b, s)]],
           head  |-> b.head,
           count |-> b.count]
    BY RingType DEF WithElements
<1>2. c \in Ring
    BY <1>1, RingType, LogicalValue DEF Ring
<1>3. ASSUME NEW j \in Slot
      PROVE  At(c, j) = f[j]
    <2>1. phys(c, j) = phys(b, j)
        BY <1>1 DEF phys
    <2>2. QED
        BY <1>1, <2>1, PhysValue DEF At
<1>4. QED
    BY <1>1, <1>2, <1>3

(* The ascending loop moves the elements of its range one place to the front. *)
LEMMA ShiftDownAt ==
    ASSUME NEW b \in Ring, NEW lo \in Nat, NEW hi \in Int, hi < Capacity
    PROVE  /\ ShiftDown(b, lo, hi) \in Ring
           /\ ShiftDown(b, lo, hi).count = b.count
           /\ \A j \in Slot :
                 At(ShiftDown(b, lo, hi), j) =
                    IF j \in lo .. hi - 1 THEN At(b, j + 1) ELSE At(b, j)
<1> DEFINE f == [i \in Slot |->
                    IF i \in lo .. hi - 1 THEN At(b, i + 1) ELSE At(b, i)]
<1>1. ASSUME NEW i \in Slot, i \in lo .. hi - 1
      PROVE  i + 1 \in Slot
    BY <1>1, CapacityType DEF Slot
<1>2. f \in [Slot -> Value]
    BY <1>1, AtType
<1>3. QED
    <2> HIDE DEF f
    <2>1. /\ WithElements(b, f) \in Ring
          /\ WithElements(b, f).count = b.count
          /\ \A j \in Slot : At(WithElements(b, f), j) = f[j]
        BY <1>2, WithElementsAt
    <2>2. ShiftDown(b, lo, hi) = WithElements(b, f)
        BY DEF ShiftDown, f
    <2>3. QED
        BY <2>1, <2>2 DEF f

(* The descending loop moves the elements of its range one place to the back. *)
LEMMA ShiftUpAt ==
    ASSUME NEW b \in Ring, NEW lo \in Nat, NEW hi \in Int, hi < Capacity
    PROVE  /\ ShiftUp(b, lo, hi) \in Ring
           /\ ShiftUp(b, lo, hi).count = b.count
           /\ \A j \in Slot :
                 At(ShiftUp(b, lo, hi), j) =
                    IF j \in lo + 1 .. hi THEN At(b, j - 1) ELSE At(b, j)
<1> DEFINE f == [i \in Slot |->
                    IF i \in lo + 1 .. hi THEN At(b, i - 1) ELSE At(b, i)]
<1>1. ASSUME NEW i \in Slot, i \in lo + 1 .. hi
      PROVE  i - 1 \in Slot
    BY <1>1, CapacityType DEF Slot
<1>2. f \in [Slot -> Value]
    BY <1>1, AtType
<1>3. QED
    <2> HIDE DEF f
    <2>1. /\ WithElements(b, f) \in Ring
          /\ WithElements(b, f).count = b.count
          /\ \A j \in Slot : At(WithElements(b, f), j) = f[j]
        BY <1>2, WithElementsAt
    <2>2. ShiftUp(b, lo, hi) = WithElements(b, f)
        BY DEF ShiftUp, f
    <2>3. QED
        BY <2>1, <2>2 DEF f

-----------------------------------------------------------------------------
(* What each operation leaves at every logical index of a clean buffer.    *)

(* c holds b's elements with v inserted before the i-th.                   *)
HasInserted(c, b, i, v) ==
    /\ c \in Ring
    /\ c.count = b.count + 1
    /\ \A j \in Slot :
          At(c, j) = IF j < i THEN At(b, j) ELSE IF j = i THEN v ELSE At(b, j - 1)

(* c holds b's elements without the i-th.                                  *)
HasRemoved(c, b, i) ==
    /\ c \in Ring
    /\ c.count = b.count - 1
    /\ \A j \in Slot :
          At(c, j) = IF j < i THEN At(b, j)
                     ELSE IF j < b.count - 1 THEN At(b, j + 1) ELSE Default

(* make_room_unlocked changes nothing while there is room, and removes the
   first or the last element of a full buffer, as the policy says. *)
LEMMA MakeRoomAt ==
    ASSUME NEW b \in Ring, Clean(b), NEW policy \in Policy, HasRoom(b, policy)
    PROVE  /\ b.count < Capacity => make_room_unlocked(b, policy) = b
           /\ b.count = Capacity /\ policy = "Front" =>
                HasRemoved(make_room_unlocked(b, policy), b, 0)
           /\ b.count = Capacity /\ policy = "Back" =>
                HasRemoved(make_room_unlocked(b, policy), b, Capacity - 1)
           /\ b.count < Capacity \/ policy = "Front" \/ policy = "Back"
<1>1. b.count \in Nat /\ b.count <= Capacity /\ Capacity \in Nat /\ Capacity > 0
    BY RingType, CapacityType
<1>2. b.count < Capacity => make_room_unlocked(b, policy) = b
    BY <1>1 DEF make_room_unlocked
<1>3. b.count < Capacity \/ policy = "Front" \/ policy = "Back"
    BY DEF HasRoom, Policy
<1>4. ASSUME b.count = Capacity, policy = "Front"
      PROVE  HasRemoved(make_room_unlocked(b, policy), b, 0)
    <2>1. make_room_unlocked(b, policy) = reset_front_unlocked(b)
        BY <1>1, <1>4 DEF make_room_unlocked
    <2>2. QED
        BY <1>1, <1>4, <2>1, ResetFrontAt DEF HasRemoved, Slot
<1>5. ASSUME b.count = Capacity, policy = "Back"
      PROVE  HasRemoved(make_room_unlocked(b, policy), b, Capacity - 1)
    <2>1. make_room_unlocked(b, policy) = reset_back_unlocked(b)
        BY <1>1, <1>5 DEF make_room_unlocked
    <2>2. QED
        BY <1>1, <1>5, <2>1, ResetBackAt DEF HasRemoved, Slot
<1>6. QED
    BY <1>2, <1>3, <1>4, <1>5

(* An insertion into a clean buffer leaves it clean. *)
LEMMA InsertedClean ==
    ASSUME NEW b \in Ring, Clean(b), NEW i \in 0 .. b.count, NEW v \in Value,
           NEW c, HasInserted(c, b, i, v)
    PROVE  Clean(c)
<1> SUFFICES ASSUME NEW j \in Slot, j >= c.count
             PROVE  At(c, j) = Default
    BY DEF Clean
<1>1. /\ b.count \in Nat /\ c.count = b.count + 1 /\ i \in Nat /\ i <= b.count
      /\ j \in Nat /\ Capacity \in Nat /\ j < Capacity
    BY RingType, CapacityType DEF HasInserted, Slot
<1>2. j - 1 \in Slot /\ j - 1 >= b.count /\ j > i
    BY <1>1 DEF Slot
<1>3. QED
    BY <1>1, <1>2 DEF HasInserted, Clean

(* A removal leaves the buffer clean. *)
LEMMA RemovedClean ==
    ASSUME NEW b \in Ring, NEW i \in 0 .. b.count - 1,
           NEW c, HasRemoved(c, b, i)
    PROVE  Clean(c)
<1> SUFFICES ASSUME NEW j \in Slot, j >= c.count
             PROVE  At(c, j) = Default
    BY DEF Clean
<1>1. /\ b.count \in Nat /\ c.count = b.count - 1 /\ i \in Nat /\ i <= b.count - 1
      /\ j \in Nat /\ Capacity \in Nat
    BY RingType, CapacityType DEF HasRemoved, Slot
<1>2. QED
    BY <1>1 DEF HasRemoved

(* push_back inserts after the last element. *)
LEMMA PushBackAt ==
    ASSUME NEW b \in Ring, Clean(b), b.count < Capacity, NEW v \in Value
    PROVE  HasInserted(Grown(Store(b, b.count, v)), b, b.count, v)
<1> DEFINE c == Store(b, b.count, v)
<1>1. b.count \in Nat /\ Capacity \in Nat /\ b.count \in Slot
    BY RingType, CapacityType DEF Slot
<1>2. /\ c \in Ring
      /\ c.count = b.count
      /\ \A j \in Slot : At(c, j) = IF j = b.count THEN v ELSE At(b, j)
    BY <1>1, StoreAt
<1>3. /\ Grown(c) \in Ring
      /\ Grown(c).count = b.count + 1
      /\ \A j \in Slot : At(Grown(c), j) = At(c, j)
    <2> HIDE DEF c
    <2> QED BY <1>2, CountAt
<1>4. ASSUME NEW j \in Slot, j > b.count
      PROVE  At(b, j) = At(b, j - 1)
    <2>1. j - 1 \in Slot /\ j - 1 >= b.count /\ j >= b.count
        BY <1>1, <1>4 DEF Slot
    <2>2. QED
        BY <2>1 DEF Clean
<1>5. \A j \in Slot : j \in Nat
    BY <1>1 DEF Slot
<1> HIDE DEF c
<1>6. \A j \in Slot :
        At(Grown(c), j) = IF j < b.count THEN At(b, j)
                          ELSE IF j = b.count THEN v ELSE At(b, j - 1)
    BY <1>1, <1>2, <1>3, <1>4, <1>5
<1>7. QED
    BY <1>3, <1>6 DEF HasInserted, c

(* push_front inserts before the first element. *)
LEMMA PushFrontAt ==
    ASSUME NEW b \in Ring, b.count < Capacity, NEW v \in Value
    PROVE  HasInserted(Grown(Store(StepBack(b), 0, v)), b, 0, v)
<1> DEFINE s == StepBack(b)
           c == Store(s, 0, v)
<1>1. b.count \in Nat /\ Capacity \in Nat /\ 0 \in Slot /\ \A j \in Slot : j \in Nat
    BY RingType, CapacityType DEF Slot
<1>2. /\ s \in Ring
      /\ s.count = b.count
      /\ \A j \in Slot : j # 0 => At(s, j) = At(b, j - 1)
    BY <1>1, StepBackAt
<1>3. /\ c \in Ring
      /\ c.count = b.count
      /\ \A j \in Slot : At(c, j) = IF j = 0 THEN v ELSE At(s, j)
    <2> HIDE DEF s
    <2> QED BY <1>1, <1>2, StoreAt
<1>4. /\ Grown(c) \in Ring
      /\ Grown(c).count = b.count + 1
      /\ \A j \in Slot : At(Grown(c), j) = At(c, j)
    <2> HIDE DEF c
    <2> QED BY <1>3, CountAt
<1> HIDE DEF c, s
<1>5. \A j \in Slot :
        At(Grown(c), j) = IF j < 0 THEN At(b, j)
                          ELSE IF j = 0 THEN v ELSE At(b, j - 1)
    BY <1>1, <1>2, <1>3, <1>4
<1>6. QED
    BY <1>4, <1>5 DEF HasInserted, c, s

(* insert with i in the front half moves head back and shifts the first i
   elements. *)
LEMMA InsertInFrontHalfAt ==
    ASSUME NEW b \in Ring, b.count < Capacity, NEW v \in Value,
           NEW i \in 0 .. b.count
    PROVE  HasInserted(InsertInFrontHalf(b, i, v), b, i, v)
<1> DEFINE s == StepBack(b)
           d == ShiftDown(s, 0, i)
           c == Store(d, i, v)
<1>1. /\ b.count \in Nat /\ Capacity \in Nat /\ i \in Nat /\ i < Capacity
      /\ i \in Slot /\ \A j \in Slot : j \in Nat /\ j < Capacity
    BY RingType, CapacityType DEF Slot
<1>2. /\ s \in Ring
      /\ s.count = b.count
      /\ \A j \in Slot : j # 0 => At(s, j) = At(b, j - 1)
    BY <1>1, StepBackAt
<1>3. /\ d \in Ring
      /\ d.count = b.count
      /\ \A j \in Slot : At(d, j) = IF j \in 0 .. i - 1 THEN At(s, j + 1)
                                                        ELSE At(s, j)
    <2> HIDE DEF s
    <2> QED BY <1>1, <1>2, ShiftDownAt
<1>4. /\ c \in Ring
      /\ c.count = b.count
      /\ \A j \in Slot : At(c, j) = IF j = i THEN v ELSE At(d, j)
    <2> HIDE DEF d
    <2> QED BY <1>1, <1>3, StoreAt
<1>5. /\ Grown(c) \in Ring
      /\ Grown(c).count = b.count + 1
      /\ \A j \in Slot : At(Grown(c), j) = At(c, j)
    <2> HIDE DEF c
    <2> QED BY <1>4, CountAt
<1> HIDE DEF c, d, s
<1>6. ASSUME NEW j \in Slot
      PROVE  At(Grown(c), j) = IF j < i THEN At(b, j)
                               ELSE IF j = i THEN v ELSE At(b, j - 1)
    <2>1. CASE j < i
        <3>1. j + 1 \in Slot /\ j + 1 # 0 /\ j \in 0 .. i - 1 /\ (j + 1) - 1 = j
            BY <1>1, <2>1 DEF Slot
        <3>2. QED
            BY <1>1, <1>2, <1>3, <1>4, <1>5, <2>1, <3>1
    <2>2. CASE j = i
        BY <1>1, <1>4, <1>5, <2>2
    <2>3. CASE j > i
        BY <1>1, <1>2, <1>3, <1>4, <1>5, <2>3
    <2>4. QED
        BY <1>1, <2>1, <2>2, <2>3
<1>7. QED
    BY <1>5, <1>6 DEF HasInserted, InsertInFrontHalf, c, d, s

(* insert with i in the back half shifts the elements from i on towards the
   back. *)
LEMMA InsertInBackHalfAt ==
    ASSUME NEW b \in Ring, Clean(b), b.count < Capacity, NEW v \in Value,
           NEW i \in 0 .. b.count
    PROVE  HasInserted(InsertInBackHalf(b, i, v), b, i, v)
<1> DEFINE d == ShiftUp(b, i, b.count)
           c == Store(d, i, v)
<1>1. /\ b.count \in Nat /\ Capacity \in Nat /\ i \in Nat /\ i < Capacity
      /\ i <= b.count
      /\ i \in Slot /\ \A j \in Slot : j \in Nat /\ j < Capacity
    BY RingType, CapacityType DEF Slot
<1>2. /\ d \in Ring
      /\ d.count = b.count
      /\ \A j \in Slot : At(d, j) = IF j \in i + 1 .. b.count THEN At(b, j - 1)
                                                              ELSE At(b, j)
    <2> DEFINE hi == b.count
    <2>1. hi \in Int /\ hi < Capacity
        BY <1>1
    <2>2. d = ShiftUp(b, i, hi)
        OBVIOUS
    <2> HIDE DEF hi, d
    <2>3. /\ d \in Ring
          /\ d.count = b.count
          /\ \A j \in Slot : At(d, j) = IF j \in i + 1 .. hi THEN At(b, j - 1)
                                                           ELSE At(b, j)
        <3>1. i \in Nat
            BY <1>1
        <3>2. /\ ShiftUp(b, i, hi) \in Ring
              /\ ShiftUp(b, i, hi).count = b.count
              /\ \A j \in Slot :
                    At(ShiftUp(b, i, hi), j) =
                        IF j \in i + 1 .. hi THEN At(b, j - 1) ELSE At(b, j)
            BY <2>1, <3>1, ShiftUpAt
        <3>3. QED
            BY <2>2, <3>2
    <2>4. QED
        BY <2>3 DEF hi
<1>3. /\ c \in Ring
      /\ c.count = b.count
      /\ \A j \in Slot : At(c, j) = IF j = i THEN v ELSE At(d, j)
    <2> HIDE DEF d
    <2> QED BY <1>1, <1>2, StoreAt
<1>4. /\ Grown(c) \in Ring
      /\ Grown(c).count = b.count + 1
      /\ \A j \in Slot : At(Grown(c), j) = At(c, j)
    <2> HIDE DEF c
    <2> QED BY <1>3, CountAt
<1> HIDE DEF c, d
<1>5. ASSUME NEW j \in Slot
      PROVE  At(Grown(c), j) = IF j < i THEN At(b, j)
                               ELSE IF j = i THEN v ELSE At(b, j - 1)
    <2>1. CASE j <= b.count
        BY <1>1, <1>2, <1>3, <1>4, <2>1
    <2>2. CASE j > b.count
        <3>1. j - 1 \in Slot /\ j - 1 >= b.count /\ j >= b.count /\ j > i
            BY <1>1, <2>2 DEF Slot
        <3>2. At(b, j) = At(b, j - 1)
            BY <3>1 DEF Clean
        <3>3. QED
            BY <1>1, <1>2, <1>3, <1>4, <2>2, <3>1, <3>2
    <2>3. QED
        BY <1>1, <2>1, <2>2
<1>6. QED
    BY <1>4, <1>5 DEF HasInserted, InsertInBackHalf, c, d

(* remove in the front half closes the gap from the front and drops the slot
   at head. *)
LEMMA RemoveInFrontHalfAt ==
    ASSUME NEW b \in Ring, Clean(b), NEW i \in 0 .. b.count - 1
    PROVE  HasRemoved(RemoveInFrontHalf(b, i), b, i)
<1> DEFINE d == ShiftUp(b, 0, i)
           c == reset_front_unlocked(d)
<1>1. /\ b.count \in Nat /\ Capacity \in Nat /\ i \in Nat /\ i < Capacity
      /\ i < b.count /\ b.count <= Capacity
      /\ \A j \in Slot : j \in Nat /\ j < Capacity
    BY RingType, CapacityType DEF Slot
<1>2. /\ d \in Ring
      /\ d.count = b.count
      /\ \A j \in Slot : At(d, j) = IF j \in 1 .. i THEN At(b, j - 1) ELSE At(b, j)
    BY <1>1, ShiftUpAt
<1>3. /\ c \in Ring
      /\ c.count = b.count - 1
      /\ \A j \in Slot : At(c, j) = IF j = Capacity - 1 THEN Default ELSE At(d, j + 1)
    <2> HIDE DEF d
    <2> QED BY <1>1, <1>2, ResetFrontAt
<1> HIDE DEF c, d
<1>4. ASSUME NEW j \in Slot
      PROVE  At(c, j) = IF j < i THEN At(b, j)
                        ELSE IF j < b.count - 1 THEN At(b, j + 1) ELSE Default
    <2>1. CASE j = Capacity - 1
        BY <1>1, <1>3, <2>1
    <2>2. CASE j # Capacity - 1
        <3>1. j + 1 \in Slot /\ (j + 1) - 1 = j
            BY <1>1, <2>2 DEF Slot
        <3>2. At(c, j) = IF j < i THEN At(b, j) ELSE At(b, j + 1)
            BY <1>1, <1>2, <1>3, <2>2, <3>1
        <3>3. j + 1 >= b.count => At(b, j + 1) = Default
            BY <3>1 DEF Clean
        <3>4. QED
            BY <1>1, <3>2, <3>3
    <2>3. QED
        BY <2>1, <2>2
<1>5. QED
    BY <1>3, <1>4 DEF HasRemoved, RemoveInFrontHalf, c, d

(* remove in the back half closes the gap from the back and drops the last
   slot. *)
LEMMA RemoveInBackHalfAt ==
    ASSUME NEW b \in Ring, Clean(b), NEW i \in 0 .. b.count - 1
    PROVE  HasRemoved(RemoveInBackHalf(b, i), b, i)
<1> DEFINE d == ShiftDown(b, i, b.count - 1)
           c == reset_back_unlocked(d)
<1>1. /\ b.count \in Nat /\ Capacity \in Nat /\ i \in Nat /\ i < Capacity
      /\ i < b.count /\ b.count <= Capacity /\ b.count - 1 < Capacity
      /\ \A j \in Slot : j \in Nat /\ j < Capacity
    BY RingType, CapacityType DEF Slot
<1>2. /\ d \in Ring
      /\ d.count = b.count
      /\ \A j \in Slot : At(d, j) = IF j \in i .. (b.count - 1) - 1
                                   THEN At(b, j + 1) ELSE At(b, j)
    <2> DEFINE hi == b.count - 1
    <2>1. hi \in Int /\ hi < Capacity
        BY <1>1
    <2>2. d = ShiftDown(b, i, hi)
        OBVIOUS
    <2> HIDE DEF hi, d
    <2>3. /\ d \in Ring
          /\ d.count = b.count
          /\ \A j \in Slot : At(d, j) = IF j \in i .. hi - 1 THEN At(b, j + 1)
                                                           ELSE At(b, j)
        <3>1. i \in Nat
            BY <1>1
        <3>2. /\ ShiftDown(b, i, hi) \in Ring
              /\ ShiftDown(b, i, hi).count = b.count
              /\ \A j \in Slot :
                    At(ShiftDown(b, i, hi), j) =
                        IF j \in i .. hi - 1 THEN At(b, j + 1) ELSE At(b, j)
            BY <2>1, <3>1, ShiftDownAt
        <3>3. QED
            BY <2>2, <3>2
    <2>4. QED
        BY <2>3 DEF hi
<1>3. /\ c \in Ring
      /\ c.count = b.count - 1
      /\ \A j \in Slot : At(c, j) = IF j = b.count - 1 THEN Default ELSE At(d, j)
    <2> HIDE DEF d
    <2> QED BY <1>1, <1>2, ResetBackAt
<1> HIDE DEF c, d
<1>4. ASSUME NEW j \in Slot
      PROVE  At(c, j) = IF j < i THEN At(b, j)
                        ELSE IF j < b.count - 1 THEN At(b, j + 1) ELSE Default
    <2>1. j >= b.count => At(b, j) = Default
        BY DEF Clean
    <2>2. QED
        BY <1>1, <1>2, <1>3, <2>1
<1>5. QED
    BY <1>3, <1>4 DEF HasRemoved, RemoveInBackHalf, c, d

(* make_room_unlocked leaves a well-formed, clean buffer with room in it. *)
LEMMA RoomMade ==
    ASSUME NEW b \in Ring, Clean(b), NEW policy \in Policy, HasRoom(b, policy)
    PROVE  /\ make_room_unlocked(b, policy) \in Ring
           /\ Clean(make_room_unlocked(b, policy))
           /\ make_room_unlocked(b, policy).count < Capacity
<1> DEFINE c == make_room_unlocked(b, policy)
<1>1. b.count \in Nat /\ b.count <= Capacity /\ Capacity \in Nat /\ Capacity > 0
    BY RingType, CapacityType
<1>2. \/ b.count < Capacity /\ c = b
      \/ b.count = Capacity /\ HasRemoved(c, b, 0)
      \/ b.count = Capacity /\ HasRemoved(c, b, Capacity - 1)
    BY <1>1, MakeRoomAt
<1> HIDE DEF c
<1>3. ASSUME NEW i \in 0 .. b.count - 1, HasRemoved(c, b, i)
      PROVE  c \in Ring /\ Clean(c) /\ c.count = b.count - 1
    <2>1. Clean(c)
        BY <1>3, RemovedClean
    <2>2. QED
        BY <1>3, <2>1 DEF HasRemoved
<1>4. c \in Ring /\ Clean(c) /\ c.count < Capacity
    BY <1>1, <1>2, <1>3
<1>5. QED
    BY <1>4 DEF c

(* push_back keeps a buffer well-formed and clean. *)
LEMMA PushedBack ==
    ASSUME NEW b \in Ring, Clean(b), b.count < Capacity, NEW v \in Value
    PROVE  /\ Grown(Store(b, b.count, v)) \in Ring
           /\ Clean(Grown(Store(b, b.count, v)))
<1> DEFINE c == Grown(Store(b, b.count, v))
           k == b.count
<1>1. HasInserted(c, b, k, v)
    BY PushBackAt
<1>2. k \in 0 .. b.count
    BY RingType
<1> HIDE DEF c, k
<1>3. c \in Ring /\ Clean(c)
    BY <1>1, <1>2, InsertedClean DEF HasInserted
<1>4. QED
    BY <1>3 DEF c, k

(* push_front keeps a buffer well-formed and clean. *)
LEMMA PushedFront ==
    ASSUME NEW b \in Ring, Clean(b), b.count < Capacity, NEW v \in Value
    PROVE  /\ Grown(Store(StepBack(b), 0, v)) \in Ring
           /\ Clean(Grown(Store(StepBack(b), 0, v)))
<1> DEFINE c == Grown(Store(StepBack(b), 0, v))
<1>1. HasInserted(c, b, 0, v)
    BY PushFrontAt
<1>2. 0 \in 0 .. b.count
    BY RingType
<1> HIDE DEF c
<1>3. c \in Ring /\ Clean(c)
    BY <1>1, <1>2, InsertedClean DEF HasInserted
<1>4. QED
    BY <1>3 DEF c

(* reset_front_unlocked and reset_back_unlocked remove the first and the last
   element, and keep the buffer clean. *)
LEMMA Popped ==
    ASSUME NEW b \in Ring, Clean(b), b.count > 0
    PROVE  /\ HasRemoved(reset_front_unlocked(b), b, 0)
           /\ HasRemoved(reset_back_unlocked(b), b, b.count - 1)
           /\ Clean(reset_front_unlocked(b))
           /\ Clean(reset_back_unlocked(b))
<1> DEFINE f == reset_front_unlocked(b)
           r == reset_back_unlocked(b)
           k == b.count - 1
<1>1. /\ b.count \in Nat /\ Capacity \in Nat /\ b.count <= Capacity
      /\ 0 \in 0 .. b.count - 1 /\ k \in 0 .. b.count - 1
      /\ \A j \in Slot : j \in Nat /\ j < Capacity
    BY RingType, CapacityType DEF Slot
<1>2. /\ f \in Ring
      /\ f.count = b.count - 1
      /\ \A j \in Slot : At(f, j) = IF j = Capacity - 1 THEN Default ELSE At(b, j + 1)
    BY ResetFrontAt
<1>3. /\ r \in Ring
      /\ r.count = b.count - 1
      /\ \A j \in Slot : At(r, j) = IF j = b.count - 1 THEN Default ELSE At(b, j)
    BY ResetBackAt
<1> HIDE DEF f, r
<1>4. ASSUME NEW j \in Slot
      PROVE  At(f, j) = IF j < 0 THEN At(b, j)
                        ELSE IF j < b.count - 1 THEN At(b, j + 1) ELSE Default
    <2>1. j # Capacity - 1 /\ j >= b.count - 1 => At(b, j + 1) = Default
        <3> SUFFICES ASSUME j # Capacity - 1, j >= b.count - 1
                     PROVE  At(b, j + 1) = Default
            OBVIOUS
        <3>1. j + 1 \in Slot /\ j + 1 >= b.count
            BY <1>1 DEF Slot
        <3>2. QED
            BY <3>1 DEF Clean
    <2>2. QED
        BY <1>1, <1>2, <2>1
<1>5. ASSUME NEW j \in Slot
      PROVE  At(r, j) = IF j < k THEN At(b, j)
                        ELSE IF j < b.count - 1 THEN At(b, j + 1) ELSE Default
    <2>1. j >= b.count => At(b, j) = Default
        BY DEF Clean
    <2>2. QED
        BY <1>1, <1>3, <2>1
<1>6. HasRemoved(f, b, 0) /\ HasRemoved(r, b, k)
    BY <1>2, <1>3, <1>4, <1>5 DEF HasRemoved
<1> HIDE DEF k
<1>7. Clean(f) /\ Clean(r)
    BY <1>1, <1>6, RemovedClean
<1>8. QED
    BY <1>6, <1>7 DEF f, r, k

(* insert keeps a buffer well-formed and clean, whichever half it shifts. *)
LEMMA InsertedRing ==
    ASSUME NEW b \in Ring, Clean(b), b.count < Capacity, NEW v \in Value,
           NEW i \in 0 .. b.count
    PROVE  /\ InsertInFrontHalf(b, i, v) \in Ring
           /\ InsertInBackHalf(b, i, v) \in Ring
           /\ Clean(InsertInFrontHalf(b, i, v))
           /\ Clean(InsertInBackHalf(b, i, v))
<1> DEFINE f == InsertInFrontHalf(b, i, v)
           r == InsertInBackHalf(b, i, v)
<1>1. HasInserted(f, b, i, v) /\ HasInserted(r, b, i, v)
    BY InsertInFrontHalfAt, InsertInBackHalfAt
<1> HIDE DEF f, r
<1>2. f \in Ring /\ r \in Ring /\ Clean(f) /\ Clean(r)
    BY <1>1, InsertedClean DEF HasInserted
<1>3. QED
    BY <1>2 DEF f, r

(* remove keeps a buffer well-formed and clean, whichever half it shifts. *)
LEMMA RemovedRing ==
    ASSUME NEW b \in Ring, Clean(b), NEW i \in 0 .. b.count - 1
    PROVE  /\ RemoveInFrontHalf(b, i) \in Ring
           /\ RemoveInBackHalf(b, i) \in Ring
           /\ Clean(RemoveInFrontHalf(b, i))
           /\ Clean(RemoveInBackHalf(b, i))
<1> DEFINE f == RemoveInFrontHalf(b, i)
           r == RemoveInBackHalf(b, i)
<1>1. HasRemoved(f, b, i) /\ HasRemoved(r, b, i)
    BY RemoveInFrontHalfAt, RemoveInBackHalfAt
<1> HIDE DEF f, r
<1>2. f \in Ring /\ r \in Ring /\ Clean(f) /\ Clean(r)
    BY <1>1, RemovedClean DEF HasRemoved
<1>3. QED
    BY <1>2 DEF f, r

(* for_each_until rewrites the first n elements with f and keeps a buffer
   clean. *)
LEMMA Traversed ==
    ASSUME NEW b \in Ring, Clean(b), NEW f \in [Value -> Value], NEW n \in 0 .. b.count
    PROVE  LET g == [i \in Slot |-> IF i < n THEN f[At(b, i)] ELSE At(b, i)]
           IN  /\ WithElements(b, g) \in Ring
               /\ WithElements(b, g).count = b.count
               /\ \A j \in Slot : At(WithElements(b, g), j) = g[j]
               /\ Clean(WithElements(b, g))
<1> DEFINE g == [i \in Slot |-> IF i < n THEN f[At(b, i)] ELSE At(b, i)]
           c == WithElements(b, g)
<1>1. g \in [Slot -> Value]
    BY AtType
<1>2. c \in Ring /\ c.count = b.count /\ \A j \in Slot : At(c, j) = g[j]
    <2> HIDE DEF g
    <2> QED BY <1>1, WithElementsAt
<1>3. Clean(c)
    <2> SUFFICES ASSUME NEW j \in Slot, j >= c.count
                 PROVE  At(c, j) = Default
        BY DEF Clean
    <2>1. ~(j < n) /\ j >= b.count
        <3>1. b.count \in Nat /\ n \in Nat /\ n <= b.count /\ j \in Nat
            BY RingType, CapacityType DEF Slot
        <3>2. j >= b.count
            BY <1>2
        <3>3. QED
            BY <3>1, <3>2
    <2>2. At(c, j) = g[j] /\ g[j] = At(b, j)
        <3>1. At(c, j) = g[j]
            BY <1>2
        <3>2. g[j] = At(b, j)
            BY <2>1
        <3>3. QED
            BY <3>1, <3>2
    <2> HIDE DEF g, c
    <2>3. QED
        BY <2>1, <2>2 DEF Clean
<1>4. QED
    BY <1>2, <1>3

(* clear leaves a clean, empty buffer with head 0. *)
LEMMA Cleared ==
    ASSUME NEW b \in Ring, Clean(b)
    PROVE  LET g == [i \in Slot |-> IF i < b.count THEN Default ELSE At(b, i)]
               c == [data |-> WithElements(b, g).data, head |-> 0, count |-> 0]
           IN  c \in Ring /\ Clean(c) /\ c.count = 0
<1> DEFINE g == [i \in Slot |-> IF i < b.count THEN Default ELSE At(b, i)]
           d == WithElements(b, g)
           c == [data |-> d.data, head |-> 0, count |-> 0]
<1>1. g = [i \in Slot |-> Default]
    <2>1. ASSUME NEW i \in Slot
          PROVE  (IF i < b.count THEN Default ELSE At(b, i)) = Default
        BY RingType, CapacityType DEF Clean, Slot
    <2>2. QED
        BY <2>1
<1>2. d = [data |-> [s \in Slot |-> Default], head |-> b.head, count |-> b.count]
    <2>1. \A s \in Slot : g[logical(b, s)] = Default
        BY <1>1, LogicalValue
    <2> HIDE DEF g
    <2>2. [s \in Slot |-> g[logical(b, s)]] = [s \in Slot |-> Default]
        BY <2>1
    <2>3. QED
        BY <2>2, RingType DEF WithElements
<1>3. c = [data |-> [s \in Slot |-> Default], head |-> 0, count |-> 0]
    <2> HIDE DEF d
    <2> QED BY <1>2
<1> HIDE DEF c, d, g
<1>4. c \in Ring
    BY <1>3, CapacityType, DefaultAssumption DEF Ring, Slot
<1>5. ASSUME NEW j \in Slot
      PROVE  At(c, j) = Default
    BY <1>3, <1>4, PhysValue DEF At
<1>6. QED
    BY <1>3, <1>4, <1>5 DEF Clean, c, d, g

-----------------------------------------------------------------------------
(* The two invariants hold together: a shift is only right about the slots *)
(* past the end when those hold T{}, and it leaves them so.                *)
RingInv == TypeOK /\ UnusedSlotsReset

(* A constructed buffer satisfies the invariants. *)
LEMMA RingInvInit == Init => RingInv
<1> SUFFICES ASSUME Init
             PROVE  RingInv
    OBVIOUS
<1>1. ring \in Ring
    BY CapacityType, DefaultAssumption DEF Init, Ring, Slot
<1>2. \A i \in Slot : At(ring, i) = Default
    BY <1>1, PhysValue DEF At, Init
<1>3. ret \in [ok : BOOLEAN, out : Seq(Value)]
    BY DEF Init
<1>4. QED
    BY <1>1, <1>2, <1>3 DEF RingInv, TypeOK, UnusedSlotsReset, Clean

(* An operation that returns true keeps the invariants if the buffer it    *)
(* leaves is well-formed and clean; one that returns false changes nothing.*)
LEMMA ReturnKeeps ==
    ASSUME NEW b \in Ring, Clean(b), NEW out \in Seq(Value), Return(b, out)
    PROVE  RingInv'
BY DEF Return, RingInv, TypeOK, UnusedSlotsReset, Clean, At, phys

(* An operation that returns false changes no member. *)
LEMMA ReturnFalseKeeps ==
    ASSUME RingInv, ReturnFalse
    PROVE  RingInv'
BY DEF ReturnFalse, RingInv, TypeOK, UnusedSlotsReset, Clean, At, phys

(* Every operation keeps the invariants. *)
LEMMA RingInvNext ==
    ASSUME RingInv, [Next]_vars
    PROVE  RingInv'
<1>1. /\ ring \in Ring /\ Clean(ring)
      /\ ring.count \in Nat /\ ring.count <= Capacity /\ Capacity \in Nat
      /\ <<>> \in Seq(Value) /\ \A v \in Value : <<v>> \in Seq(Value)
    BY RingType, CapacityType DEF RingInv, TypeOK, UnusedSlotsReset
<1>2. ASSUME NEW v \in Value, NEW policy \in Policy, push_back(v, policy)
      PROVE  RingInv'
    <2>1. CASE HasRoom(ring, policy)
        <3> DEFINE b == make_room_unlocked(ring, policy)
        <3>1. b \in Ring /\ Clean(b) /\ b.count < Capacity
            BY <1>1, <2>1, RoomMade
        <3>2. Return(Grown(Store(b, b.count, v)), <<>>)
            BY <1>2, <2>1 DEF push_back
        <3> HIDE DEF b
        <3>3. QED
            BY <1>1, <3>1, <3>2, PushedBack, ReturnKeeps
    <2>2. CASE ~HasRoom(ring, policy)
        BY <1>2, <2>2, ReturnFalseKeeps DEF push_back
    <2>3. QED
        BY <2>1, <2>2
<1>3. ASSUME NEW v \in Value, NEW policy \in Policy, push_front(v, policy)
      PROVE  RingInv'
    <2>1. CASE HasRoom(ring, policy)
        <3> DEFINE b == make_room_unlocked(ring, policy)
        <3>1. b \in Ring /\ Clean(b) /\ b.count < Capacity
            BY <1>1, <2>1, RoomMade
        <3>2. Return(Grown(Store(StepBack(b), 0, v)), <<>>)
            BY <1>3, <2>1 DEF push_front
        <3> HIDE DEF b
        <3>3. QED
            BY <1>1, <3>1, <3>2, PushedFront, ReturnKeeps
    <2>2. CASE ~HasRoom(ring, policy)
        BY <1>3, <2>2, ReturnFalseKeeps DEF push_front
    <2>3. QED
        BY <2>1, <2>2
<1>4. ASSUME NEW v \in Value, NEW policy \in Policy,
             NEW i \in 0 .. Capacity + 1, insert(i, v, policy)
      PROVE  RingInv'
    <2>1. CASE i <= ring.count /\ HasRoom(ring, policy)
        <3> DEFINE b == make_room_unlocked(ring, policy)
                   k == IF i > b.count THEN b.count ELSE i
        <3>1. b \in Ring /\ Clean(b) /\ b.count < Capacity
            BY <1>1, <2>1, RoomMade
        <3>2. Return(IF k <= b.count \div 2
                     THEN InsertInFrontHalf(b, k, v)
                     ELSE InsertInBackHalf(b, k, v), <<>>)
            BY <1>1, <1>4, <2>1 DEF insert
        <3> HIDE DEF b
        <3>3. k \in 0 .. b.count
            BY <3>1, RingType
        <3> HIDE DEF k
        <3>4. QED
            BY <1>1, <3>1, <3>2, <3>3, InsertedRing, ReturnKeeps
    <2>2. CASE ~(i <= ring.count /\ HasRoom(ring, policy))
        BY <1>4, <2>2, ReturnFalseKeeps DEF insert
    <2>3. QED
        BY <2>1, <2>2
<1>5. ASSUME pop_back
      PROVE  RingInv'
    <2>1. CASE ring.count # 0
        <3>1. ring.count - 1 \in Slot /\ ring.count > 0
            BY <1>1, <2>1 DEF Slot
        <3>2. <<At(ring, ring.count - 1)>> \in Seq(Value)
            BY <1>1, <3>1, AtType
        <3>3. reset_back_unlocked(ring) \in Ring /\ Clean(reset_back_unlocked(ring))
            BY <1>1, <3>1, Popped DEF HasRemoved
        <3>4. Return(reset_back_unlocked(ring), <<At(ring, ring.count - 1)>>)
            BY <1>5, <2>1 DEF pop_back
        <3>5. QED
            BY <3>2, <3>3, <3>4, ReturnKeeps
    <2>2. CASE ring.count = 0
        BY <1>5, <2>2, ReturnFalseKeeps DEF pop_back
    <2>3. QED
        BY <2>1, <2>2
<1>6. ASSUME pop_front
      PROVE  RingInv'
    <2>1. CASE ring.count # 0
        <3>1. ring.count > 0
            BY <1>1, <2>1
        <3>2. <<ring.data[ring.head]>> \in Seq(Value)
            BY <1>1, RingType
        <3>3. reset_front_unlocked(ring) \in Ring /\ Clean(reset_front_unlocked(ring))
            BY <1>1, <3>1, Popped DEF HasRemoved
        <3>4. Return(reset_front_unlocked(ring), <<ring.data[ring.head]>>)
            BY <1>6, <2>1 DEF pop_front
        <3>5. QED
            BY <3>2, <3>3, <3>4, ReturnKeeps
    <2>2. CASE ring.count = 0
        BY <1>6, <2>2, ReturnFalseKeeps DEF pop_front
    <2>3. QED
        BY <2>1, <2>2
<1>7. ASSUME NEW i \in 0 .. Capacity, NEW wanted \in BOOLEAN, remove(i, wanted)
      PROVE  RingInv'
    <2>1. CASE i < ring.count
        <3> DEFINE out == IF wanted THEN <<At(ring, i)>> ELSE <<>>
        <3>1. i \in 0 .. ring.count - 1 /\ i \in Slot
            BY <1>1, <2>1 DEF Slot
        <3>2. out \in Seq(Value)
            BY <1>1, <3>1, AtType
        <3>3. Return(IF i <= ring.count \div 2
                     THEN RemoveInFrontHalf(ring, i)
                     ELSE RemoveInBackHalf(ring, i), out)
            BY <1>1, <1>7, <2>1 DEF remove
        <3> HIDE DEF out
        <3>4. QED
            BY <1>1, <3>1, <3>2, <3>3, RemovedRing, ReturnKeeps
    <2>2. CASE ~(i < ring.count)
        BY <1>7, <2>2, ReturnFalseKeeps DEF remove
    <2>3. QED
        BY <2>1, <2>2
<1>8. ASSUME NEW i \in 0 .. Capacity, get(i)
      PROVE  RingInv'
    <2>1. CASE i < ring.count
        <3>1. i \in Slot
            BY <1>1, <2>1 DEF Slot
        <3>2. <<At(ring, i)>> \in Seq(Value)
            BY <1>1, <3>1, AtType
        <3>3. QED
            <4>1. Return(ring, <<At(ring, i)>>)
                BY <1>1, <1>8, <2>1 DEF get
            <4>2. QED
                BY <1>1, <3>2, <4>1, ReturnKeeps
    <2>2. CASE ~(i < ring.count)
        BY <1>8, <2>2, ReturnFalseKeeps DEF get
    <2>3. QED
        BY <2>1, <2>2
<1>9. ASSUME back
      PROVE  RingInv'
    <2>1. CASE ring.count # 0
        <3>1. ring.count - 1 \in Slot
            BY <1>1, <2>1 DEF Slot
        <3>2. <<At(ring, ring.count - 1)>> \in Seq(Value)
            BY <1>1, <3>1, AtType
        <3>3. QED
            BY <1>1, <1>9, <2>1, <3>2, ReturnKeeps DEF back
    <2>2. CASE ring.count = 0
        BY <1>9, <2>2, ReturnFalseKeeps DEF back
    <2>3. QED
        BY <2>1, <2>2
<1>10. ASSUME NEW f \in [Value -> Value], NEW stop \in 1 .. Capacity,
              for_each_until(f, stop)
       PROVE  RingInv'
    <2> DEFINE seen == IF stop <= ring.count THEN stop ELSE ring.count
               g == [i \in Slot |-> IF i < seen THEN f[At(ring, i)] ELSE At(ring, i)]
               out == [n \in 1 .. seen |-> At(ring, n - 1)]
    <2>1. seen \in 0 .. ring.count
        BY <1>1
    <2>2. Return(WithElements(ring, g), out)
        BY <1>10 DEF for_each_until
    <2> HIDE DEF seen
    <2>3. WithElements(ring, g) \in Ring /\ Clean(WithElements(ring, g))
        BY <1>1, <2>1, Traversed
    <2>4. out \in Seq(Value)
        <3>1. ASSUME NEW n \in 1 .. seen
              PROVE  At(ring, n - 1) \in Value
            <4>1. n - 1 \in Slot
                BY <1>1, <2>1 DEF Slot
            <4>2. QED
                BY <1>1, <4>1, AtType
        <3>2. out \in [1 .. seen -> Value] /\ seen \in Nat
            BY <2>1, <3>1
        <3>3. QED
            BY <3>2, SeqDef
    <2> HIDE DEF g, out
    <2>5. QED
        BY <2>2, <2>3, <2>4, ReturnKeeps
<1>11. ASSUME clear
       PROVE  RingInv'
    <2> DEFINE g == [i \in Slot |-> IF i < ring.count THEN Default ELSE At(ring, i)]
               c == [data |-> WithElements(ring, g).data, head |-> 0, count |-> 0]
    <2>1. c \in Ring /\ Clean(c)
        BY <1>1, Cleared
    <2>2. Return(c, <<>>)
        BY <1>11 DEF clear
    <2> HIDE DEF c
    <2>3. QED
        BY <1>1, <2>1, <2>2, ReturnKeeps
<1>12. ASSUME UNCHANGED vars
       PROVE  RingInv'
    BY <1>12 DEF vars, RingInv, TypeOK, UnusedSlotsReset, Clean, At, phys
<1>13. QED
    BY <1>2, <1>3, <1>4, <1>5, <1>6, <1>7, <1>8, <1>9, <1>10, <1>11, <1>12 DEF Next

(* The members of a SafeRingBuffer always have the values their types and  *)
(* the code's arithmetic allow: head is a slot, count at most Capacity.    *)
THEOREM TypeCorrect == Spec => []TypeOK
<1>1. Spec => []RingInv
    BY RingInvInit, RingInvNext, PTL DEF Spec
<1>2. RingInv => TypeOK
    BY DEF RingInv
<1>3. QED
    BY <1>1, <1>2, PTL

(* For every capacity and element type, no slot outside the window keeps   *)
(* an element alive: reset_front_unlocked, reset_back_unlocked and clear,  *)
(* and the shifts of insert and remove, leave T{} there.                   *)
THEOREM ResetWhenUnused == Spec => []UnusedSlotsReset
<1>1. Spec => []RingInv
    BY RingInvInit, RingInvNext, PTL DEF Spec
<1>2. RingInv => UnusedSlotsReset
    BY DEF RingInv
<1>3. QED
    BY <1>1, <1>2, PTL
=============================================================================
