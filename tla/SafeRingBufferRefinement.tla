---------------------- MODULE SafeRingBufferRefinement ----------------------
(***************************************************************************)
(* The ring buffer implements the bounded deque, for every capacity and    *)
(* element type.  The argument: a window is a sequence, the two            *)
(* descriptions HasInserted and HasRemoved say exactly what the deque's    *)
(* Inserted and Removed say about windows, and the deque's Append, <<v>>   *)
(* \o and SubSeq are those two at the ends.                                *)
(***************************************************************************)
EXTENDS SafeRingBufferProofs

(* A window is a sequence of as many elements as the buffer counts.        *)
LEMMA WindowSeq ==
    ASSUME NEW b \in Ring
    PROVE  /\ Window(b) \in Seq(Value)
           /\ Len(Window(b)) = b.count
           /\ b.count \in Nat
           /\ DOMAIN Window(b) = 1 .. b.count
           /\ \A n \in 1 .. b.count : Window(b)[n] = At(b, n - 1)
<1>1. b.count \in Nat /\ b.count <= Capacity /\ Capacity \in Nat
    BY RingType, CapacityType
<1>2. ASSUME NEW n \in 1 .. b.count
      PROVE  At(b, n - 1) \in Value
    <2>1. n - 1 \in Slot
        BY <1>1 DEF Slot
    <2>2. QED
        BY <2>1, AtType
<1>3. Window(b) \in [1 .. b.count -> Value]
    BY <1>2 DEF Window
<1>4. Window(b) \in Seq(Value)
    BY <1>1, <1>3, SeqDef
<1>5. Len(Window(b)) = b.count
    BY <1>1, <1>3, <1>4, LenProperties
<1>6. QED
    BY <1>1, <1>3, <1>4, <1>5 DEF Window

(* An insertion into the buffer is the same insertion into its window. *)
LEMMA WindowInserted ==
    ASSUME NEW b \in Ring, NEW i \in 0 .. b.count, NEW v \in Value,
           b.count < Capacity, NEW c, HasInserted(c, b, i, v)
    PROVE  Window(c) = D!Inserted(Window(b), i, v)
<1>1. b.count \in Nat /\ Capacity \in Nat /\ c.count = b.count + 1 /\ i \in Nat
    BY RingType, CapacityType DEF HasInserted
<1>2. ASSUME NEW n \in 1 .. b.count + 1
      PROVE  At(c, n - 1) = IF n <= i THEN Window(b)[n]
                            ELSE IF n = i + 1 THEN v ELSE Window(b)[n - 1]
    <2>1. n - 1 \in Slot
        BY <1>1 DEF Slot
    <2>2. At(c, n - 1) = IF n - 1 < i THEN At(b, n - 1)
                         ELSE IF n - 1 = i THEN v ELSE At(b, (n - 1) - 1)
        BY <2>1 DEF HasInserted
    <2>3. n <= i => Window(b)[n] = At(b, n - 1)
        BY <1>1, WindowSeq
    <2>4. n > i + 1 => Window(b)[n - 1] = At(b, (n - 1) - 1)
        BY <1>1, WindowSeq
    <2>5. QED
        BY <1>1, <2>2, <2>3, <2>4
<1>3. QED
    BY <1>1, <1>2, WindowSeq DEF Window, D!Inserted

(* A removal from the buffer is the same removal from its window. *)
LEMMA WindowRemoved ==
    ASSUME NEW b \in Ring, NEW i \in 0 .. b.count - 1,
           NEW c, HasRemoved(c, b, i)
    PROVE  Window(c) = D!Removed(Window(b), i)
<1>1. /\ b.count \in Nat /\ Capacity \in Nat /\ b.count <= Capacity
      /\ c.count = b.count - 1 /\ i \in Nat
    BY RingType, CapacityType DEF HasRemoved
<1>2. ASSUME NEW n \in 1 .. b.count - 1
      PROVE  At(c, n - 1) = IF n <= i THEN Window(b)[n] ELSE Window(b)[n + 1]
    <2>1. n - 1 \in Slot
        BY <1>1 DEF Slot
    <2>2. At(c, n - 1) = IF n - 1 < i THEN At(b, n - 1) ELSE At(b, (n - 1) + 1)
        BY <1>1, <2>1 DEF HasRemoved
    <2>3. Window(b)[n] = At(b, n - 1) /\ Window(b)[n + 1] = At(b, n)
        <3>1. n \in 1 .. b.count /\ n + 1 \in 1 .. b.count /\ (n + 1) - 1 = n
            BY <1>1
        <3>2. QED
            BY <3>1, WindowSeq
    <2>4. (n - 1) + 1 = n /\ (n <= i <=> n - 1 < i)
        BY <1>1
    <2>5. QED
        BY <2>2, <2>3, <2>4
<1>3. QED
    BY <1>1, <1>2, WindowSeq DEF Window, D!Removed

(* The deque's operators at either end are its general ones.               *)
LEMMA EndsOfDeque ==
    ASSUME NEW s \in Seq(Value), NEW v \in Value
    PROVE  /\ Append(s, v) = D!Inserted(s, Len(s), v)
           /\ <<v>> \o s = D!Inserted(s, 0, v)
           /\ s # <<>> => D!DropFirst(s) = D!Removed(s, 0)
           /\ s # <<>> => D!DropLast(s) = D!Removed(s, Len(s) - 1)
<1>1. Len(s) \in Nat /\ (s # <<>> => Len(s) > 0)
    BY EmptySeq, LenProperties
<1>2. Append(s, v) = D!Inserted(s, Len(s), v)
    <2> DEFINE t == Append(s, v)
    <2>1. /\ t \in Seq(Value)
          /\ Len(t) = Len(s) + 1
          /\ \A n \in 1 .. Len(s) : t[n] = s[n]
          /\ t[Len(s) + 1] = v
        BY AppendProperties
    <2> HIDE DEF t
    <2>2. t \in [1 .. Len(t) -> Value]
        BY <2>1, LenProperties
    <2>3. t = [n \in 1 .. Len(s) + 1 |-> t[n]]
        BY <2>1, <2>2
    <2>4. \A n \in 1 .. Len(s) + 1 :
             t[n] = IF n <= Len(s) THEN s[n]
                    ELSE IF n = Len(s) + 1 THEN v ELSE s[n - 1]
        BY <1>1, <2>1
    <2>5. t = D!Inserted(s, Len(s), v)
        BY <1>1, <2>3, <2>4 DEF D!Inserted
    <2>6. QED
        BY <2>5 DEF t
<1>3. <<v>> \o s = D!Inserted(s, 0, v)
    <2>1. <<v>> \o s = [n \in 1 .. Len(s) + 1 |-> IF n = 1 THEN v ELSE s[n - 1]]
        BY <1>1
    <2>2. QED
        BY <1>1, <2>1 DEF D!Inserted
<1>4. s # <<>> => D!DropFirst(s) = D!Removed(s, 0)
    BY <1>1 DEF D!DropFirst, D!Removed
<1>5. s # <<>> => D!DropLast(s) = D!Removed(s, Len(s) - 1)
    BY <1>1 DEF D!DropLast, D!Removed
<1>6. QED
    BY <1>2, <1>3, <1>4, <1>5

-----------------------------------------------------------------------------
(* One operation of the ring buffer is the same operation of the deque.    *)

(* Returning true with a buffer is success of the deque with its window. *)
LEMMA ReturnSucceeds ==
    ASSUME NEW b, NEW out, Return(b, out), NEW w, Window(b) = w
    PROVE  D!Succeed(w, out)
BY DEF Return, D!Succeed, Window, At, phys

(* Returning false is failure of the deque. *)
LEMMA ReturnFalseFails ==
    ASSUME ReturnFalse
    PROVE  D!Fail
BY DEF ReturnFalse, D!Fail, Window, At, phys

(* make_room_unlocked evicts from the buffer what the policy evicts from the
   deque, and has room exactly when the deque has. *)
LEMMA RoomEvicted ==
    ASSUME RingInv, NEW policy \in Policy
    PROVE  /\ HasRoom(ring, policy) <=> D!HasRoom(policy)
           /\ HasRoom(ring, policy) =>
                Window(make_room_unlocked(ring, policy)) = D!Evicted(policy)
<1> DEFINE c == make_room_unlocked(ring, policy)
           w == Window(ring)
           last == Capacity - 1
<1>1. /\ ring \in Ring /\ Clean(ring)
      /\ ring.count \in Nat /\ ring.count <= Capacity
      /\ Capacity \in Nat /\ Capacity > 0
      /\ w \in Seq(Value) /\ Len(w) = ring.count
    BY RingType, CapacityType, WindowSeq DEF RingInv, TypeOK, UnusedSlotsReset
<1>2. HasRoom(ring, policy) <=> D!HasRoom(policy)
    BY <1>1 DEF HasRoom, D!HasRoom
<1>3. ASSUME HasRoom(ring, policy)
      PROVE  Window(c) = D!Evicted(policy)
    <2>1. CASE ring.count < Capacity
        <3>1. c = ring
            BY <1>1, <1>3, <2>1, MakeRoomAt
        <3>2. D!Evicted(policy) = w
            BY <1>1, <2>1 DEF D!Evicted
        <3>3. QED
            BY <3>1, <3>2
    <2>2. CASE ring.count = Capacity /\ policy = "Front"
        <3>1. HasRemoved(c, ring, 0)
            BY <1>1, <1>3, <2>2, MakeRoomAt
        <3> HIDE DEF c
        <3>2. Window(c) = D!Removed(w, 0)
            BY <1>1, <2>2, <3>1, WindowRemoved
        <3>3. D!Evicted(policy) = D!DropFirst(w)
            BY <1>1, <2>2 DEF D!Evicted
        <3>4. w # <<>>
            BY <1>1, <2>2, EmptySeq
        <3> HIDE DEF w
        <3>5. QED
            BY <1>1, <3>2, <3>3, <3>4, DefaultAssumption, EndsOfDeque
    <2>3. CASE ring.count = Capacity /\ policy = "Back"
        <3>1. HasRemoved(c, ring, last)
            BY <1>1, <1>3, <2>3, MakeRoomAt
        <3>2. last \in 0 .. ring.count - 1 /\ last = Len(w) - 1
            BY <1>1, <2>3
        <3> HIDE DEF c, last
        <3>3. Window(c) = D!Removed(w, last)
            BY <1>1, <3>1, <3>2, WindowRemoved
        <3>4. D!Evicted(policy) = D!DropLast(w)
            BY <1>1, <2>3 DEF D!Evicted
        <3>5. w # <<>>
            BY <1>1, <2>3, EmptySeq
        <3> HIDE DEF w
        <3>6. QED
            BY <1>1, <3>2, <3>3, <3>4, <3>5, DefaultAssumption, EndsOfDeque
    <2>4. QED
        BY <1>1, <1>3, <2>1, <2>2, <2>3, MakeRoomAt
<1>4. QED
    BY <1>2, <1>3

(* push_back appends to the deque. *)
LEMMA PushBackImplements ==
    ASSUME RingInv, NEW v \in Value, NEW policy \in Policy, push_back(v, policy)
    PROVE  D!push_back(v, policy)
<1> DEFINE b == make_room_unlocked(ring, policy)
           c == Grown(Store(b, b.count, v))
           k == b.count
           w == Window(b)
<1>1. HasRoom(ring, policy) <=> D!HasRoom(policy)
    BY RoomEvicted
<1>2. CASE HasRoom(ring, policy)
    <2>1. b \in Ring /\ Clean(b) /\ b.count < Capacity
        BY <1>2, RoomMade DEF RingInv, TypeOK, UnusedSlotsReset
    <2>2. w = D!Evicted(policy)
        BY <1>2, RoomEvicted
    <2>3. Return(c, <<>>)
        BY <1>2, push_back(v, policy) DEF push_back
    <2> HIDE DEF b
    <2>4. HasInserted(c, b, k, v) /\ k \in 0 .. b.count /\ k = Len(w) /\ w \in Seq(Value)
        BY <2>1, PushBackAt, WindowSeq
    <2> HIDE DEF c, k
    <2>5. Window(c) = D!Inserted(w, k, v)
        BY <2>1, <2>4, WindowInserted
    <2> HIDE DEF w
    <2>6. Window(c) = Append(w, v)
        BY <2>4, <2>5, EndsOfDeque
    <2>7. D!Succeed(Append(w, v), <<>>)
        BY <2>3, <2>6, ReturnSucceeds
    <2>8. QED
        BY <1>1, <1>2, <2>2, <2>7 DEF D!push_back
<1>3. CASE ~HasRoom(ring, policy)
    BY <1>1, <1>3, ReturnFalseFails, push_back(v, policy) DEF push_back, D!push_back
<1>4. QED
    BY <1>2, <1>3

(* push_front prepends to the deque. *)
LEMMA PushFrontImplements ==
    ASSUME RingInv, NEW v \in Value, NEW policy \in Policy, push_front(v, policy)
    PROVE  D!push_front(v, policy)
<1> DEFINE b == make_room_unlocked(ring, policy)
           c == Grown(Store(StepBack(b), 0, v))
           w == Window(b)
<1>1. HasRoom(ring, policy) <=> D!HasRoom(policy)
    BY RoomEvicted
<1>2. CASE HasRoom(ring, policy)
    <2>1. b \in Ring /\ Clean(b) /\ b.count < Capacity
        BY <1>2, RoomMade DEF RingInv, TypeOK, UnusedSlotsReset
    <2>2. w = D!Evicted(policy)
        BY <1>2, RoomEvicted
    <2>3. Return(c, <<>>)
        BY <1>2, push_front(v, policy) DEF push_front
    <2> HIDE DEF b
    <2>4. HasInserted(c, b, 0, v) /\ 0 \in 0 .. b.count /\ w \in Seq(Value)
        BY <2>1, PushFrontAt, WindowSeq
    <2> HIDE DEF c
    <2>5. Window(c) = D!Inserted(w, 0, v)
        BY <2>1, <2>4, WindowInserted
    <2> HIDE DEF w
    <2>6. Window(c) = <<v>> \o w
        BY <2>4, <2>5, EndsOfDeque
    <2>7. D!Succeed(<<v>> \o w, <<>>)
        BY <2>3, <2>6, ReturnSucceeds
    <2>8. QED
        BY <1>1, <1>2, <2>2, <2>7 DEF D!push_front
<1>3. CASE ~HasRoom(ring, policy)
    BY <1>1, <1>3, ReturnFalseFails, push_front(v, policy) DEF push_front, D!push_front
<1>4. QED
    BY <1>2, <1>3

(* insert inserts into the deque at the same index, clamped to the end after
   an eviction. *)
LEMMA InsertImplements ==
    ASSUME RingInv, NEW v \in Value, NEW policy \in Policy,
           NEW i \in 0 .. Capacity + 1, insert(i, v, policy)
    PROVE  D!insert(i, v, policy)
<1> DEFINE b == make_room_unlocked(ring, policy)
           k == IF i > b.count THEN b.count ELSE i
           c == IF k <= b.count \div 2 THEN InsertInFrontHalf(b, k, v)
                                      ELSE InsertInBackHalf(b, k, v)
           w == Window(b)
<1>1. /\ HasRoom(ring, policy) <=> D!HasRoom(policy)
      /\ ring \in Ring /\ Len(Window(ring)) = ring.count
      /\ ring.count \in Nat /\ i \in Nat /\ Capacity \in Nat
    BY RoomEvicted, WindowSeq, CapacityType DEF RingInv, TypeOK
<1>2. CASE i <= ring.count /\ HasRoom(ring, policy)
    <2>1. b \in Ring /\ Clean(b) /\ b.count < Capacity
        BY <1>2, RoomMade DEF RingInv, TypeOK, UnusedSlotsReset
    <2>2. w = D!Evicted(policy)
        BY <1>2, RoomEvicted
    <2>3. Return(c, <<>>)
        BY <1>1, <1>2, insert(i, v, policy) DEF insert
    <2> HIDE DEF b
    <2>4. /\ k \in 0 .. b.count /\ w \in Seq(Value) /\ Len(w) = b.count
          /\ k = IF i <= Len(w) THEN i ELSE Len(w)
        BY <1>1, <2>1, WindowSeq
    <2>5. HasInserted(c, b, k, v)
        <3> HIDE DEF k
        <3> QED BY <2>1, <2>4, InsertInFrontHalfAt, InsertInBackHalfAt
    <2> HIDE DEF c, k
    <2>6. Window(c) = D!Inserted(w, k, v)
        BY <2>1, <2>4, <2>5, WindowInserted
    <2>7. D!Succeed(D!Inserted(w, k, v), <<>>)
        BY <2>3, <2>6, ReturnSucceeds
    <2> HIDE DEF w
    <2>8. QED
        BY <1>1, <1>2, <2>2, <2>4, <2>7 DEF D!insert
<1>3. CASE ~(i <= ring.count /\ HasRoom(ring, policy))
    <2>1. ReturnFalse
        BY <1>1, <1>3, insert(i, v, policy) DEF insert
    <2>2. QED
        BY <1>1, <1>3, <2>1, ReturnFalseFails DEF D!insert
<1>4. QED
    BY <1>2, <1>3

(* pop_back and pop_front take the last and the first element of the deque. *)
LEMMA PopImplements ==
    ASSUME RingInv
    PROVE  /\ pop_back => D!pop_back
           /\ pop_front => D!pop_front
<1> DEFINE w == Window(ring)
           f == reset_front_unlocked(ring)
           r == reset_back_unlocked(ring)
           k == ring.count - 1
<1>1. /\ ring \in Ring /\ Clean(ring) /\ w \in Seq(Value) /\ Len(w) = ring.count
      /\ ring.count \in Nat /\ (ring.count = 0 <=> w = <<>>)
      /\ \A n \in 1 .. ring.count : w[n] = At(ring, n - 1)
    BY WindowSeq, EmptySeq DEF RingInv, TypeOK, UnusedSlotsReset
<1>2. CASE ring.count = 0
    BY <1>1, <1>2, ReturnFalseFails DEF pop_back, pop_front, D!pop_back, D!pop_front
<1>3. CASE ring.count # 0
    <2>1. HasRemoved(f, ring, 0) /\ HasRemoved(r, ring, k)
        BY <1>1, <1>3, Popped
    <2>2. /\ At(ring, ring.count - 1) = w[Len(w)]
          /\ ring.data[ring.head] = w[1]
        <3>1. At(ring, 0) = ring.data[ring.head]
            <4>1. 0 \in Slot /\ ring.head \in Nat /\ ring.head < Capacity
                BY <1>1, CapacityType, RingType DEF Slot
            <4>2. phys(ring, 0) = IF ring.head + 0 < Capacity THEN ring.head + 0
                                  ELSE ring.head + 0 - Capacity
                BY <1>1, <4>1, PhysValue
            <4>3. phys(ring, 0) = ring.head
                BY <4>1, <4>2
            <4>4. QED
                BY <4>3 DEF At
        <3>2. w[1] = At(ring, 0) /\ w[ring.count] = At(ring, ring.count - 1)
            BY <1>1, <1>3
        <3>3. QED
            BY <1>1, <3>1, <3>2
    <2>3. /\ pop_front => Return(f, <<w[1]>>)
          /\ pop_back => Return(r, <<w[Len(w)]>>)
        BY <1>3, <2>2 DEF pop_front, pop_back
    <2>4. 0 \in 0 .. ring.count - 1 /\ k \in 0 .. ring.count - 1 /\ k = Len(w) - 1
        BY <1>1, <1>3
    <2> HIDE DEF f, r, k
    <2>5. Window(f) = D!Removed(w, 0) /\ Window(r) = D!Removed(w, k)
        BY <1>1, <2>1, <2>4, WindowRemoved
    <2> HIDE DEF w
    <2>6. Window(f) = D!DropFirst(w) /\ Window(r) = D!DropLast(w)
        BY <1>1, <1>3, <2>4, <2>5, DefaultAssumption, EndsOfDeque
    <2>7. /\ pop_front => D!Succeed(D!DropFirst(w), <<w[1]>>)
          /\ pop_back => D!Succeed(D!DropLast(w), <<w[Len(w)]>>)
        BY <2>3, <2>6, ReturnSucceeds
    <2>8. QED
        BY <1>1, <1>3, <2>7 DEF D!pop_front, D!pop_back, w
<1>4. QED
    BY <1>2, <1>3

(* remove takes out the element of the deque at the same index. *)
LEMMA RemoveImplements ==
    ASSUME RingInv, NEW i \in 0 .. Capacity, NEW wanted \in BOOLEAN,
           remove(i, wanted)
    PROVE  D!remove(i, wanted)
<1> DEFINE w == Window(ring)
           c == IF i <= ring.count \div 2 THEN RemoveInFrontHalf(ring, i)
                                         ELSE RemoveInBackHalf(ring, i)
           out == IF wanted THEN <<w[i + 1]>> ELSE <<>>
<1>1. /\ ring \in Ring /\ Clean(ring) /\ Len(w) = ring.count
      /\ ring.count \in Nat /\ i \in Nat /\ Capacity \in Nat
      /\ \A n \in 1 .. ring.count : w[n] = At(ring, n - 1)
    BY WindowSeq, CapacityType DEF RingInv, TypeOK, UnusedSlotsReset
<1>2. CASE i < ring.count
    <2>1. w[i + 1] = At(ring, i)
        BY <1>1, <1>2
    <2>2. Return(c, out)
        BY <1>1, <1>2, <2>1, remove(i, wanted) DEF remove
    <2>3. i \in 0 .. ring.count - 1
        BY <1>1, <1>2
    <2>4. HasRemoved(c, ring, i)
        BY <1>1, <2>3, RemoveInFrontHalfAt, RemoveInBackHalfAt
    <2> HIDE DEF c, out
    <2>5. Window(c) = D!Removed(w, i)
        BY <1>1, <2>3, <2>4, WindowRemoved
    <2>6. D!Succeed(D!Removed(w, i), out)
        BY <2>2, <2>5, ReturnSucceeds
    <2>7. QED
        BY <1>1, <1>2, <2>6 DEF D!remove, out
<1>3. CASE ~(i < ring.count)
    <2>1. ReturnFalse
        BY <1>1, <1>3, remove(i, wanted) DEF remove
    <2>2. QED
        BY <1>1, <1>3, <2>1, ReturnFalseFails DEF D!remove
<1>4. QED
    BY <1>2, <1>3

(* get, front and back return elements of the deque and change nothing. *)
LEMMA PeekImplements ==
    ASSUME RingInv
    PROVE  /\ \A i \in 0 .. Capacity : get(i) => D!get(i)
           /\ back => D!back
<1> DEFINE w == Window(ring)
<1>1. /\ ring \in Ring /\ Len(w) = ring.count /\ w \in Seq(Value)
      /\ ring.count \in Nat /\ Capacity \in Nat /\ (ring.count = 0 <=> w = <<>>)
      /\ \A n \in 1 .. ring.count : w[n] = At(ring, n - 1)
    BY WindowSeq, EmptySeq, CapacityType DEF RingInv, TypeOK
<1>2. ASSUME NEW i \in 0 .. Capacity, get(i)
      PROVE  D!get(i)
    <2>1. CASE i < ring.count
        <3>1. w[i + 1] = At(ring, i)
            BY <1>1, <2>1
        <3>2. Return(ring, <<w[i + 1]>>)
            BY <1>1, <1>2, <2>1, <3>1 DEF get
        <3>3. D!Succeed(w, <<w[i + 1]>>)
            BY <3>2, ReturnSucceeds
        <3>4. QED
            BY <1>1, <2>1, <3>3 DEF D!get
    <2>2. CASE ~(i < ring.count)
        BY <1>1, <1>2, <2>2, ReturnFalseFails DEF get, D!get
    <2>3. QED
        BY <2>1, <2>2
<1>3. ASSUME back
      PROVE  D!back
    <2>1. CASE ring.count # 0
        <3>1. w[Len(w)] = At(ring, ring.count - 1)
            BY <1>1, <2>1
        <3>2. Return(ring, <<w[Len(w)]>>)
            BY <1>3, <2>1, <3>1 DEF back
        <3>3. D!Succeed(w, <<w[Len(w)]>>)
            BY <3>2, ReturnSucceeds
        <3>4. QED
            BY <1>1, <2>1, <3>3 DEF D!back
    <2>2. CASE ring.count = 0
        BY <1>1, <1>3, <2>2, ReturnFalseFails DEF back, D!back
    <2>3. QED
        BY <2>1, <2>2
<1>4. QED
    BY <1>2, <1>3

(* for_each_until visits the deque front to back. *)
LEMMA TraversalImplements ==
    ASSUME RingInv, NEW f \in [Value -> Value], NEW stop \in 1 .. Capacity,
           for_each_until(f, stop)
    PROVE  D!for_each_until(f, stop)
<1> DEFINE w == Window(ring)
           seen == IF stop <= ring.count THEN stop ELSE ring.count
           g == [i \in Slot |-> IF i < seen THEN f[At(ring, i)] ELSE At(ring, i)]
           c == WithElements(ring, g)
           out == [n \in 1 .. seen |-> At(ring, n - 1)]
<1>1. /\ ring \in Ring /\ Clean(ring) /\ Len(w) = ring.count
      /\ ring.count \in Nat /\ Capacity \in Nat /\ ring.count <= Capacity
      /\ \A n \in 1 .. ring.count : w[n] = At(ring, n - 1)
    BY WindowSeq, CapacityType, RingType DEF RingInv, TypeOK, UnusedSlotsReset
<1>2. seen \in 0 .. ring.count /\ seen \in Nat
    BY <1>1
<1>3. seen = IF stop <= Len(w) THEN stop ELSE Len(w)
    BY <1>1
<1>4. Return(c, out)
    BY for_each_until(f, stop) DEF for_each_until
<1> HIDE DEF seen
<1>5. c.count = ring.count /\ \A j \in Slot : At(c, j) = g[j]
    BY <1>1, <1>2, Traversed
<1>6. Window(c) = [n \in 1 .. Len(w) |-> IF n <= seen THEN f[w[n]] ELSE w[n]]
    <2>1. ASSUME NEW n \in 1 .. ring.count
          PROVE  At(c, n - 1) = IF n <= seen THEN f[w[n]] ELSE w[n]
        <3>1. n - 1 \in Slot
            BY <1>1 DEF Slot
        <3>2. At(c, n - 1) = IF n - 1 < seen THEN f[At(ring, n - 1)] ELSE At(ring, n - 1)
            BY <1>5, <3>1
        <3>3. QED
            BY <1>1, <1>2, <3>2
    <2> HIDE DEF c, w
    <2>2. QED
        BY <1>1, <1>5, <2>1 DEF Window
<1>7. out = SubSeq(w, 1, seen)
    <2>1. \A n \in 1 .. seen : At(ring, n - 1) = w[n]
        BY <1>1, <1>2
    <2> HIDE DEF w
    <2>2. SubSeq(w, 1, seen) = [n \in 1 .. seen |-> w[n]]
        BY <1>1, <1>2
    <2>3. QED
        BY <2>1, <2>2
<1> HIDE DEF c, out
<1>8. D!Succeed([n \in 1 .. Len(w) |-> IF n <= seen THEN f[w[n]] ELSE w[n]],
                SubSeq(w, 1, seen))
    BY <1>4, <1>6, <1>7, ReturnSucceeds
<1>9. QED
    BY <1>3, <1>8 DEF D!for_each_until

(* clear empties the deque. *)
LEMMA ClearImplements ==
    ASSUME RingInv, clear
    PROVE  D!clear
<1> DEFINE g == [i \in Slot |-> IF i < ring.count THEN Default ELSE At(ring, i)]
           c == [data |-> WithElements(ring, g).data, head |-> 0, count |-> 0]
<1>1. c \in Ring /\ c.count = 0
    BY Cleared DEF RingInv, TypeOK, UnusedSlotsReset
<1>2. Return(c, <<>>)
    BY clear DEF clear
<1> HIDE DEF c
<1>3. Window(c) = <<>>
    BY <1>1, WindowSeq, EmptySeq
<1>4. QED
    BY <1>2, <1>3, ReturnSucceeds DEF D!clear

(* A constructed buffer is an empty deque. *)
LEMMA InitImplements == Init => D!Init
<1> SUFFICES ASSUME Init
             PROVE  D!Init
    OBVIOUS
<1>1. ring \in Ring /\ ring.count = 0
    BY RingInvInit DEF Init, RingInv, TypeOK
<1>2. Window(ring) = <<>>
    BY <1>1, WindowSeq, EmptySeq
<1>3. QED
    BY <1>2 DEF Init, D!Init

(* Every operation of the buffer is an operation of the deque. *)
LEMMA NextImplements ==
    ASSUME RingInv, [Next]_vars
    PROVE  [D!Next]_(D!vars)
<1>1. CASE UNCHANGED vars
    BY <1>1 DEF vars, D!vars, Window, At, phys
<1>2. ASSUME NEW v \in Value, NEW policy \in Policy,
             \/ push_back(v, policy)
             \/ push_front(v, policy)
             \/ \E i \in 0 .. Capacity + 1 : insert(i, v, policy)
      PROVE  D!Next
    BY <1>2, PushBackImplements, PushFrontImplements, InsertImplements
       DEF D!Next, Policy, D!Policy
<1>3. CASE pop_back \/ pop_front
    BY <1>3, PopImplements DEF D!Next
<1>4. CASE \E i \in 0 .. Capacity, wanted \in BOOLEAN : remove(i, wanted)
    BY <1>4, RemoveImplements DEF D!Next
<1>5. CASE (\E i \in 0 .. Capacity : get(i)) \/ back
    BY <1>5, PeekImplements DEF D!Next
<1>6. CASE \E f \in [Value -> Value], stop \in 1 .. Capacity : for_each_until(f, stop)
    BY <1>6, TraversalImplements DEF D!Next
<1>7. CASE clear
    BY <1>7, ClearImplements DEF D!Next
<1>8. QED
    BY <1>1, <1>2, <1>3, <1>4, <1>5, <1>6, <1>7 DEF Next

(* For every capacity and element type the ring buffer is a bounded deque: *)
(* no operation, whatever policy, index or shift direction it meets, shows *)
(* its caller anything else.                                               *)
THEOREM RingImplementsDeque == Spec => ImplementsDeque
<1>1. Spec => []RingInv
    BY RingInvInit, RingInvNext, PTL DEF Spec
<1>2. QED
    BY <1>1, InitImplements, NextImplements, PTL DEF Spec, ImplementsDeque, D!Spec
=============================================================================
