----------------------- MODULE RingBufferAccessProofs -----------------------
(***************************************************************************)
(* The members of the ring stay legal at every store, the critical         *)
(* sections exclude each other and no element is lost, for any number of   *)
(* tasks, interrupts and cores; the last two if the platform is Protected. *)
(*                                                                         *)
(* What is left of a body always Settles: its last store to count leaves   *)
(* what its section found, and its gain.  As a section is alone, what it   *)
(* found is what the last one left, and so count is the balance of what    *)
(* all callers have been told.                                             *)
(*                                                                         *)
(* The same argument with the whole ring in place of count proves that the *)
(* buffer is atomic: the stores of a body, loops included, lead from the   *)
(* members it found to what the operation of SafeRingBuffer makes of them  *)
(* at once, what is left of them always keeps that Promise, and a caller   *)
(* who leaves its section has nothing left.                                *)
(***************************************************************************)
EXTENDS RingBufferAccess, SequenceTheorems, TLAPS

(* Why: on each core at most one caller has the interrupts masked, and the *)
(* lock names the one caller inside that takes it.                         *)
OnePerCore ==
    \A p, q \in Process :
        phase[p] # "outside" /\ phase[q] # "outside" /\ CoreOf[p] = CoreOf[q] => p = q

LockNamesHolder == \A p \in Process : Inside(p) /\ TakesLock(p) => lock = p

PhaseOK == phase \in [Process -> {"outside", "entering", "inside"}]

SectionInv == PhaseOK /\ OnePerCore /\ LockNamesHolder

(* Nobody is in a critical section initially. *)
LEMMA SectionInvInit == Init => SectionInv
BY DEF Init, SectionInv, PhaseOK, OnePerCore, LockNamesHolder, Inside

(* Entering, taking the lock, storing and leaving keep the invariant. *)
LEMMA SectionInvNext == SectionInv /\ [Next]_vars => SectionInv'
<1> SUFFICES ASSUME SectionInv, [Next]_vars
             PROVE  SectionInv'
    OBVIOUS
<1> USE DEF SectionInv, PhaseOK, OnePerCore, LockNamesHolder, Inside
<1>1. ASSUME NEW p \in Process, Enter(p)
      PROVE  SectionInv'
    BY <1>1 DEF Enter, Masked, TakesLock
<1>2. ASSUME NEW p \in Process, Begin(p)
      PROVE  SectionInv'
    <2>1. PhaseOK' /\ OnePerCore'
        BY <1>2 DEF Begin
    <2>2. ASSUME NEW q \in Process, Inside(q)', TakesLock(q)
          PROVE  lock' = q
        <3>1. CASE q = p
            BY <1>2, <2>2, <3>1 DEF Begin
        <3>2. CASE q # p
            <4>1. lock = q
                BY <1>2, <2>2, <3>2 DEF Begin
            <4>2. ~TakesLock(p)
                BY <1>2, <4>1, PlatformAssumption DEF Begin
            <4>3. QED
                BY <1>2, <4>1, <4>2 DEF Begin
        <3>3. QED
            BY <3>1, <3>2
    <2>3. LockNamesHolder'
        BY <2>2 DEF TakesLock
    <2>4. QED
        BY <2>1, <2>3
<1>3. ASSUME NEW p \in Process, Step(p)
      PROVE  SectionInv'
    BY <1>3 DEF Step, TakesLock
<1>4. ASSUME NEW p \in Process, Exit(p)
      PROVE  SectionInv'
    <2>1. PhaseOK' /\ OnePerCore'
        BY <1>4 DEF Exit
    <2>2. ASSUME NEW q \in Process, Inside(q)', TakesLock(q)
          PROVE  lock' = q
        <3>1. q # p /\ lock = q
            BY <1>4, <2>2 DEF Exit
        <3>2. ~TakesLock(p)
            BY <1>4, <3>1 DEF Exit
        <3>3. QED
            BY <1>4, <3>1, <3>2 DEF Exit
    <2>3. LockNamesHolder'
        BY <2>2 DEF TakesLock
    <2>4. QED
        BY <2>1, <2>3
<1>5. CASE UNCHANGED vars
    BY <1>5 DEF vars, TakesLock
<1>6. QED
    BY <1>1, <1>2, <1>3, <1>4, <1>5 DEF Next

(* On a Protected platform, whatever the number of callers and cores, no   *)
(* two callers are between the braces of a SafeRingBuffer operation at the *)
(* same time.                                                              *)
THEOREM SectionsExclude ==
    ASSUME Protected
    PROVE  Spec => []Exclusive
<1>1. SectionInv => Exclusive
    <2> SUFFICES ASSUME SectionInv, NEW p \in Process, NEW q \in Process,
                        Inside(p), Inside(q)
                 PROVE  p = q
        BY DEF Exclusive
    <2>1. CASE CoreOf[p] = CoreOf[q]
        BY <2>1 DEF SectionInv, OnePerCore, Inside
    <2>2. CASE TakesLock(p) /\ TakesLock(q)
        BY <2>2 DEF SectionInv, LockNamesHolder
    <2>3. QED
        BY <2>1, <2>2, Protected DEF Protected
<1>2. Spec => []SectionInv
    BY SectionInvInit, SectionInvNext, PTL DEF Spec
<1>3. QED
    BY <1>1, <1>2, PTL
-----------------------------------------------------------------------------
(* Stores and sequences of stores.                                         *)

(* The count that c becomes when the stores of s are done is n. *)
Settles(c, s, n) ==
    \/ c = n /\ \A k \in DOMAIN s : s[k].kind # "count"
    \/ \E k \in DOMAIN s :
          s[k] = Count_(n) /\ \A j \in DOMAIN s : j > k => s[j].kind # "count"

(* What a body must be like: every store is to a member, within the array, *)
(* and the count ends up changed by what the body says it gained.          *)
Sound(b, w) == w \in Body /\ Settles(b.count, w.todo, b.count + w.gain)

(* A remainder is a slot. *)
LEMMA ModSlot ==
    ASSUME NEW x \in Int
    PROVE  x % Capacity \in A!Slot
BY BufferAssumption DEF A!Slot

(* The members of a ring. *)
LEMMA RingMembers ==
    ASSUME NEW b \in A!Ring
    PROVE  /\ b = [data |-> b.data, head |-> b.head, count |-> b.count]
           /\ b.data \in [A!Slot -> Value]
           /\ b.head \in A!Slot /\ b.head \in Nat /\ b.head < Capacity
           /\ b.count \in Nat /\ b.count <= Capacity
           /\ Capacity \in Nat \ {0}
           /\ \A i \in Int : A!phys(b, i) \in A!Slot
<1>1. /\ b = [data |-> b.data, head |-> b.head, count |-> b.count]
      /\ b.data \in [A!Slot -> Value]
      /\ b.head \in A!Slot /\ b.count \in 0 .. Capacity
    BY DEF A!Ring
<1>2. /\ b.head \in Nat /\ b.head < Capacity
      /\ b.count \in Nat /\ b.count <= Capacity /\ Capacity \in Nat \ {0}
    BY <1>1, BufferAssumption DEF A!Slot
<1>3. ASSUME NEW i \in Int
      PROVE  A!phys(b, i) \in A!Slot
    BY <1>2, ModSlot DEF A!phys
<1>4. QED
    BY <1>1, <1>2, <1>3

(* The kinds of stores. *)
LEMMA StoreTypes ==
    ASSUME NEW s \in A!Slot, NEW r \in A!Slot, NEW v \in Value, NEW f \in [Value -> Value],
           NEW n \in 0 .. Capacity
    PROVE  /\ Put(s, v) \in Store /\ Put(s, v).kind # "count"
           /\ Copy(s, r) \in Store /\ Copy(s, r).kind # "count"
           /\ Visit(s, f) \in Store /\ Visit(s, f).kind # "count"
           /\ Head_(s) \in Store /\ Head_(s).kind # "count"
           /\ Count_(n) \in Store /\ Count_(n).kind = "count"
BY DEF Store, Put, Copy, Visit, Head_, Count_

(* A store leaves a ring. *)
LEMMA StoredRing ==
    ASSUME NEW b \in A!Ring, NEW st \in Store
    PROVE  /\ Stored(b, st) \in A!Ring
           /\ st.kind = "count" => Stored(b, st).count = st.value
           /\ st.kind # "count" => Stored(b, st).count = b.count
<1>1. /\ b = [data |-> b.data, head |-> b.head, count |-> b.count]
      /\ b.data \in [A!Slot -> Value] /\ b.head \in A!Slot /\ b.count \in 0 .. Capacity
    BY DEF A!Ring
<1>2. CASE st \in [kind : {"put"}, slot : A!Slot, value : Value]
    <2>1. Stored(b, st) = [data |-> [b.data EXCEPT ![st.slot] = st.value],
                           head |-> b.head, count |-> b.count]
        BY <1>1, <1>2 DEF Stored
    <2>2. QED
        BY <1>1, <1>2, <2>1 DEF A!Ring
<1>3. CASE st \in [kind : {"copy"}, slot : A!Slot, from : A!Slot]
    <2>1. Stored(b, st) = [data |-> [b.data EXCEPT ![st.slot] = b.data[st.from]],
                           head |-> b.head, count |-> b.count]
        BY <1>1, <1>3 DEF Stored
    <2>2. b.data[st.from] \in Value
        BY <1>1, <1>3
    <2>3. QED
        BY <1>1, <1>3, <2>1, <2>2 DEF A!Ring
<1>4. CASE st \in [kind : {"visit"}, slot : A!Slot, rewrite : [Value -> Value]]
    <2>1. Stored(b, st) = [data |-> [b.data EXCEPT ![st.slot] = st.rewrite[b.data[st.slot]]],
                           head |-> b.head, count |-> b.count]
        BY <1>1, <1>4 DEF Stored
    <2>2. st.rewrite[b.data[st.slot]] \in Value
        BY <1>1, <1>4
    <2>3. QED
        BY <1>1, <1>4, <2>1, <2>2 DEF A!Ring
<1>5. CASE st \in [kind : {"head"}, value : A!Slot]
    BY <1>1, <1>5 DEF Stored, A!Ring
<1>6. CASE st \in [kind : {"count"}, value : 0 .. Capacity]
    BY <1>1, <1>6 DEF Stored, A!Ring
<1>7. QED
    BY <1>2, <1>3, <1>4, <1>5, <1>6 DEF Store

(* Without a store to count it stays as it is. *)
LEMMA SettlesSame ==
    ASSUME NEW s \in Seq(Store), NEW c, \A k \in 1 .. Len(s) : s[k].kind # "count"
    PROVE  Settles(c, s, c)
BY LenProperties DEF Settles

(* The last store to count decides. *)
LEMMA SettlesAt ==
    ASSUME NEW s \in Seq(Store), NEW c, NEW n, NEW k \in 1 .. Len(s), s[k] = Count_(n),
           \A j \in k + 1 .. Len(s) : s[j].kind # "count"
    PROVE  Settles(c, s, n)
<1>1. DOMAIN s = 1 .. Len(s) /\ Len(s) \in Nat
    BY LenProperties
<1>2. \A j \in DOMAIN s : j > k => j \in k + 1 .. Len(s)
    BY <1>1
<1>3. QED
    BY <1>1, <1>2 DEF Settles

(* A body that ends with it settles it. *)
LEMMA SettlesLast ==
    ASSUME NEW s \in Seq(Store), s # <<>>, NEW c, NEW n, s[Len(s)] = Count_(n)
    PROVE  Settles(c, s, n)
<1>1. Len(s) \in Nat \ {0} /\ DOMAIN s = 1 .. Len(s)
    BY EmptySeq, LenProperties
<1>2. PICK l \in Nat \ {0} : l = Len(s)
    BY <1>1
<1>3. l \in DOMAIN s /\ \A j \in DOMAIN s : ~(j > l)
    BY <1>1, <1>2
<1>4. QED
    BY <1>2, <1>3 DEF Settles

(* Stores in front of a store to count do not matter, nor do those after   *)
(* it that leave count alone.                                              *)
LEMMA SettlesConcat ==
    ASSUME NEW s \in Seq(Store), NEW r \in Seq(Store), NEW c, NEW n, r # <<>>,
           r[Len(r)] = Count_(n)
    PROVE  s \o r \in Seq(Store) /\ Settles(c, s \o r, n)
<1>1. /\ s \o r \in Seq(Store) /\ Len(s \o r) = Len(s) + Len(r)
      /\ \A i \in 1 .. Len(s) + Len(r) : (s \o r)[i] = IF i <= Len(s) THEN s[i] ELSE r[i - Len(s)]
      /\ Len(s) \in Nat /\ Len(r) \in Nat \ {0}
    BY ConcatProperties, LenProperties, EmptySeq
<1>2. PICK a \in Nat, d \in Nat \ {0} : a = Len(s) /\ d = Len(r)
    BY <1>1
<1>3. a + d \in 1 .. a + d /\ ~(a + d <= a) /\ a + d - a = d
    BY <1>2
<1>4. (s \o r)[a + d] = Count_(n)
    BY <1>1, <1>2, <1>3
<1>5. \A j \in a + d + 1 .. a + d : FALSE
    BY <1>2
<1>6. QED
    BY <1>1, <1>2, <1>3, <1>4, <1>5, SettlesAt

(* The stores go on: the count still becomes what it was to become. *)
LEMMA SettlesStep ==
    ASSUME NEW b \in A!Ring, NEW s \in Seq(Store), s # <<>>, NEW n, Settles(b.count, s, n)
    PROVE  Settles(Stored(b, Head(s)).count, Tail(s), n)
<1>1. /\ Head(s) = s[1] /\ Head(s) \in Store /\ Tail(s) \in Seq(Store)
      /\ Len(s) \in Nat \ {0} /\ Len(Tail(s)) = Len(s) - 1
      /\ \A i \in 1 .. Len(s) - 1 : Tail(s)[i] = s[i + 1]
    BY HeadTailProperties, LenProperties, EmptySeq
<1>2. PICK l \in Nat \ {0} : l = Len(s)
    BY <1>1
<1>3. /\ DOMAIN s = 1 .. l /\ DOMAIN Tail(s) = 1 .. l - 1
      /\ \A i \in 1 .. l - 1 : i + 1 \in 1 .. l /\ Tail(s)[i] = s[i + 1]
    BY <1>1, <1>2, LenProperties
<1>4. CASE b.count = n /\ \A k \in DOMAIN s : s[k].kind # "count"
    <2>1. Stored(b, Head(s)).count = n
        BY <1>1, <1>2, <1>3, <1>4, StoredRing
    <2>2. \A k \in DOMAIN Tail(s) : Tail(s)[k].kind # "count"
        BY <1>3, <1>4
    <2>3. QED
        BY <2>1, <2>2 DEF Settles
<1>5. ASSUME NEW k \in DOMAIN s, s[k] = Count_(n),
             \A j \in DOMAIN s : j > k => s[j].kind # "count"
      PROVE  Settles(Stored(b, Head(s)).count, Tail(s), n)
    <2>1. CASE k = 1
        <3>1. Stored(b, Head(s)).count = n
            BY <1>1, <1>5, <2>1, StoredRing DEF Count_
        <3>2. \A i \in DOMAIN Tail(s) : Tail(s)[i].kind # "count"
            BY <1>2, <1>3, <1>5, <2>1
        <3>3. QED
            BY <3>1, <3>2 DEF Settles
    <2>2. CASE k # 1
        <3>1. k - 1 \in DOMAIN Tail(s) /\ Tail(s)[k - 1] = Count_(n)
            BY <1>2, <1>3, <1>5, <2>2
        <3>2. \A j \in DOMAIN Tail(s) : j > k - 1 => Tail(s)[j].kind # "count"
            BY <1>2, <1>3, <1>5
        <3>3. QED
            BY <3>1, <3>2 DEF Settles
    <2>3. QED
        BY <2>1, <2>2
<1>6. QED
    BY <1>4, <1>5 DEF Settles
-----------------------------------------------------------------------------
(* The bodies.                                                             *)

LEMMA RefusedSound ==
    ASSUME NEW b \in A!Ring
    PROVE  Sound(b, Refused)
<1>1. Refused \in Body
    BY BufferAssumption DEF Refused, Body
<1>2. Settles(b.count, Refused.todo, b.count + Refused.gain)
    BY RingMembers DEF Refused, Settles
<1>3. QED
    BY <1>1, <1>2 DEF Sound

LEMMA AcceptedSound ==
    ASSUME NEW b \in A!Ring, NEW gain \in -Capacity .. 1, NEW todo \in Seq(Store),
           NEW out \in Seq(Value), Settles(b.count, todo, b.count + gain)
    PROVE  Sound(b, Accepted(gain, todo, out))
BY DEF Sound, Accepted, Body

(* A run of copies, or of visits, is a sequence of stores. *)
LEMMA RunOfStores ==
    ASSUME NEW k \in Nat, NEW s, DOMAIN s = 1 .. k, s = [n \in 1 .. k |-> s[n]],
           \A n \in 1 .. k : s[n] \in Store
    PROVE  s \in Seq(Store) /\ Len(s) = k
OBVIOUS

(* What reset_front_unlocked and reset_back_unlocked store last. *)
LEMMA ResetStores ==
    ASSUME NEW b \in A!Ring, b.count # 0
    PROVE  /\ ResetFront(b) \in Seq(Store) /\ ResetFront(b) # <<>>
           /\ ResetFront(b)[Len(ResetFront(b))] = Count_(b.count - 1)
           /\ ResetBack(b) \in Seq(Store) /\ ResetBack(b) # <<>>
           /\ ResetBack(b)[Len(ResetBack(b))] = Count_(b.count - 1)
           /\ Last(b) \in A!Slot
<1>1. /\ b.head \in A!Slot /\ Last(b) \in A!Slot /\ (b.head + 1) % Capacity \in A!Slot
      /\ b.count - 1 \in 0 .. Capacity /\ Default \in Value
    BY RingMembers, ModSlot, BufferAssumption DEF Last
<1>2. PICK p, h, n, q : /\ p = Put(b.head, Default) /\ h = Head_((b.head + 1) % Capacity)
                        /\ n = Count_(b.count - 1) /\ q = Put(Last(b), Default)
    OBVIOUS
<1>3. p \in Store /\ h \in Store /\ n \in Store /\ q \in Store
    BY <1>1, <1>2, BufferAssumption DEF Store, Put, Head_, Count_
<1>4. ResetFront(b) = <<p, h, n>> /\ ResetBack(b) = <<q, n>>
    BY <1>2 DEF ResetFront, ResetBack
<1>5. QED
    BY <1>1, <1>2, <1>3, <1>4

(* make_room_unlocked leaves room, at the price of an element or none. *)
LEMMA Room ==
    ASSUME NEW b \in A!Ring, NEW policy \in A!Policy, A!HasRoom(b, policy)
    PROVE  /\ A!make_room_unlocked(b, policy) \in A!Ring
           /\ A!make_room_unlocked(b, policy).count = b.count - Lost(b)
           /\ b.count - Lost(b) \in 0 .. Capacity - 1
           /\ Lost(b) \in {0, 1}
           /\ Evict(b, policy) \in Seq(Store)
<1>1. b.count \in Nat /\ b.count <= Capacity /\ Capacity \in Nat \ {0}
    BY RingMembers
<1>2. CASE b.count < Capacity
    <2>1. A!make_room_unlocked(b, policy) = b /\ Evict(b, policy) = <<>> /\ Lost(b) = 0
        BY <1>1, <1>2 DEF A!make_room_unlocked, Evict, Lost
    <2>2. QED
        BY <1>1, <1>2, <2>1
<1>3. CASE ~(b.count < Capacity)
    <2>1. b.count >= Capacity /\ b.count = Capacity /\ b.count # 0 /\ Lost(b) = 1
          /\ policy \in {"Front", "Back"}
        BY <1>1, <1>3 DEF Lost, A!HasRoom, A!Policy
    <2>2. Default \in Value /\ (b.head + 1) % Capacity \in A!Slot
        BY BufferAssumption, ModSlot, RingMembers
    <2>3. CASE policy = "Front"
        <3>1. /\ A!make_room_unlocked(b, policy) = A!reset_front_unlocked(b)
              /\ Evict(b, policy) = ResetFront(b)
            BY <1>3, <2>1, <2>3 DEF A!make_room_unlocked, Evict
        <3>2. /\ A!reset_front_unlocked(b) \in A!Ring
              /\ A!reset_front_unlocked(b).count = b.count - 1
            BY <1>1, <2>1, <2>2, RingMembers DEF A!reset_front_unlocked, A!Ring
        <3>3. QED
            BY <1>1, <2>1, <3>1, <3>2, ResetStores
    <2>4. CASE policy = "Back"
        <3>1. /\ A!make_room_unlocked(b, policy) = A!reset_back_unlocked(b)
              /\ Evict(b, policy) = ResetBack(b)
            BY <1>3, <2>1, <2>4 DEF A!make_room_unlocked, Evict
        <3>2. A!reset_back_unlocked(b) =
                 [data  |-> [b.data EXCEPT ![A!phys(b, b.count - 1)] = Default],
                  head  |-> b.head,
                  count |-> b.count - 1]
            <4>1. PICK d : d = [b.data EXCEPT ![A!phys(b, b.count - 1)] = Default]
                OBVIOUS
            <4>2. A!Store(b, b.count - 1, Default) = [b EXCEPT !.data = d]
                BY <4>1 DEF A!Store
            <4>3. A!Store(b, b.count - 1, Default) =
                     [data |-> d, head |-> b.head, count |-> b.count]
                BY <4>2, RingMembers
            <4>4. QED
                BY <4>1, <4>3 DEF A!reset_back_unlocked, A!Shrunk
        <3>3. /\ A!reset_back_unlocked(b) \in A!Ring
              /\ A!reset_back_unlocked(b).count = b.count - 1
            BY <1>1, <2>1, <2>2, <3>2, RingMembers DEF A!Ring
        <3>4. QED
            BY <1>1, <2>1, <3>1, <3>3, ResetStores
    <2>5. QED
        BY <2>1, <2>3, <2>4
<1>4. QED
    BY <1>2, <1>3

(* Making room, storing and counting: what push and insert have in common. *)
LEMMA GrowingSound ==
    ASSUME NEW b \in A!Ring, NEW policy \in A!Policy, A!HasRoom(b, policy),
           NEW shift \in Seq(Store), NEW r \in Seq(Store), r # <<>>,
           r[Len(r)] = Count_(A!make_room_unlocked(b, policy).count + 1)
    PROVE  /\ Sound(b, Accepted(1 - Lost(b), Evict(b, policy) \o r, <<>>))
           /\ Sound(b, Accepted(1 - Lost(b), (Evict(b, policy) \o shift) \o r, <<>>))
<1>1. PICK n : n = b.count - Lost(b) + 1
    OBVIOUS
<1>2. /\ r[Len(r)] = Count_(n) /\ Evict(b, policy) \in Seq(Store)
      /\ 1 - Lost(b) \in -Capacity .. 1 /\ n = b.count + (1 - Lost(b))
    BY <1>1, Room, RingMembers
<1>3. Evict(b, policy) \o shift \in Seq(Store)
    BY <1>2, ConcatProperties
<1>4. /\ Evict(b, policy) \o r \in Seq(Store)
      /\ Settles(b.count, Evict(b, policy) \o r, n)
    BY <1>2, SettlesConcat
<1>5. /\ (Evict(b, policy) \o shift) \o r \in Seq(Store)
      /\ Settles(b.count, (Evict(b, policy) \o shift) \o r, n)
    BY <1>2, <1>3, SettlesConcat
<1>6. <<>> \in Seq(Value)
    OBVIOUS
<1>7. QED
    BY <1>2, <1>4, <1>5, <1>6, AcceptedSound

(* push_back and push_front. *)
LEMMA PushSound ==
    ASSUME NEW b \in A!Ring, NEW v \in Value, NEW policy \in A!Policy
    PROVE  Sound(b, push_back(b, v, policy)) /\ Sound(b, push_front(b, v, policy))
<1>1. CASE ~A!HasRoom(b, policy)
    BY <1>1, RefusedSound DEF push_back, push_front
<1>2. CASE A!HasRoom(b, policy)
    <2>1. PICK m, h : m = A!make_room_unlocked(b, policy) /\ h = A!StepBack(m).head
        OBVIOUS
    <2>2. m \in A!Ring /\ m.count + 1 \in 0 .. Capacity
        BY <1>2, <2>1, Room, RingMembers
    <2>3. A!phys(m, m.count) \in A!Slot /\ h \in A!Slot
        <3>1. h = (m.head + Capacity - 1) % Capacity
            BY <2>1, <2>2, RingMembers DEF A!StepBack
        <3>2. QED
            BY <2>2, <3>1, RingMembers, ModSlot
    <2>4. PICK p, c, q, g : /\ p = Put(A!phys(m, m.count), v) /\ c = Count_(m.count + 1)
                            /\ q = Head_(h) /\ g = Put(h, v)
        OBVIOUS
    <2>5. p \in Store /\ c \in Store /\ q \in Store /\ g \in Store
        BY <2>2, <2>3, <2>4 DEF Store, Put, Head_, Count_
    <2>6. PICK r, u : r = <<p, c>> /\ u = <<q, g, c>>
        OBVIOUS
    <2>7. /\ r \in Seq(Store) /\ r # <<>> /\ r[Len(r)] = c
          /\ u \in Seq(Store) /\ u # <<>> /\ u[Len(u)] = c
        BY <2>5, <2>6
    <2>8. /\ push_back(b, v, policy) = Accepted(1 - Lost(b), Evict(b, policy) \o r, <<>>)
          /\ push_front(b, v, policy) = Accepted(1 - Lost(b), Evict(b, policy) \o u, <<>>)
        BY <1>2, <2>1, <2>4, <2>6 DEF push_back, push_front
    <2>9. QED
        BY <1>2, <2>1, <2>4, <2>7, <2>8, GrowingSound
<1>3. QED
    BY <1>1, <1>2

(* pop_back and pop_front. *)
LEMMA PopSound ==
    ASSUME NEW b \in A!Ring
    PROVE  Sound(b, pop_back(b)) /\ Sound(b, pop_front(b))
<1>1. CASE b.count = 0
    BY <1>1, RefusedSound DEF pop_back, pop_front
<1>2. CASE b.count # 0
    <2>1. /\ <<b.data[Last(b)]>> \in Seq(Value) /\ <<b.data[b.head]>> \in Seq(Value)
          /\ -1 \in -Capacity .. 1 /\ <<>> \in Seq(Store)
          /\ b.count - 1 = b.count + -1
        BY <1>2, RingMembers, ResetStores
    <2>2. /\ Settles(b.count, ResetBack(b), b.count + -1)
          /\ Settles(b.count, ResetFront(b), b.count + -1)
        <3>1. PICK n : n = b.count - 1
            OBVIOUS
        <3>2. Settles(b.count, ResetBack(b), n) /\ Settles(b.count, ResetFront(b), n)
            BY <1>2, <3>1, ResetStores, SettlesLast
        <3>3. QED
            BY <2>1, <3>1, <3>2
    <2>3. /\ pop_back(b) = Accepted(-1, ResetBack(b), <<b.data[Last(b)]>>)
          /\ pop_front(b) = Accepted(-1, ResetFront(b), <<b.data[b.head]>>)
        BY <1>2 DEF pop_back, pop_front
    <2>4. QED
        BY <1>2, <2>1, <2>2, <2>3, ResetStores, AcceptedSound
<1>3. QED
    BY <1>1, <1>2
(* head moved back is a ring. *)
LEMMA SteppedBack ==
    ASSUME NEW b \in A!Ring
    PROVE  A!StepBack(b) \in A!Ring
<1>1. A!StepBack(b) = [data |-> b.data, head |-> (b.head + Capacity - 1) % Capacity,
                       count |-> b.count]
    BY RingMembers DEF A!StepBack
<1>2. (b.head + Capacity - 1) % Capacity \in A!Slot
    BY RingMembers, ModSlot
<1>3. QED
    BY <1>1, <1>2, RingMembers DEF A!Ring

(* insert: whichever half it shifts. *)
LEMMA InsertSound ==
    ASSUME NEW b \in A!Ring, NEW i \in 0 .. Capacity, NEW v \in Value, NEW policy \in A!Policy
    PROVE  Sound(b, insert(b, i, v, policy))
<1>1. CASE ~(i <= b.count /\ A!HasRoom(b, policy))
    BY <1>1, RefusedSound DEF insert
<1>2. CASE i <= b.count /\ A!HasRoom(b, policy)
    <2>1. PICK m, h : m = A!make_room_unlocked(b, policy) /\ h = A!StepBack(m)
        OBVIOUS
    <2>2. m \in A!Ring /\ h \in A!Ring /\ m.count \in Nat /\ m.count + 1 \in 0 .. Capacity
        BY <1>2, <2>1, Room, RingMembers, SteppedBack
    <2>3. PICK k : k = IF i > m.count THEN m.count ELSE i
        OBVIOUS
    <2>4. k \in Nat /\ k <= m.count /\ m.count - k \in Nat
        BY <2>2, <2>3, RingMembers
    <2>5. PICK down, up :
             /\ down = [n \in 1 .. k |-> Copy(A!phys(h, n - 1), A!phys(h, n))]
             /\ up = [n \in 1 .. m.count - k |->
                         Copy(A!phys(m, m.count - n + 1), A!phys(m, m.count - n))]
        OBVIOUS
    <2>6. down \in Seq(Store)
        <3>1. \A n \in 1 .. k : A!phys(h, n - 1) \in A!Slot /\ A!phys(h, n) \in A!Slot
            BY <2>2, <2>4, RingMembers
        <3>2. \A n \in 1 .. k : down[n] \in Store
            BY <2>5, <3>1 DEF Copy, Store
        <3>3. QED
            BY <2>4, <2>5, <3>2, RunOfStores
    <2>7. up \in Seq(Store)
        <3>1. \A n \in 1 .. m.count - k :
                 A!phys(m, m.count - n + 1) \in A!Slot /\ A!phys(m, m.count - n) \in A!Slot
            BY <2>2, <2>4, RingMembers
        <3>2. \A n \in 1 .. m.count - k : up[n] \in Store
            BY <2>5, <3>1 DEF Copy, Store
        <3>3. PICK l \in Nat : l = m.count - k
            BY <2>4
        <3>4. QED
            BY <2>5, <3>2, <3>3, RunOfStores
    <2>8. PICK p, q, c, e : /\ p = Head_(h.head) /\ q = Put(A!phys(h, k), v)
                            /\ c = Count_(m.count + 1) /\ e = Put(A!phys(m, k), v)
        OBVIOUS
    <2>9. p \in Store /\ q \in Store /\ c \in Store /\ e \in Store
        <3>1. h.head \in A!Slot /\ A!phys(h, k) \in A!Slot /\ A!phys(m, k) \in A!Slot
            BY <2>2, <2>4, RingMembers
        <3>2. QED
            BY <2>2, <2>8, <3>1 DEF Store, Put, Head_, Count_
    <2>10. PICK shift : shift = IF k <= m.count \div 2
                                THEN <<p>> \o down \o <<q>>
                                ELSE up \o <<e>>
        OBVIOUS
    <2>11. shift \in Seq(Store)
        <3>1. <<p>> \in Seq(Store) /\ <<q>> \in Seq(Store) /\ <<e>> \in Seq(Store)
            BY <2>9
        <3>2. <<p>> \o down \in Seq(Store)
            BY <2>6, <3>1, ConcatProperties
        <3>3. <<p>> \o down \o <<q>> \in Seq(Store) /\ up \o <<e>> \in Seq(Store)
            BY <2>7, <3>1, <3>2, ConcatProperties
        <3>4. QED
            BY <2>10, <3>3
    <2>12. PICK r : r = <<c>>
        OBVIOUS
    <2>13. r \in Seq(Store) /\ r # <<>> /\ r[Len(r)] = Count_(m.count + 1)
        BY <2>8, <2>9, <2>12
    <2>14. insert(b, i, v, policy) =
              Accepted(1 - Lost(b), (Evict(b, policy) \o shift) \o r, <<>>)
        BY <1>2, <2>1, <2>3, <2>5, <2>8, <2>10, <2>12 DEF insert
    <2>15. QED
        BY <1>2, <2>1, <2>11, <2>13, <2>14, GrowingSound
<1>3. QED
    BY <1>1, <1>2

(* remove: whichever half it shifts. *)
LEMMA RemoveSound ==
    ASSUME NEW b \in A!Ring, NEW i \in 0 .. Capacity, NEW wanted \in BOOLEAN
    PROVE  Sound(b, remove(b, i, wanted))
<1>1. CASE ~(i < b.count)
    BY <1>1, RefusedSound DEF remove
<1>2. CASE i < b.count
    <2>1. /\ b.count \in Nat /\ b.count # 0 /\ i \in Nat /\ b.count - 1 - i \in Nat
          /\ -1 \in -Capacity .. 1
        BY <1>2, RingMembers
    <2>2. PICK up, down :
             /\ up = [n \in 1 .. i |-> Copy(A!phys(b, i - n + 1), A!phys(b, i - n))]
             /\ down = [n \in 1 .. b.count - 1 - i |->
                           Copy(A!phys(b, i + n - 1), A!phys(b, i + n))]
        OBVIOUS
    <2>3. up \in Seq(Store)
        <3>1. \A n \in 1 .. i : A!phys(b, i - n + 1) \in A!Slot /\ A!phys(b, i - n) \in A!Slot
            BY <2>1, RingMembers
        <3>2. \A n \in 1 .. i : up[n] \in Store
            BY <2>2, <3>1 DEF Copy, Store
        <3>3. QED
            BY <2>1, <2>2, <3>2, RunOfStores
    <2>4. down \in Seq(Store)
        <3>1. \A n \in 1 .. b.count - 1 - i :
                 A!phys(b, i + n - 1) \in A!Slot /\ A!phys(b, i + n) \in A!Slot
            BY <2>1, RingMembers
        <3>2. \A n \in 1 .. b.count - 1 - i : down[n] \in Store
            BY <2>2, <3>1 DEF Copy, Store
        <3>3. QED
            BY <2>1, <2>2, <3>2, RunOfStores
    <2>5. PICK out : out = IF wanted THEN <<A!At(b, i)>> ELSE <<>>
        OBVIOUS
    <2>6. out \in Seq(Value)
        <3>1. A!At(b, i) \in Value
            BY <2>1, RingMembers DEF A!At
        <3>2. QED
            BY <2>5, <3>1
    <2>7. PICK n : n = b.count - 1
        OBVIOUS
    <2>8. n = b.count + -1
        BY <2>1, <2>7
    <2>9. CASE i <= b.count \div 2
        <3>1. remove(b, i, wanted) = Accepted(-1, up \o ResetFront(b), out)
            BY <1>2, <2>2, <2>5, <2>9 DEF remove
        <3>2. up \o ResetFront(b) \in Seq(Store) /\ Settles(b.count, up \o ResetFront(b), n)
            BY <2>1, <2>3, <2>7, ResetStores, SettlesConcat
        <3>3. QED
            BY <2>1, <2>6, <2>8, <3>1, <3>2, AcceptedSound
    <2>10. CASE ~(i <= b.count \div 2)
        <3>1. remove(b, i, wanted) = Accepted(-1, down \o ResetBack(b), out)
            BY <1>2, <2>2, <2>5, <2>10 DEF remove
        <3>2. down \o ResetBack(b) \in Seq(Store) /\ Settles(b.count, down \o ResetBack(b), n)
            BY <2>1, <2>4, <2>7, ResetStores, SettlesConcat
        <3>3. QED
            BY <2>1, <2>6, <2>8, <3>1, <3>2, AcceptedSound
    <2>11. QED
        BY <2>9, <2>10
<1>3. QED
    BY <1>1, <1>2

(* get, back and the traversals leave count alone. *)
LEMMA LookingSound ==
    ASSUME NEW b \in A!Ring, NEW i \in 0 .. Capacity, NEW stop \in 1 .. Capacity,
           NEW f \in [Value -> Value]
    PROVE  Sound(b, get(b, i)) /\ Sound(b, back(b)) /\ Sound(b, for_each_until(b, f, stop))
<1>1. /\ 0 \in -Capacity .. 1 /\ <<>> \in Seq(Store) /\ <<>> \in Seq(Value)
      /\ b.count + 0 = b.count
    BY RingMembers
<1>2. Settles(b.count, <<>>, b.count)
    BY DEF Settles
<1>3. Sound(b, get(b, i))
    <2>1. CASE ~(i < b.count)
        BY <2>1, RefusedSound DEF get
    <2>2. CASE i < b.count
        <3>1. <<A!At(b, i)>> \in Seq(Value)
            BY RingMembers DEF A!At
        <3>2. QED
            BY <1>1, <1>2, <2>2, <3>1, AcceptedSound DEF get
    <2>3. QED
        BY <2>1, <2>2
<1>4. Sound(b, back(b))
    <2>1. CASE b.count = 0
        BY <2>1, RefusedSound DEF back
    <2>2. CASE b.count # 0
        <3>1. <<b.data[Last(b)]>> \in Seq(Value)
            BY <2>2, RingMembers, ResetStores
        <3>2. QED
            BY <1>1, <1>2, <2>2, <3>1, AcceptedSound DEF back
    <2>3. QED
        BY <2>1, <2>2
<1>5. Sound(b, for_each_until(b, f, stop))
    <2>1. PICK turns : turns = IF stop <= b.count THEN stop ELSE b.count
        OBVIOUS
    <2>2. PICK s : s = [n \in 1 .. turns |-> Visit(A!phys(b, n - 1), f)]
        OBVIOUS
    <2>3. turns \in Nat
        BY <2>1, RingMembers
    <2>4. \A n \in 1 .. turns : A!phys(b, n - 1) \in A!Slot
        BY <2>3, RingMembers
    <2>5. \A n \in 1 .. turns : s[n] \in Store /\ s[n].kind # "count"
        BY <2>2, <2>4 DEF Visit, Store
    <2>6. s \in Seq(Store) /\ Len(s) = turns
        BY <2>2, <2>3, <2>5, RunOfStores
    <2>7. Settles(b.count, s, b.count)
        BY <2>5, <2>6, SettlesSame
    <2>8. for_each_until(b, f, stop) = Accepted(0, s, <<>>)
        BY <2>1, <2>2 DEF for_each_until
    <2>9. QED
        BY <1>1, <2>6, <2>7, <2>8, AcceptedSound
<1>6. QED
    BY <1>3, <1>4, <1>5

(* clear: the last element's turn stores 0 to count. *)
LEMMA ClearSound ==
    ASSUME NEW b \in A!Ring
    PROVE  Sound(b, clear(b))
<1>1. PICK c \in Nat : c = b.count /\ c <= Capacity
    BY RingMembers
<1>2. Capacity \in Nat \ {0} /\ Default \in Value /\ 0 \in A!Slot /\ 0 \in 0 .. Capacity
    BY BufferAssumption DEF A!Slot
<1>3. PICK l \in Nat : l = 3 * c
    BY <1>1
<1> DEFINE Turn(n) == LET i == (n - 1) \div 3
                      IN  CASE n % 3 = 1 -> Put(A!phys(b, i), Default)
                            [] n % 3 = 2 -> Head_(A!phys(b, i + 1))
                            [] n % 3 = 0 -> Count_(c - i - 1)
<1>4. PICK s : s = [n \in 1 .. l |-> Turn(n)]
    OBVIOUS
<1>5. ASSUME NEW n \in 1 .. l
      PROVE  s[n] \in Store
    <2>1. PICK i : i = (n - 1) \div 3
        OBVIOUS
    <2>2. i \in Nat /\ i < c
        BY <1>1, <1>3, <2>1
    <2>3. A!phys(b, i) \in A!Slot /\ A!phys(b, i + 1) \in A!Slot /\ c - i - 1 \in 0 .. Capacity
        BY <1>1, <1>2, <2>2, RingMembers
    <2>4. /\ Put(A!phys(b, i), Default) \in Store /\ Head_(A!phys(b, i + 1)) \in Store
          /\ Count_(c - i - 1) \in Store
        BY <1>2, <2>3 DEF Put, Head_, Count_, Store
    <2>5. n % 3 = 0 \/ n % 3 = 1 \/ n % 3 = 2
        OBVIOUS
    <2>6. s[n] \in {Put(A!phys(b, i), Default), Head_(A!phys(b, i + 1)), Count_(c - i - 1)}
        BY <1>4, <2>1, <2>5
    <2>7. QED
        BY <2>4, <2>6
<1>6. s \in Seq(Store) /\ Len(s) = l
    <2>1. DOMAIN s = 1 .. l /\ s = [n \in 1 .. l |-> s[n]]
        <3> HIDE DEF Turn
        <3> QED BY <1>4
    <2>2. QED
        BY <1>5, <2>1, RunOfStores
<1>7. PICK e, z : e = Head_(0) /\ z = <<e>>
    OBVIOUS
<1>8. e \in Store /\ e.kind # "count" /\ z \in Seq(Store) /\ Len(z) = 1 /\ z[1] = e
    BY <1>2, <1>7 DEF Head_, Store
<1>9. PICK t : t = s \o z
    OBVIOUS
<1>10. /\ t \in Seq(Store) /\ Len(t) = l + 1 /\ t[l + 1] = e
      /\ \A n \in 1 .. l : t[n] = s[n]
    <2>1. /\ t \in Seq(Store) /\ Len(t) = Len(s) + Len(z)
          /\ \A i \in 1 .. Len(s) + Len(z) : t[i] = IF i <= Len(s) THEN s[i] ELSE z[i - Len(s)]
        BY <1>6, <1>8, <1>9, ConcatProperties
    <2>2. QED
        BY <1>6, <1>8, <2>1
<1>11. Settles(c, t, 0)
    <2>1. CASE c = 0
        <3>1. \A k \in 1 .. Len(t) : k = l + 1
            BY <1>10, <1>3, <2>1
        <3>2. QED
            BY <1>8, <1>10, <2>1, <3>1, SettlesSame
    <2>2. CASE c > 0
        <3>1. /\ l \in 1 .. l /\ l % 3 = 0 /\ (l - 1) \div 3 = c - 1
              /\ c - (c - 1) - 1 = 0
            BY <1>1, <1>3, <2>2
        <3>2. s[l] = Count_(0)
            BY <1>4, <3>1
        <3>3. t[l] = Count_(0) /\ l \in 1 .. Len(t)
            BY <1>10, <3>1, <3>2
        <3>4. \A j \in l + 1 .. Len(t) : t[j].kind # "count"
            BY <1>8, <1>10
        <3>5. QED
            BY <1>1, <1>10, <3>3, <3>4, SettlesAt
    <2>3. QED
        BY <1>1, <2>1, <2>2
<1>12. clear(b) = Accepted(-c, t, <<>>)
    BY <1>1, <1>4, <1>7, <1>9, <1>3 DEF clear
<1>13. -c \in -Capacity .. 1 /\ c + -c = 0 /\ <<>> \in Seq(Value)
    BY <1>1, <1>2
<1>14. QED
    BY <1>1, <1>10, <1>11, <1>12, <1>13, AcceptedSound

(* Every body a task or an interrupt may run is sound. *)
LEMMA BodiesSound ==
    ASSUME NEW b \in A!Ring, NEW w \in FromTask(b) \cup FromIsr(b)
    PROVE  Sound(b, w)
<1>1. CASE w \in FromIsr(b)
    BY <1>1, PushSound, PopSound DEF FromIsr
<1>2. CASE w \in {insert(b, i, v, policy) : i \in 0 .. Capacity, v \in Value, policy \in A!Policy}
    BY <1>2, InsertSound
<1>3. CASE w \in {remove(b, i, wanted) : i \in 0 .. Capacity, wanted \in BOOLEAN}
    BY <1>3, RemoveSound
<1>4. CASE w \in {get(b, i) : i \in 0 .. Capacity} \cup {back(b)}
           \/ w \in {for_each_until(b, f, stop) : f \in [Value -> Value], stop \in 1 .. Capacity}
    <2>1. 1 \in 1 .. Capacity /\ 0 \in 0 .. Capacity /\ [v \in Value |-> v] \in [Value -> Value]
        BY BufferAssumption
    <2>2. CASE w \in {get(b, i) : i \in 0 .. Capacity}
        BY <2>1, <2>2, LookingSound
    <2>3. CASE w \in {for_each_until(b, f, stop) : f \in [Value -> Value], stop \in 1 .. Capacity}
        BY <2>1, <2>3, LookingSound
    <2>4. CASE w = back(b)
        BY <2>1, <2>4, LookingSound
    <2>5. QED
        BY <1>4, <2>2, <2>3, <2>4
<1>5. CASE w = clear(b)
    BY <1>5, ClearSound
<1>6. QED
    BY <1>1, <1>2, <1>3, <1>4, <1>5 DEF FromTask
-----------------------------------------------------------------------------
(* The callers.                                                            *)

(* The body a caller is in will leave the elements counted. *)
Counting ==
    /\ Quiet => ring.count = balance
    /\ \A p \in Process :
          Inside(p) => Settles(ring.count, work[p].todo, balance + work[p].gain)

LEMMA TypeInit == Init => TypeOK
<1> SUFFICES ASSUME Init
             PROVE  TypeOK
    OBVIOUS
<1>1. ring \in A!Ring
    BY BufferAssumption DEF Init, A!Ring, A!Slot
<1>2. Refused \in Body
    BY BufferAssumption DEF Refused, Body
<1>3. QED
    BY <1>1, <1>2 DEF Init, TypeOK

(* One store of a body: what is left of it is a body. *)
LEMMA StepType ==
    ASSUME TypeOK, NEW p \in Process, Step(p)
    PROVE  TypeOK'
<1>1. PICK w : w = work[p]
    OBVIOUS
<1>2. w \in Body /\ w.todo \in Seq(Store) /\ w.out \in Seq(Value) /\ w.todo # <<>>
    BY <1>1 DEF TypeOK, Body, Step
<1>3. PICK st : st = Head(w.todo)
    OBVIOUS
<1>4. st \in Store /\ Tail(w.todo) \in Seq(Store)
    BY <1>2, <1>3, HeadTailProperties
<1>5. ring' = Stored(ring, st) /\ UNCHANGED <<phase, lock, before, ret, balance>>
    BY <1>1, <1>3 DEF Step
<1>6. ring' \in A!Ring
    BY <1>4, <1>5, StoredRing DEF TypeOK
<1>7. PICK out : out = IF st.kind = "visit" THEN Append(w.out, ring.data[st.slot]) ELSE w.out
    OBVIOUS
<1>8. out \in Seq(Value)
    <2>1. CASE st.kind = "visit"
        <3>1. ring.data[st.slot] \in Value
            BY <1>4, <2>1 DEF Store, TypeOK, A!Ring
        <3>2. QED
            BY <1>2, <1>7, <2>1, <3>1, AppendProperties
    <2>2. CASE st.kind # "visit"
        BY <1>2, <1>7, <2>2
    <2>3. QED
        BY <2>1, <2>2
<1>9. PICK u : u = [w EXCEPT !.todo = Tail(w.todo), !.out = out]
    OBVIOUS
<1>10. u \in Body
    BY <1>2, <1>4, <1>8, <1>9 DEF Body
<1>11. work' = [work EXCEPT ![p] = u]
    BY <1>1, <1>3, <1>7, <1>9 DEF Step, TypeOK
<1>12. QED
    BY <1>5, <1>6, <1>10, <1>11 DEF TypeOK

LEMMA TypeNext == TypeOK /\ [Next]_vars => TypeOK'
<1> SUFFICES ASSUME TypeOK, [Next]_vars
             PROVE  TypeOK'
    OBVIOUS
<1>1. ASSUME NEW p \in Process, Enter(p)
      PROVE  TypeOK'
    BY <1>1 DEF Enter, TypeOK
<1>2. ASSUME NEW p \in Process, Begin(p)
      PROVE  TypeOK'
    <2>1. PICK w \in FromTask(ring) \cup FromIsr(ring) : work' = [work EXCEPT ![p] = w]
        BY <1>2 DEF Begin
    <2>2. w \in Body
        BY <2>1, BodiesSound DEF TypeOK, Sound
    <2>3. QED
        BY <1>2, <2>1, <2>2 DEF Begin, TypeOK
<1>3. ASSUME NEW p \in Process, Step(p)
      PROVE  TypeOK'
    BY <1>3, StepType
<1>4. ASSUME NEW p \in Process, Exit(p)
      PROVE  TypeOK'
    <2>1. Refused \in Body
        BY BufferAssumption DEF Refused, Body
    <2>2. work[p].gain \in Int /\ work[p].ok \in BOOLEAN /\ work[p].out \in Seq(Value)
        BY BufferAssumption DEF TypeOK, Body
    <2>3. QED
        BY <1>4, <2>1, <2>2 DEF Exit, TypeOK
<1>5. CASE UNCHANGED vars
    BY <1>5 DEF vars, TypeOK
<1>6. QED
    BY <1>1, <1>2, <1>3, <1>4, <1>5 DEF Next

LEMMA CountingInit == Init => Counting
BY DEF Init, Counting, Inside

(* Whoever begins finds the elements counted, and whoever leaves has       *)
(* counted what it put in and took out.                                    *)
LEMMA CountingNext ==
    TypeOK /\ Exclusive /\ Exclusive' /\ Counting /\ [Next]_vars => Counting'
<1> SUFFICES ASSUME TypeOK, Exclusive, Exclusive', Counting, [Next]_vars
             PROVE  Counting'
    OBVIOUS
<1> USE DEF Inside
<1>1. ASSUME NEW p \in Process, Enter(p)
      PROVE  Counting'
    BY <1>1 DEF Enter, Counting, Quiet, TypeOK
<1>2. ASSUME NEW p \in Process, Begin(p)
      PROVE  Counting'
    <2>1. phase' = [phase EXCEPT ![p] = "inside"] /\ UNCHANGED <<ring, balance>>
          /\ phase[p] = "entering" /\ phase'[p] = "inside"
        BY <1>2 DEF Begin, TypeOK
    <2>2. Quiet
        BY <2>1 DEF Exclusive, Quiet, TypeOK
    <2>3. PICK w \in FromTask(ring) \cup FromIsr(ring) : work' = [work EXCEPT ![p] = w]
        BY <1>2 DEF Begin
    <2>4. Settles(ring.count, w.todo, ring.count + w.gain)
        BY BodiesSound DEF Sound, TypeOK
    <2>5. ring.count = balance /\ work'[p] = w
        BY <2>2, <2>3 DEF Counting, TypeOK
    <2>6. Settles(ring'.count, work'[p].todo, balance' + work'[p].gain)
        BY <2>1, <2>4, <2>5
    <2>7. \A q \in Process : phase'[q] = "inside" => q = p
        BY <2>1 DEF Exclusive
    <2>8. QED
        BY <2>1, <2>6, <2>7 DEF Counting, Quiet
<1>3. ASSUME NEW p \in Process, Step(p)
      PROVE  Counting'
    <2>1. /\ phase[p] = "inside" /\ work[p].todo # <<>>
          /\ ring' = Stored(ring, Head(work[p].todo)) /\ UNCHANGED <<phase, balance>>
        BY <1>3 DEF Step
    <2>2. work'[p].todo = Tail(work[p].todo) /\ work'[p].gain = work[p].gain
        BY <1>3 DEF Step, TypeOK, Body
    <2>3. Settles(ring.count, work[p].todo, balance + work[p].gain)
        BY <2>1 DEF Counting
    <2>4. ring \in A!Ring /\ work[p].todo \in Seq(Store)
        BY DEF TypeOK, Body
    <2>5. Settles(ring'.count, work'[p].todo, balance' + work'[p].gain)
        BY <2>1, <2>2, <2>3, <2>4, SettlesStep
    <2>6. \A q \in Process : phase'[q] = "inside" => q = p
        BY <2>1 DEF Exclusive
    <2>7. QED
        BY <2>1, <2>5, <2>6 DEF Counting, Quiet
<1>4. ASSUME NEW p \in Process, Exit(p)
      PROVE  Counting'
    <2>1. /\ phase[p] = "inside" /\ work[p].todo = <<>> /\ UNCHANGED ring
          /\ phase' = [phase EXCEPT ![p] = "outside"]
          /\ balance' = balance + work[p].gain
        BY <1>4 DEF Exit
    <2>2. ring.count = balance + work[p].gain
        BY <2>1 DEF Counting, Settles
    <2>3. \A q \in Process : phase'[q] # "inside"
        BY <2>1 DEF Exclusive, TypeOK
    <2>4. QED
        BY <2>1, <2>2, <2>3 DEF Counting
<1>5. CASE UNCHANGED vars
    BY <1>5 DEF vars, Counting, Quiet
<1>6. QED
    BY <1>1, <1>2, <1>3, <1>4, <1>5 DEF Next

(* No body ever stores outside the array, at any turn of any loop, for any *)
(* capacity, whatever the platform protects.                               *)
THEOREM MembersStayLegal == Spec => []TypeOK
BY TypeInit, TypeNext, PTL DEF Spec

(* On a Protected platform no element is lost and none is counted twice,   *)
(* for any number of callers on any number of cores.                       *)
THEOREM NothingIsLost ==
    ASSUME Protected
    PROVE  Spec => []NothingLost
<1>1. Counting => NothingLost
    BY DEF Counting, NothingLost
<1>2. Spec => []TypeOK /\ []Exclusive
    BY MembersStayLegal, SectionsExclude
<1>3. QED
    BY <1>1, <1>2, CountingInit, CountingNext, PTL DEF Spec

-----------------------------------------------------------------------------
(* The refinement of the atomic buffer: where the stores of a body lead.   *)

(* The arithmetic of the indices, and that it implements a deque, is       *)
(* proved of the atomic buffer.                                            *)
P == INSTANCE SafeRingBufferRefinement WITH ring <- IF Quiet THEN ring ELSE before

(* What a store adds to what a callback has been given.                    *)
Seen(o, b, st) == IF st.kind = "visit" THEN Append(o, b.data[st.slot]) ELSE o

(* The stores s lead from the members b and the output o to c and q: f and *)
(* g are the members and the output after each of them.                    *)
Leads(b, o, s, c, q) ==
    \E f \in [0 .. Len(s) -> A!Ring], g \in [0 .. Len(s) -> Seq(Value)] :
        /\ f[0] = b /\ g[0] = o /\ f[Len(s)] = c /\ g[Len(s)] = q
        /\ \A i \in 1 .. Len(s) :
              f[i] = Stored(f[i - 1], s[i]) /\ g[i] = Seen(g[i - 1], f[i - 1], s[i])

(* The members and the outputs after each store, one by one, lead. *)
LEMMA LeadsBy ==
    ASSUME NEW s, NEW n, n = Len(s),
           NEW f \in [0 .. n -> A!Ring], NEW g \in [0 .. n -> Seq(Value)],
           \A i \in 1 .. n :
              f[i] = Stored(f[i - 1], s[i]) /\ g[i] = Seen(g[i - 1], f[i - 1], s[i])
    PROVE  Leads(f[0], g[0], s, f[n], g[n])
<1>1. SUFFICES
        \E ff \in [0 .. Len(s) -> A!Ring], gg \in [0 .. Len(s) -> Seq(Value)] :
            /\ ff[0] = f[0] /\ gg[0] = g[0] /\ ff[Len(s)] = f[n] /\ gg[Len(s)] = g[n]
            /\ \A i \in 1 .. Len(s) :
                  ff[i] = Stored(ff[i - 1], s[i]) /\ gg[i] = Seen(gg[i - 1], ff[i - 1], s[i])
    BY Zenon DEF Leads
<1>2. WITNESS f \in [0 .. Len(s) -> A!Ring], g \in [0 .. Len(s) -> Seq(Value)]
<1>3. QED
    OBVIOUS

(* Nothing to store leads nowhere. *)
LEMMA LeadsNowhere ==
    ASSUME NEW b \in A!Ring, NEW o \in Seq(Value)
    PROVE  Leads(b, o, <<>>, b, o)
<1>1. PICK f, g : f = [i \in 0 .. 0 |-> b] /\ g = [i \in 0 .. 0 |-> o]
    OBVIOUS
<1>2. f \in [0 .. 0 -> A!Ring] /\ g \in [0 .. 0 -> Seq(Value)] /\ f[0] = b /\ g[0] = o
    BY <1>1
<1>3. QED
    BY <1>2 DEF Leads

(* Where nothing is left to store, that is where it leads. *)
LEMMA LeadsEnd ==
    ASSUME NEW b, NEW o, NEW c, NEW q, Leads(b, o, <<>>, c, q)
    PROVE  b = c /\ o = q
BY DEF Leads

(* A run of stores that no callback sees. *)
LEMMA LeadsAlong ==
    ASSUME NEW n \in Nat, NEW f \in [0 .. n -> A!Ring], NEW o \in Seq(Value),
           NEW s \in Seq(Store), Len(s) = n,
           \A i \in 1 .. n : s[i].kind # "visit" /\ f[i] = Stored(f[i - 1], s[i])
    PROVE  Leads(f[0], o, s, f[n], o)
<1>1. PICK g : g = [i \in 0 .. n |-> o]
    OBVIOUS
<1>2. g \in [0 .. n -> Seq(Value)] /\ \A i \in 0 .. n : g[i] = o
    BY <1>1
<1>3. \A i \in 1 .. n : g[i] = Seen(g[i - 1], f[i - 1], s[i])
    BY <1>2 DEF Seen
<1>4. Leads(f[0], g[0], s, f[n], g[n])
    BY <1>2, <1>3, LeadsBy
<1>5. QED
    BY <1>2, <1>4

(* One store more in front. *)
LEMMA LeadsFrom ==
    ASSUME NEW b \in A!Ring, NEW o \in Seq(Value), NEW st \in Store, st.kind # "visit"
    PROVE  Leads(b, o, <<st>>, Stored(b, st), o)
<1>1. PICK f : f = [i \in 0 .. 1 |-> IF i = 0 THEN b ELSE Stored(b, st)]
    OBVIOUS
<1>2. f \in [0 .. 1 -> A!Ring] /\ f[0] = b /\ f[1] = Stored(b, st)
    BY <1>1, StoredRing
<1>3. PICK s : s = <<st>>
    OBVIOUS
<1>4. s \in Seq(Store) /\ Len(s) = 1 /\ s[1] = st
    BY <1>3
<1>5. \A i \in 1 .. 1 : s[i].kind # "visit" /\ f[i] = Stored(f[i - 1], s[i])
    BY <1>2, <1>4
<1>6. Leads(f[0], o, s, f[1], o)
    BY <1>2, <1>4, <1>5, LeadsAlong
<1>7. QED
    BY <1>2, <1>3, <1>6

(* The stores of r after those of s. *)
LEMMA LeadsOn ==
    ASSUME NEW s \in Seq(Store), NEW r \in Seq(Store), NEW b, NEW o, NEW c, NEW p, NEW d, NEW q,
           Leads(b, o, s, c, p), Leads(c, p, r, d, q)
    PROVE  Leads(b, o, s \o r, d, q)
<1>1. PICK k \in Nat, l \in Nat : k = Len(s) /\ l = Len(r)
    BY LenProperties
<1>2. /\ Len(s \o r) = k + l
      /\ \A i \in 1 .. k + l : (s \o r)[i] = IF i <= k THEN s[i] ELSE r[i - k]
    BY <1>1, ConcatProperties
<1>3. PICK f \in [0 .. k -> A!Ring], g \in [0 .. k -> Seq(Value)] :
        /\ f[0] = b /\ g[0] = o /\ f[k] = c /\ g[k] = p
        /\ \A i \in 1 .. k :
              f[i] = Stored(f[i - 1], s[i]) /\ g[i] = Seen(g[i - 1], f[i - 1], s[i])
    BY <1>1 DEF Leads
<1>4. PICK ff \in [0 .. l -> A!Ring], gg \in [0 .. l -> Seq(Value)] :
        /\ ff[0] = c /\ gg[0] = p /\ ff[l] = d /\ gg[l] = q
        /\ \A i \in 1 .. l :
              ff[i] = Stored(ff[i - 1], r[i]) /\ gg[i] = Seen(gg[i - 1], ff[i - 1], r[i])
    BY <1>1 DEF Leads
<1>5. PICK F, G : /\ F = [i \in 0 .. k + l |-> IF i <= k THEN f[i] ELSE ff[i - k]]
                  /\ G = [i \in 0 .. k + l |-> IF i <= k THEN g[i] ELSE gg[i - k]]
    OBVIOUS
<1>6. /\ F \in [0 .. k + l -> A!Ring] /\ G \in [0 .. k + l -> Seq(Value)]
      /\ \A i \in 0 .. k : F[i] = f[i] /\ G[i] = g[i]
      /\ \A i \in 0 .. l : F[k + i] = ff[i] /\ G[k + i] = gg[i]
    <2>1. \A i \in 0 .. k + l : i > k => i - k \in 0 .. l
        OBVIOUS
    <2>2. F \in [0 .. k + l -> A!Ring] /\ G \in [0 .. k + l -> Seq(Value)]
        BY <1>5, <2>1
    <2>3. \A i \in 0 .. k : F[i] = f[i] /\ G[i] = g[i]
        BY <1>5
    <2>4. ASSUME NEW i \in 0 .. l
          PROVE  F[k + i] = ff[i] /\ G[k + i] = gg[i]
        <3>1. CASE i = 0
            BY <1>3, <1>4, <2>3, <3>1
        <3>2. CASE i # 0
            BY <1>5, <3>2
        <3>3. QED
            BY <3>1, <3>2
    <2>5. QED
        BY <2>2, <2>3, <2>4
<1>7. ASSUME NEW i \in 1 .. k + l
      PROVE  /\ F[i] = Stored(F[i - 1], (s \o r)[i])
             /\ G[i] = Seen(G[i - 1], F[i - 1], (s \o r)[i])
    <2>1. CASE i <= k
        <3>1. i \in 1 .. k /\ i \in 0 .. k /\ i - 1 \in 0 .. k /\ (s \o r)[i] = s[i]
            BY <1>2, <2>1
        <3>2. QED
            BY <1>3, <1>6, <3>1
    <2>2. CASE i > k
        <3>1. PICK j \in 1 .. l : j = i - k
            BY <2>2
        <3>2. /\ i = k + j /\ i - 1 = k + (j - 1) /\ j \in 0 .. l /\ j - 1 \in 0 .. l
              /\ (s \o r)[i] = r[j]
            BY <1>2, <2>2, <3>1
        <3>3. /\ F[i] = ff[j] /\ F[i - 1] = ff[j - 1] /\ G[i] = gg[j] /\ G[i - 1] = gg[j - 1]
            BY <1>6, <3>2
        <3>4. QED
            BY <1>4, <3>2, <3>3
    <2>3. i <= k \/ i > k
        OBVIOUS
    <2>4. QED
        BY ONLY <2>1, <2>2, <2>3
<1>8. /\ F[0] = b /\ G[0] = o /\ F[k + l] = d /\ G[k + l] = q
    BY <1>3, <1>4, <1>6
<1>9. Leads(F[0], G[0], s \o r, F[k + l], G[k + l])
    BY ONLY <1>2, <1>6, <1>7, LeadsBy
<1>10. QED
    BY <1>8, <1>9

(* The first store is done. *)
LEMMA LeadsStep ==
    ASSUME NEW s \in Seq(Store), s # <<>>, NEW b, NEW o, NEW c, NEW q, Leads(b, o, s, c, q)
    PROVE  Leads(Stored(b, Head(s)), Seen(o, b, Head(s)), Tail(s), c, q)
<1>1. PICK k \in Nat \ {0} : k = Len(s)
    BY LenProperties, EmptySeq
<1>2. /\ Head(s) = s[1] /\ Len(Tail(s)) = k - 1
      /\ \A i \in 1 .. k - 1 : Tail(s)[i] = s[i + 1]
    BY <1>1, HeadTailProperties
<1>3. PICK f \in [0 .. k -> A!Ring], g \in [0 .. k -> Seq(Value)] :
        /\ f[0] = b /\ g[0] = o /\ f[k] = c /\ g[k] = q
        /\ \A i \in 1 .. k :
              f[i] = Stored(f[i - 1], s[i]) /\ g[i] = Seen(g[i - 1], f[i - 1], s[i])
    BY <1>1 DEF Leads
<1>4. PICK F, G : /\ F = [i \in 0 .. k - 1 |-> f[i + 1]]
                  /\ G = [i \in 0 .. k - 1 |-> g[i + 1]]
    OBVIOUS
<1>5. /\ F \in [0 .. k - 1 -> A!Ring] /\ G \in [0 .. k - 1 -> Seq(Value)]
      /\ \A i \in 0 .. k - 1 : F[i] = f[i + 1] /\ G[i] = g[i + 1]
    BY <1>4
<1>6. ASSUME NEW i \in 1 .. k - 1
      PROVE  /\ F[i] = Stored(F[i - 1], Tail(s)[i])
             /\ G[i] = Seen(G[i - 1], F[i - 1], Tail(s)[i])
    <2>1. i + 1 \in 1 .. k /\ (i + 1) - 1 = i /\ i \in 0 .. k - 1 /\ i - 1 \in 0 .. k - 1
          /\ (i - 1) + 1 = i
        OBVIOUS
    <2>2. F[i] = f[i + 1] /\ F[i - 1] = f[i] /\ G[i] = g[i + 1] /\ G[i - 1] = g[i]
        BY <1>5, <2>1
    <2>3. QED
        BY <1>2, <1>3, <2>1, <2>2
<1>7. /\ F[0] = f[1] /\ G[0] = g[1] /\ F[k - 1] = c /\ G[k - 1] = q
    BY <1>3, <1>5
<1>8. f[1] = Stored(b, s[1]) /\ g[1] = Seen(o, b, s[1])
    BY <1>3
<1>9. Leads(F[0], G[0], Tail(s), F[k - 1], G[k - 1])
    BY ONLY <1>2, <1>5, <1>6, LeadsBy
<1>10. QED
    BY <1>2, <1>7, <1>8, <1>9

-----------------------------------------------------------------------------
(* The elements by logical index.                                          *)

(* phys and logical are inverse to each other. *)
LEMMA Indices ==
    ASSUME NEW b \in A!Ring
    PROVE  /\ \A i \in A!Slot : A!phys(b, i) \in A!Slot /\ A!logical(b, A!phys(b, i)) = i
           /\ \A s \in A!Slot : A!logical(b, s) \in A!Slot /\ A!phys(b, A!logical(b, s)) = s
<1>1. b \in P!Ring /\ P!Slot = A!Slot
    BY DEF A!Ring, P!Ring, A!Slot, P!Slot
<1>2. /\ \A i \in P!Slot : P!phys(b, i) \in P!Slot /\ P!logical(b, P!phys(b, i)) = i
      /\ \A s \in P!Slot : P!logical(b, s) \in P!Slot /\ P!phys(b, P!logical(b, s)) = s
    BY <1>1, BufferAssumption, P!PhysValue, P!LogicalValue
<1>3. \A i : P!phys(b, i) = A!phys(b, i) /\ P!logical(b, i) = A!logical(b, i)
    BY DEF A!logical, A!phys, P!logical, P!phys
<1>4. QED
    BY <1>1, <1>2, <1>3

(* The members of a buffer whose elements are given. *)
LEMMA ElementsAre ==
    ASSUME NEW b \in A!Ring, NEW g \in [A!Slot -> Value]
    PROVE  /\ A!WithElements(b, g) =
                 [data |-> [s \in A!Slot |-> g[A!logical(b, s)]],
                  head |-> b.head, count |-> b.count]
           /\ A!WithElements(b, g) \in A!Ring
           /\ \A i : A!phys(A!WithElements(b, g), i) = A!phys(b, i)
           /\ \A i \in A!Slot : A!WithElements(b, g).data[A!phys(b, i)] = g[i]
<1>1. A!WithElements(b, g) = [data |-> [s \in A!Slot |-> g[A!logical(b, s)]],
                              head |-> b.head, count |-> b.count]
    BY RingMembers DEF A!WithElements
<1>2. [s \in A!Slot |-> g[A!logical(b, s)]] \in [A!Slot -> Value]
    BY Indices
<1>3. A!WithElements(b, g) \in A!Ring
    BY <1>1, <1>2 DEF A!Ring
<1>4. \A i : A!phys(A!WithElements(b, g), i) = A!phys(b, i)
    BY <1>1 DEF A!phys
<1>5. \A i \in A!Slot : A!WithElements(b, g).data[A!phys(b, i)] = g[i]
    BY <1>1, Indices
<1>6. QED
    BY <1>1, <1>3, <1>4, <1>5

(* b with v in slot s. *)
Assigned(b, s, v) == [b EXCEPT !.data[s] = v]

(* Assigning to data[phys(i)] changes the i-th element. *)
LEMMA ElementStored ==
    ASSUME NEW b \in A!Ring, NEW g \in [A!Slot -> Value], NEW h \in [A!Slot -> Value],
           NEW i \in A!Slot, NEW v \in Value,
           \A k \in A!Slot : h[k] = IF k = i THEN v ELSE g[k]
    PROVE  Assigned(A!WithElements(b, g), A!phys(b, i), v) = A!WithElements(b, h)
<1>2. PICK d : d = [s \in A!Slot |-> g[A!logical(b, s)]]
    OBVIOUS
<1>3. A!WithElements(b, g) = [data |-> d, head |-> b.head, count |-> b.count]
    BY <1>2, ElementsAre
<1>4. Assigned(A!WithElements(b, g), A!phys(b, i), v) =
         [data |-> [d EXCEPT ![A!phys(b, i)] = v], head |-> b.head, count |-> b.count]
    BY <1>3 DEF Assigned
<1>5. \A s \in A!Slot : s = A!phys(b, i) <=> A!logical(b, s) = i
    BY Indices
<1>6. [d EXCEPT ![A!phys(b, i)] = v] = [s \in A!Slot |-> h[A!logical(b, s)]]
    <2>1. ASSUME NEW s \in A!Slot
          PROVE  [d EXCEPT ![A!phys(b, i)] = v][s] = h[A!logical(b, s)]
        BY <1>2, <1>5, Indices
    <2>2. QED
        BY <1>2, <2>1
<1>7. A!WithElements(b, h) = [data |-> [s \in A!Slot |-> h[A!logical(b, s)]],
                              head |-> b.head, count |-> b.count]
    BY ElementsAre
<1>8. QED
    BY <1>4, <1>6, <1>7

(* The elements a buffer has. *)
Elements(b) == [i \in A!Slot |-> A!At(b, i)]

(* A buffer with its own elements is itself. *)
LEMMA OwnElements ==
    ASSUME NEW b \in A!Ring
    PROVE  /\ Elements(b) \in [A!Slot -> Value]
           /\ A!WithElements(b, Elements(b)) = b
<1>1. Elements(b) \in [A!Slot -> Value]
    BY Indices, RingMembers DEF Elements, A!At
<1>2. [s \in A!Slot |-> Elements(b)[A!logical(b, s)]] = b.data
    BY Indices, RingMembers DEF Elements, A!At
<1>3. A!WithElements(b, Elements(b)) =
         [data |-> [s \in A!Slot |-> Elements(b)[A!logical(b, s)]],
          head |-> b.head, count |-> b.count]
    BY <1>1, ElementsAre
<1>4. QED
    BY <1>1, <1>2, <1>3, RingMembers

-----------------------------------------------------------------------------
(* A turn of a shifting loop. *)
Down(b, lo, hi) ==
    [i \in A!Slot |-> IF i \in lo .. hi - 1 THEN A!At(b, i + 1) ELSE A!At(b, i)]

Up(b, lo, hi) ==
    [i \in A!Slot |-> IF i \in lo + 1 .. hi THEN A!At(b, i - 1) ELSE A!At(b, i)]

(* A shift gives the buffer these elements; a loop that has not turned yet *)
(* gives it its own.                                                       *)
LEMMA Shifts ==
    ASSUME NEW b \in A!Ring, NEW lo \in Nat, NEW hi \in Nat, hi < Capacity
    PROVE  /\ Down(b, lo, hi) \in [A!Slot -> Value] /\ Up(b, lo, hi) \in [A!Slot -> Value]
           /\ A!ShiftDown(b, lo, hi) = A!WithElements(b, Down(b, lo, hi))
           /\ A!ShiftUp(b, lo, hi) = A!WithElements(b, Up(b, lo, hi))
           /\ Down(b, lo, lo) = Elements(b) /\ Up(b, hi, hi) = Elements(b)
<1>1. Capacity \in Nat
    BY BufferAssumption
<1>2. \A i \in A!Slot : A!At(b, i) \in Value
    BY Indices, RingMembers DEF A!At
<1>3. \A i \in A!Slot : /\ i \in lo .. hi - 1 => i + 1 \in A!Slot
                        /\ i \in lo + 1 .. hi => i - 1 \in A!Slot
    BY <1>1 DEF A!Slot
<1>4. Down(b, lo, hi) \in [A!Slot -> Value] /\ Up(b, lo, hi) \in [A!Slot -> Value]
    BY <1>2, <1>3 DEF Down, Up
<1>5. Down(b, lo, lo) = Elements(b) /\ Up(b, hi, hi) = Elements(b)
    BY DEF Down, Up, Elements
<1>6. QED
    BY <1>4, <1>5 DEF A!ShiftDown, A!ShiftUp, Down, Up

(* One turn of the ascending loop copies one more element. *)
LEMMA DownTurn ==
    ASSUME NEW b \in A!Ring, NEW lo \in Nat, NEW j \in Nat, lo <= j, j + 1 < Capacity
    PROVE  Stored(A!ShiftDown(b, lo, j), Copy(A!phys(b, j), A!phys(b, j + 1)))
              = A!ShiftDown(b, lo, j + 1)
<1>1. /\ j \in A!Slot /\ j + 1 \in A!Slot /\ j < Capacity /\ j + 1 \in Nat
      /\ A!At(b, j + 1) \in Value
    BY BufferAssumption, Indices, RingMembers DEF A!Slot, A!At
<1>2. PICK g, h : g = Down(b, lo, j) /\ h = Down(b, lo, j + 1)
    OBVIOUS
<1>3. /\ g \in [A!Slot -> Value] /\ h \in [A!Slot -> Value]
      /\ A!ShiftDown(b, lo, j) = A!WithElements(b, g)
      /\ A!ShiftDown(b, lo, j + 1) = A!WithElements(b, h)
    BY <1>1, <1>2, Shifts
<1>4. g[j + 1] = A!At(b, j + 1)
    BY <1>1, <1>2 DEF Down
<1>5. ASSUME NEW i \in A!Slot
      PROVE  h[i] = IF i = j THEN A!At(b, j + 1) ELSE g[i]
    <2>1. i \in lo .. (j + 1) - 1 <=> i \in lo .. j - 1 \/ i = j
        BY BufferAssumption DEF A!Slot
    <2>2. QED
        BY <1>2, <2>1, <1>1 DEF Down
<1>6. PICK c : c = A!WithElements(b, g)
    OBVIOUS
<1>7. Stored(c, Copy(A!phys(b, j), A!phys(b, j + 1))) =
         Assigned(c, A!phys(b, j), c.data[A!phys(b, j + 1)])
    BY DEF Stored, Copy, Assigned
<1>8. c.data[A!phys(b, j + 1)] = A!At(b, j + 1)
    BY <1>1, <1>3, <1>4, <1>6, ElementsAre
<1>9. Assigned(c, A!phys(b, j), A!At(b, j + 1)) = A!WithElements(b, h)
    BY ONLY <1>1, <1>3, <1>5, <1>6, b \in A!Ring, ElementStored
<1>10. QED
    BY ONLY <1>3, <1>6, <1>7, <1>8, <1>9

(* One turn of the descending loop copies one more element. *)
LEMMA UpTurn ==
    ASSUME NEW b \in A!Ring, NEW hi \in Nat, NEW j \in Nat \ {0}, j <= hi, hi < Capacity
    PROVE  Stored(A!ShiftUp(b, j, hi), Copy(A!phys(b, j), A!phys(b, j - 1)))
              = A!ShiftUp(b, j - 1, hi)
<1>1. /\ j \in A!Slot /\ j - 1 \in A!Slot /\ j \in Nat /\ j - 1 \in Nat
      /\ A!At(b, j - 1) \in Value
    BY BufferAssumption, Indices, RingMembers DEF A!Slot, A!At
<1>2. PICK g, h : g = Up(b, j, hi) /\ h = Up(b, j - 1, hi)
    OBVIOUS
<1>3. /\ g \in [A!Slot -> Value] /\ h \in [A!Slot -> Value]
      /\ A!ShiftUp(b, j, hi) = A!WithElements(b, g)
      /\ A!ShiftUp(b, j - 1, hi) = A!WithElements(b, h)
    BY <1>1, <1>2, Shifts
<1>4. g[j - 1] = A!At(b, j - 1)
    BY <1>1, <1>2 DEF Up
<1>5. ASSUME NEW i \in A!Slot
      PROVE  h[i] = IF i = j THEN A!At(b, j - 1) ELSE g[i]
    <2>1. i \in (j - 1) + 1 .. hi <=> i \in j + 1 .. hi \/ i = j
        BY BufferAssumption DEF A!Slot
    <2>2. QED
        BY <1>2, <2>1, <1>1 DEF Up
<1>6. PICK c : c = A!WithElements(b, g)
    OBVIOUS
<1>7. Stored(c, Copy(A!phys(b, j), A!phys(b, j - 1))) =
         Assigned(c, A!phys(b, j), c.data[A!phys(b, j - 1)])
    BY DEF Stored, Copy, Assigned
<1>8. c.data[A!phys(b, j - 1)] = A!At(b, j - 1)
    BY <1>1, <1>3, <1>4, <1>6, ElementsAre
<1>9. Assigned(c, A!phys(b, j), A!At(b, j - 1)) = A!WithElements(b, h)
    BY ONLY <1>1, <1>3, <1>5, <1>6, b \in A!Ring, ElementStored
<1>10. QED
    BY ONLY <1>3, <1>6, <1>7, <1>8, <1>9

(* The loops of insert and remove. *)
LEMMA LeadsDown ==
    ASSUME NEW b \in A!Ring, NEW lo \in Nat, NEW n \in Nat, lo + n < Capacity,
           NEW o \in Seq(Value), NEW s,
           s = [i \in 1 .. n |-> Copy(A!phys(b, lo + i - 1), A!phys(b, lo + i))]
    PROVE  /\ s \in Seq(Store)
           /\ A!ShiftDown(b, lo, lo + n) \in A!Ring
           /\ Leads(b, o, s, A!ShiftDown(b, lo, lo + n), o)
<1>1. Capacity \in Nat
    BY BufferAssumption
<1>2. \A i \in 1 .. n : A!phys(b, lo + i - 1) \in A!Slot /\ A!phys(b, lo + i) \in A!Slot
    BY RingMembers
<1>3. \A i \in 1 .. n : s[i] \in Store /\ s[i].kind # "visit"
    BY <1>2 DEF Store, Copy
<1>4. s \in Seq(Store) /\ Len(s) = n
    BY <1>3, RunOfStores
<1>5. PICK f : f = [i \in 0 .. n |-> A!ShiftDown(b, lo, lo + i)]
    OBVIOUS
<1>6. \A i \in 0 .. n : f[i] = A!ShiftDown(b, lo, lo + i) /\ f[i] \in A!Ring
    <2>1. ASSUME NEW i \in 0 .. n
          PROVE  A!ShiftDown(b, lo, lo + i) \in A!Ring
        <3>1. lo + i \in Nat /\ lo + i < Capacity
            BY <1>1
        <3>2. QED
            BY <3>1, Shifts, ElementsAre
    <2>2. QED
        BY <1>5, <2>1
<1>7. f \in [0 .. n -> A!Ring]
    BY <1>5, <1>6
<1>8. ASSUME NEW i \in 1 .. n
      PROVE  f[i] = Stored(f[i - 1], s[i])
    <2>1. PICK j \in Nat : j = lo + (i - 1)
        OBVIOUS
    <2>2. lo <= j /\ j + 1 < Capacity /\ j + 1 = lo + i /\ j = lo + i - 1
        BY <1>1, <2>1
    <2>3. s[i] = Copy(A!phys(b, j), A!phys(b, j + 1))
        BY <2>2
    <2>4. f[i - 1] = A!ShiftDown(b, lo, j) /\ f[i] = A!ShiftDown(b, lo, j + 1)
        BY <1>6, <2>1, <2>2
    <2>5. QED
        BY ONLY <2>2, <2>3, <2>4, b \in A!Ring, lo \in Nat, j \in Nat, DownTurn
<1>9. Leads(f[0], o, s, f[n], o)
    BY <1>3, <1>4, <1>7, <1>8, LeadsAlong
<1>10. f[0] = b
    <2>1. A!ShiftDown(b, lo, lo) = A!WithElements(b, Elements(b)) /\ lo + 0 = lo
        BY <1>1, Shifts
    <2>2. QED
        BY <1>6, <2>1, OwnElements
<1>11. QED
    BY <1>4, <1>6, <1>9, <1>10

(* The descending loop. *)
LEMMA LeadsUp ==
    ASSUME NEW b \in A!Ring, NEW hi \in Nat, NEW n \in Nat, n <= hi, hi < Capacity,
           NEW o \in Seq(Value), NEW s,
           s = [i \in 1 .. n |-> Copy(A!phys(b, hi - i + 1), A!phys(b, hi - i))]
    PROVE  /\ s \in Seq(Store)
           /\ A!ShiftUp(b, hi - n, hi) \in A!Ring
           /\ Leads(b, o, s, A!ShiftUp(b, hi - n, hi), o)
<1>1. Capacity \in Nat
    BY BufferAssumption
<1>2. \A i \in 1 .. n : A!phys(b, hi - i + 1) \in A!Slot /\ A!phys(b, hi - i) \in A!Slot
    BY RingMembers
<1>3. \A i \in 1 .. n : s[i] \in Store /\ s[i].kind # "visit"
    BY <1>2 DEF Store, Copy
<1>4. s \in Seq(Store) /\ Len(s) = n
    BY <1>3, RunOfStores
<1>5. PICK f : f = [i \in 0 .. n |-> A!ShiftUp(b, hi - i, hi)]
    OBVIOUS
<1>6. \A i \in 0 .. n : f[i] = A!ShiftUp(b, hi - i, hi) /\ f[i] \in A!Ring
    <2>1. ASSUME NEW i \in 0 .. n
          PROVE  A!ShiftUp(b, hi - i, hi) \in A!Ring
        <3>1. hi - i \in Nat
            OBVIOUS
        <3>2. QED
            BY <3>1, Shifts, ElementsAre
    <2>2. QED
        BY <1>5, <2>1
<1>7. f \in [0 .. n -> A!Ring]
    BY <1>5, <1>6
<1>8. ASSUME NEW i \in 1 .. n
      PROVE  f[i] = Stored(f[i - 1], s[i])
    <2>1. PICK j \in Nat \ {0} : j = hi - (i - 1)
        OBVIOUS
    <2>2. j <= hi /\ j - 1 = hi - i /\ j = hi - i + 1
        BY <2>1
    <2>3. s[i] = Copy(A!phys(b, j), A!phys(b, j - 1))
        BY <2>2
    <2>4. f[i - 1] = A!ShiftUp(b, j, hi) /\ f[i] = A!ShiftUp(b, j - 1, hi)
        BY <1>6, <2>1, <2>2
    <2>5. QED
        BY ONLY <2>2, <2>3, <2>4, b \in A!Ring, hi \in Nat, hi < Capacity, j \in Nat \ {0}, UpTurn
<1>9. Leads(f[0], o, s, f[n], o)
    BY <1>3, <1>4, <1>7, <1>8, LeadsAlong
<1>10. f[0] = b
    <2>1. A!ShiftUp(b, hi, hi) = A!WithElements(b, Elements(b)) /\ hi - 0 = hi
        BY <1>1, Shifts
    <2>2. QED
        BY <1>6, <2>1, OwnElements
<1>11. QED
    BY <1>4, <1>6, <1>9, <1>10

-----------------------------------------------------------------------------
(* The private helpers: reset_front_unlocked. *)
LEMMA ResetFrontLeads ==
    ASSUME NEW b \in A!Ring, b.count # 0, NEW o \in Seq(Value)
    PROVE  /\ A!reset_front_unlocked(b) \in A!Ring
           /\ Leads(b, o, ResetFront(b), A!reset_front_unlocked(b), o)
<1>1. /\ b.head \in A!Slot /\ (b.head + 1) % Capacity \in A!Slot
      /\ b.count - 1 \in 0 .. Capacity /\ Default \in Value
    BY RingMembers, ModSlot, BufferAssumption
<1>2. PICK p, h, n : /\ p = Put(b.head, Default) /\ h = Head_((b.head + 1) % Capacity)
                     /\ n = Count_(b.count - 1)
    OBVIOUS
<1>3. /\ p \in Store /\ h \in Store /\ n \in Store
      /\ p.kind # "visit" /\ h.kind # "visit" /\ n.kind # "visit"
    BY <1>1, <1>2 DEF Store, Put, Head_, Count_
<1>4. PICK c, d, e : c = Stored(b, p) /\ d = Stored(c, h) /\ e = Stored(d, n)
    OBVIOUS
<1>5. c \in A!Ring /\ d \in A!Ring /\ e \in A!Ring
    BY <1>3, <1>4, StoredRing
<1>6. PICK x, y, k :
         x = [b.data EXCEPT ![b.head] = Default] /\ y = (b.head + 1) % Capacity /\ k = b.count - 1
    BY <1>1
<1>7. /\ c = [b EXCEPT !.data[b.head] = Default]
      /\ d = [c EXCEPT !.head = y]
      /\ e = [d EXCEPT !.count = k]
    BY <1>2, <1>4, <1>6 DEF Stored, Put, Head_, Count_
<1>8. e = [data |-> x, head |-> y, count |-> k]
    <2>1. PICK dd, hh, nn : dd = b.data /\ hh = b.head /\ nn = b.count
        OBVIOUS
    <2>2. c = [data |-> x, head |-> hh, count |-> nn]
        <3>1. b = [data |-> dd, head |-> hh, count |-> nn]
            BY <2>1, RingMembers
        <3>2. c = [b EXCEPT !.data[hh] = Default] /\ x = [dd EXCEPT ![hh] = Default]
            BY ONLY <1>6, <1>7, <2>1
        <3>3. c = [[data |-> dd, head |-> hh, count |-> nn] EXCEPT !.data[hh] = Default]
            BY ONLY <3>1, <3>2
        <3>4. QED
            BY ONLY <3>2, <3>3
    <2>3. d = [data |-> x, head |-> y, count |-> nn]
        <3>1. d = [[data |-> x, head |-> hh, count |-> nn] EXCEPT !.head = y]
            BY ONLY <1>7, <2>2
        <3>2. QED
            BY ONLY <3>1
    <2>4. e = [[data |-> x, head |-> y, count |-> nn] EXCEPT !.count = k]
        BY ONLY <1>7, <2>3
    <2>5. QED
        BY ONLY <2>4
<1>9. e = A!reset_front_unlocked(b)
    BY <1>6, <1>8 DEF A!reset_front_unlocked
<1>10. /\ <<p>> \in Seq(Store) /\ <<h>> \in Seq(Store) /\ <<n>> \in Seq(Store)
       /\ <<p>> \o <<h>> \in Seq(Store) /\ ResetFront(b) = <<p>> \o <<h>> \o <<n>>
    BY <1>2, <1>3 DEF ResetFront
<1>11. Leads(b, o, <<p>>, c, o) /\ Leads(c, o, <<h>>, d, o) /\ Leads(d, o, <<n>>, e, o)
    BY <1>3, <1>4, <1>5, LeadsFrom
<1>12. Leads(b, o, <<p>> \o <<h>>, d, o)
    BY <1>10, <1>11, LeadsOn
<1>13. Leads(b, o, <<p>> \o <<h>> \o <<n>>, e, o)
    BY <1>10, <1>11, <1>12, LeadsOn
<1>14. QED
    BY <1>5, <1>9, <1>10, <1>13

(* reset_back_unlocked. *)
LEMMA ResetBackLeads ==
    ASSUME NEW b \in A!Ring, b.count # 0, NEW o \in Seq(Value)
    PROVE  /\ A!reset_back_unlocked(b) \in A!Ring
           /\ Leads(b, o, ResetBack(b), A!reset_back_unlocked(b), o)
<1>1. /\ Last(b) \in A!Slot /\ b.count - 1 \in 0 .. Capacity /\ Default \in Value
    BY RingMembers, BufferAssumption DEF Last
<1>2. PICK p, n : p = Put(Last(b), Default) /\ n = Count_(b.count - 1)
    OBVIOUS
<1>3. p \in Store /\ n \in Store /\ p.kind # "visit" /\ n.kind # "visit"
    BY <1>1, <1>2 DEF Store, Put, Count_
<1>4. PICK c, d : c = Stored(b, p) /\ d = Stored(c, n)
    OBVIOUS
<1>5. c \in A!Ring /\ d \in A!Ring
    BY <1>3, <1>4, StoredRing
<1>6. c = A!Store(b, b.count - 1, Default)
    BY <1>2, <1>4 DEF Stored, Put, Last, A!Store
<1>7. c.count = b.count
    BY <1>3, <1>4, StoredRing, <1>2 DEF Put
<1>8. d = A!reset_back_unlocked(b)
    <2>1. d = [c EXCEPT !.count = b.count - 1]
        BY <1>2, <1>4 DEF Stored, Count_
    <2>2. [c EXCEPT !.count = @ - 1] = [c EXCEPT !.count = b.count - 1]
        BY <1>7
    <2>3. QED
        BY <1>6, <2>1, <2>2 DEF A!reset_back_unlocked, A!Shrunk
<1>9. /\ <<p>> \in Seq(Store) /\ <<n>> \in Seq(Store) /\ ResetBack(b) = <<p>> \o <<n>>
    BY <1>2, <1>3 DEF ResetBack
<1>10. Leads(b, o, <<p>>, c, o) /\ Leads(c, o, <<n>>, d, o)
    BY <1>3, <1>4, <1>5, LeadsFrom
<1>11. Leads(b, o, <<p>> \o <<n>>, d, o)
    BY <1>9, <1>10, LeadsOn
<1>12. QED
    BY <1>5, <1>8, <1>9, <1>11

(* make_room_unlocked. *)
LEMMA EvictLeads ==
    ASSUME NEW b \in A!Ring, NEW policy \in A!Policy, A!HasRoom(b, policy)
    PROVE  Leads(b, <<>>, Evict(b, policy), A!make_room_unlocked(b, policy), <<>>)
<1>1. b.count \in Nat /\ Capacity \in Nat \ {0} /\ b.count <= Capacity /\ <<>> \in Seq(Value)
    BY RingMembers
<1>2. CASE b.count < Capacity
    <2>1. A!make_room_unlocked(b, policy) = b /\ Evict(b, policy) = <<>>
        BY <1>1, <1>2 DEF A!make_room_unlocked, Evict
    <2>2. QED
        BY <1>1, <2>1, LeadsNowhere
<1>3. CASE ~(b.count < Capacity) /\ policy = "Front"
    <2>1. /\ A!make_room_unlocked(b, policy) = A!reset_front_unlocked(b)
          /\ Evict(b, policy) = ResetFront(b) /\ b.count # 0
        BY <1>1, <1>3 DEF A!make_room_unlocked, Evict
    <2>2. QED
        BY <1>1, <2>1, ResetFrontLeads
<1>4. CASE ~(b.count < Capacity) /\ policy = "Back"
    <2>1. /\ A!make_room_unlocked(b, policy) = A!reset_back_unlocked(b)
          /\ Evict(b, policy) = ResetBack(b) /\ b.count # 0
        BY <1>1, <1>4 DEF A!make_room_unlocked, Evict
    <2>2. QED
        BY <1>1, <2>1, ResetBackLeads
<1>5. QED
    BY <1>2, <1>3, <1>4 DEF A!HasRoom, A!Policy

(* One assignment of an operation is one store of its body. *)
LEMMA StoreLeads ==
    ASSUME NEW b \in A!Ring, NEW i \in Nat, NEW v \in Value, NEW o \in Seq(Value)
    PROVE  /\ A!Store(b, i, v) \in A!Ring
           /\ A!Store(b, i, v).count = b.count
           /\ <<Put(A!phys(b, i), v)>> \in Seq(Store)
           /\ Leads(b, o, <<Put(A!phys(b, i), v)>>, A!Store(b, i, v), o)
<1>1. A!phys(b, i) \in A!Slot
    BY RingMembers
<1>2. PICK st : st = Put(A!phys(b, i), v)
    OBVIOUS
<1>3. st \in Store /\ st.kind # "visit" /\ st.kind # "count"
    BY <1>1, <1>2 DEF Store, Put
<1>4. Stored(b, st) = A!Store(b, i, v)
    BY <1>2 DEF Stored, Put, A!Store
<1>5. Leads(b, o, <<st>>, Stored(b, st), o)
    BY <1>3, LeadsFrom
<1>6. Stored(b, st) \in A!Ring /\ Stored(b, st).count = b.count
    BY <1>3, StoredRing
<1>7. QED
    BY <1>2, <1>3, <1>4, <1>5, <1>6

(* ++count. *)
LEMMA GrownLeads ==
    ASSUME NEW b \in A!Ring, b.count < Capacity, NEW o \in Seq(Value),
           NEW n, n = b.count
    PROVE  /\ A!Grown(b) \in A!Ring
           /\ <<Count_(n + 1)>> \in Seq(Store)
           /\ Leads(b, o, <<Count_(n + 1)>>, A!Grown(b), o)
<1>1. n + 1 \in 0 .. Capacity
    BY RingMembers
<1>2. PICK st : st = Count_(n + 1)
    OBVIOUS
<1>3. st \in Store /\ st.kind # "visit"
    BY <1>1, <1>2 DEF Store, Count_
<1>4. Stored(b, st) = A!Grown(b)
    <2>1. Stored(b, st) = [b EXCEPT !.count = n + 1]
        BY <1>2 DEF Stored, Count_
    <2>2. [b EXCEPT !.count = @ + 1] = [b EXCEPT !.count = n + 1]
        OBVIOUS
    <2>3. QED
        BY <2>1, <2>2 DEF A!Grown
<1>5. Leads(b, o, <<st>>, Stored(b, st), o) /\ Stored(b, st) \in A!Ring
    BY <1>3, LeadsFrom, StoredRing
<1>6. QED
    BY <1>2, <1>3, <1>4, <1>5

(* head moves back. *)
LEMMA StepBackLeads ==
    ASSUME NEW b \in A!Ring, NEW o \in Seq(Value)
    PROVE  /\ A!StepBack(b) \in A!Ring
           /\ A!StepBack(b).count = b.count
           /\ <<Head_(A!StepBack(b).head)>> \in Seq(Store)
           /\ Leads(b, o, <<Head_(A!StepBack(b).head)>>, A!StepBack(b), o)
<1>1. A!StepBack(b) \in A!Ring
    BY SteppedBack
<1>2. PICK h : h = (b.head + Capacity - 1) % Capacity
    OBVIOUS
<1>3. A!StepBack(b) = [b EXCEPT !.head = h]
    BY <1>2 DEF A!StepBack
<1>4. /\ A!StepBack(b).head = h /\ h \in A!Slot
      /\ A!StepBack(b).count = b.count
    BY <1>1, <1>3, RingMembers
<1>5. PICK st : st = Head_(h)
    OBVIOUS
<1>6. st \in Store /\ st.kind # "visit" /\ Stored(b, st) = A!StepBack(b)
    BY <1>3, <1>4, <1>5 DEF Store, Head_, Stored
<1>7. Leads(b, o, <<st>>, Stored(b, st), o)
    BY <1>6, LeadsFrom
<1>8. QED
    BY <1>1, <1>4, <1>5, <1>6, <1>7

(* Two stores make a sequence, and three. *)
LEMMA Paired ==
    ASSUME NEW S, NEW x \in S, NEW y \in S
    PROVE  <<x>> \o <<y>> = <<x, y>>
<1>1. PICK a, b, c : a = <<x>> /\ b = <<y>> /\ c = <<x, y>>
    OBVIOUS
<1>2. /\ a \in Seq(S) /\ b \in Seq(S) /\ c \in Seq(S)
      /\ Len(a) = 1 /\ Len(b) = 1 /\ Len(c) = 2
      /\ a[1] = x /\ b[1] = y /\ c[1] = x /\ c[2] = y
    BY <1>1
<1>3. a \o b \in Seq(S) /\ Len(a \o b) = 2 /\ (a \o b)[1] = x /\ (a \o b)[2] = y
    BY <1>2, ConcatProperties
<1>4. a \o b = c
    BY ONLY <1>2, <1>3, SeqEqual
<1>5. QED
    BY ONLY <1>1, <1>4

(* Three stores. *)
LEMMA Joined ==
    ASSUME NEW S, NEW x \in S, NEW y \in S, NEW z \in S
    PROVE  (<<x>> \o <<y>>) \o <<z>> = <<x, y, z>>
<1>1. PICK a, b, c : a = <<x, y>> /\ b = <<z>> /\ c = <<x, y, z>>
    OBVIOUS
<1>2. /\ a \in Seq(S) /\ b \in Seq(S) /\ c \in Seq(S)
      /\ Len(a) = 2 /\ Len(b) = 1 /\ Len(c) = 3
      /\ a[1] = x /\ a[2] = y /\ b[1] = z /\ c[1] = x /\ c[2] = y /\ c[3] = z
    BY <1>1
<1>3. /\ a \o b \in Seq(S) /\ Len(a \o b) = 3
      /\ (a \o b)[1] = x /\ (a \o b)[2] = y /\ (a \o b)[3] = z
    <2>1. /\ a \o b \in Seq(S) /\ Len(a \o b) = Len(a) + Len(b)
          /\ \A i \in 1 .. Len(a) + Len(b) :
                (a \o b)[i] = IF i <= Len(a) THEN a[i] ELSE b[i - Len(a)]
        BY ONLY <1>2, ConcatProperties
    <2>2. /\ Len(a \o b) = 3
          /\ \A i \in 1 .. 3 : (a \o b)[i] = IF i <= 2 THEN a[i] ELSE b[i - 2]
        BY ONLY <1>2, <2>1
    <2>3. (a \o b)[1] = a[1] /\ (a \o b)[2] = a[2] /\ (a \o b)[3] = b[3 - 2]
        BY ONLY <2>2
    <2>4. 3 - 2 = 1
        OBVIOUS
    <2>5. QED
        BY ONLY <1>2, <2>1, <2>2, <2>3, <2>4
<1>4. a \o b = c
    BY ONLY <1>2, <1>3, SeqEqual
<1>5. (<<x, y>>) \o <<z>> = <<x, y, z>>
    BY ONLY <1>1, <1>4
<1>6. <<x>> \o <<y>> = <<x, y>>
    BY Paired
<1>7. QED
    BY ONLY <1>5, <1>6

(* What make_room_unlocked leaves has room. *)
LEMMA RoomLeads ==
    ASSUME NEW b \in A!Ring, NEW policy \in A!Policy, A!HasRoom(b, policy)
    PROVE  /\ A!make_room_unlocked(b, policy) \in A!Ring
           /\ A!make_room_unlocked(b, policy).count \in 0 .. Capacity - 1
           /\ Evict(b, policy) \in Seq(Store)
           /\ Leads(b, <<>>, Evict(b, policy), A!make_room_unlocked(b, policy), <<>>)
BY Room, EvictLeads

-----------------------------------------------------------------------------
(* What an operation does to the members b at once, and what it answers.   *)
Yes(c, out) == [ok |-> TRUE, ring |-> c, out |-> out]

No(b) == [ok |-> FALSE, ring |-> b, out |-> <<>>]

pushed_back(b, v, policy) ==
    LET m == A!make_room_unlocked(b, policy)
    IN  IF A!HasRoom(b, policy) THEN Yes(A!Grown(A!Store(m, m.count, v)), <<>>) ELSE No(b)

pushed_front(b, v, policy) ==
    LET m == A!StepBack(A!make_room_unlocked(b, policy))
    IN  IF A!HasRoom(b, policy) THEN Yes(A!Grown(A!Store(m, 0, v)), <<>>) ELSE No(b)

popped_back(b) ==
    IF b.count # 0 THEN Yes(A!reset_back_unlocked(b), <<A!At(b, b.count - 1)>>) ELSE No(b)

popped_front(b) ==
    IF b.count # 0 THEN Yes(A!reset_front_unlocked(b), <<b.data[b.head]>>) ELSE No(b)

inserted(b, i, v, policy) ==
    LET m == A!make_room_unlocked(b, policy)
        k == IF i > m.count THEN m.count ELSE i
    IN  IF i <= b.count /\ A!HasRoom(b, policy)
        THEN Yes(IF k <= m.count \div 2
                 THEN A!InsertInFrontHalf(m, k, v)
                 ELSE A!InsertInBackHalf(m, k, v), <<>>)
        ELSE No(b)

removed(b, i, wanted) ==
    IF i < b.count
    THEN Yes(IF i <= b.count \div 2 THEN A!RemoveInFrontHalf(b, i) ELSE A!RemoveInBackHalf(b, i),
             IF wanted THEN <<A!At(b, i)>> ELSE <<>>)
    ELSE No(b)

got(b, i) == IF i < b.count THEN Yes(b, <<A!At(b, i)>>) ELSE No(b)

last(b) == IF b.count # 0 THEN Yes(b, <<A!At(b, b.count - 1)>>) ELSE No(b)

(* The elements after n turns of a traversal, and after the first n were   *)
(* reset.                                                                  *)
Rewritten(b, f, n) == [i \in A!Slot |-> IF i < n THEN f[A!At(b, i)] ELSE A!At(b, i)]

Reset(b, n) == [i \in A!Slot |-> IF i < n THEN Default ELSE A!At(b, i)]

traversed(b, f, stop) ==
    LET seen == IF stop <= b.count THEN stop ELSE b.count
    IN  Yes(A!WithElements(b, Rewritten(b, f, seen)), [n \in 1 .. seen |-> A!At(b, n - 1)])

cleared(b) ==
    Yes([data |-> A!WithElements(b, Reset(b, b.count)).data, head |-> 0, count |-> 0], <<>>)

Outcomes(b) ==
    {pushed_back(b, v, policy) : v \in Value, policy \in A!Policy}
    \cup {pushed_front(b, v, policy) : v \in Value, policy \in A!Policy}
    \cup {inserted(b, i, v, policy) : i \in 0 .. Capacity, v \in Value, policy \in A!Policy}
    \cup {removed(b, i, wanted) : i \in 0 .. Capacity, wanted \in BOOLEAN}
    \cup {got(b, i) : i \in 0 .. Capacity}
    \cup {traversed(b, f, stop) : f \in [Value -> Value], stop \in 1 .. Capacity}
    \cup {popped_back(b), popped_front(b), last(b), cleared(b)}

(* What is left of the body w leads from the members b to the outcome x.   *)
Reaches(b, w, x) == w.ok = x.ok /\ Leads(b, w.out, w.todo, x.ring, x.out)

(* An operation that returns false stores nothing. *)
LEMMA RefusedReaches ==
    ASSUME NEW b \in A!Ring
    PROVE  Reaches(b, Refused, No(b))
<1>1. <<>> \in Seq(Value)
    OBVIOUS
<1>2. Leads(b, <<>>, <<>>, b, <<>>)
    BY <1>1, LeadsNowhere
<1>3. QED
    BY <1>2 DEF Reaches, Refused, No

(* What an accepted body leads to is its outcome. *)
LEMMA AcceptedReaches ==
    ASSUME NEW b, NEW gain, NEW todo, NEW out, NEW c, NEW q, Leads(b, out, todo, c, q)
    PROVE  Reaches(b, Accepted(gain, todo, out), Yes(c, q))
BY DEF Reaches, Accepted, Yes

(* push_back and push_front, with or without an eviction. *)
LEMMA PushReaches ==
    ASSUME NEW b \in A!Ring, NEW v \in Value, NEW policy \in A!Policy
    PROVE  /\ Reaches(b, push_back(b, v, policy), pushed_back(b, v, policy))
           /\ Reaches(b, push_front(b, v, policy), pushed_front(b, v, policy))
<1>1. CASE ~A!HasRoom(b, policy)
    <2>1. /\ push_back(b, v, policy) = Refused /\ pushed_back(b, v, policy) = No(b)
          /\ push_front(b, v, policy) = Refused /\ pushed_front(b, v, policy) = No(b)
        BY <1>1 DEF push_back, push_front, pushed_back, pushed_front
    <2>2. QED
        BY <2>1, RefusedReaches
<1>2. CASE A!HasRoom(b, policy)
    <2>1. PICK m, n, e : /\ m = A!make_room_unlocked(b, policy) /\ n = m.count
                         /\ e = Evict(b, policy)
        OBVIOUS
    <2>2. /\ m \in A!Ring /\ n \in Nat /\ n < Capacity /\ Capacity \in Nat
          /\ e \in Seq(Store) /\ Leads(b, <<>>, e, m, <<>>) /\ <<>> \in Seq(Value)
        <3>1. n \in 0 .. Capacity - 1 /\ Capacity \in Nat
            BY <1>2, <2>1, RoomLeads, BufferAssumption
        <3>2. QED
            BY <1>2, <2>1, <3>1, RoomLeads
    <2>3. Reaches(b, push_back(b, v, policy), pushed_back(b, v, policy))
        <3>1. PICK s, p, q : /\ s = A!Store(m, n, v)
                             /\ p = <<Put(A!phys(m, n), v)>> /\ q = <<Count_(n + 1)>>
            OBVIOUS
        <3>2. s \in A!Ring /\ s.count = n /\ p \in Seq(Store) /\ Leads(m, <<>>, p, s, <<>>)
            BY <2>1, <2>2, <3>1, StoreLeads
        <3>3. q \in Seq(Store) /\ Leads(s, <<>>, q, A!Grown(s), <<>>)
            BY <2>2, <3>1, <3>2, GrownLeads
        <3>4. p \o q \in Seq(Store) /\ Leads(m, <<>>, p \o q, A!Grown(s), <<>>)
            BY <3>2, <3>3, LeadsOn, ConcatProperties
        <3>5. Leads(b, <<>>, e \o (p \o q), A!Grown(s), <<>>)
            BY <2>2, <3>4, LeadsOn
        <3>6. p \o q = <<Put(A!phys(m, n), v), Count_(n + 1)>>
            <4>1. PICK x, y : x = Put(A!phys(m, n), v) /\ y = Count_(n + 1)
                OBVIOUS
            <4>2. <<x>> \in Seq(Store) /\ <<y>> \in Seq(Store) /\ p = <<x>> /\ q = <<y>>
                BY <3>1, <3>2, <3>3, <4>1
            <4>3. x \in Store /\ y \in Store
                BY ONLY <4>2
            <4>4. <<x>> \o <<y>> = <<x, y>>
                BY ONLY <4>3, Paired
            <4>5. QED
                BY ONLY <4>1, <4>2, <4>4
        <3>7. /\ push_back(b, v, policy) = Accepted(1 - Lost(b), e \o (p \o q), <<>>)
              /\ pushed_back(b, v, policy) = Yes(A!Grown(s), <<>>)
            BY <1>2, <2>1, <3>1, <3>6 DEF push_back, pushed_back
        <3>8. QED
            BY <3>5, <3>7, AcceptedReaches
    <2>4. Reaches(b, push_front(b, v, policy), pushed_front(b, v, policy))
        <3>1. PICK d, h : d = A!StepBack(m) /\ h = d.head
            OBVIOUS
        <3>2. /\ d \in A!Ring /\ d.count = n /\ <<Head_(h)>> \in Seq(Store)
              /\ Leads(m, <<>>, <<Head_(h)>>, d, <<>>)
            BY <2>1, <2>2, <3>1, StepBackLeads
        <3>3. A!phys(d, 0) = h
            <4>1. h \in Nat /\ h < Capacity /\ Capacity \in Nat \ {0}
                BY <3>1, <3>2, RingMembers
            <4>2. (h + 0) % Capacity = h
                BY ONLY <4>1
            <4>3. QED
                BY ONLY <3>1, <4>2 DEF A!phys
        <3>4. PICK s, p, q, r : /\ s = A!Store(d, 0, v) /\ r = <<Head_(h)>>
                                /\ p = <<Put(h, v)>> /\ q = <<Count_(n + 1)>>
            OBVIOUS
        <3>5. s \in A!Ring /\ s.count = n /\ p \in Seq(Store) /\ Leads(d, <<>>, p, s, <<>>)
            BY <2>2, <3>2, <3>3, <3>4, StoreLeads
        <3>6. q \in Seq(Store) /\ Leads(s, <<>>, q, A!Grown(s), <<>>)
            BY <2>2, <3>4, <3>5, GrownLeads
        <3>7. r \o p \in Seq(Store) /\ Leads(m, <<>>, r \o p, s, <<>>)
            BY <3>2, <3>4, <3>5, LeadsOn, ConcatProperties
        <3>8. (r \o p) \o q \in Seq(Store) /\ Leads(m, <<>>, (r \o p) \o q, A!Grown(s), <<>>)
            BY <3>6, <3>7, LeadsOn, ConcatProperties
        <3>9. Leads(b, <<>>, e \o ((r \o p) \o q), A!Grown(s), <<>>)
            BY <2>2, <3>8, LeadsOn
        <3>10. (r \o p) \o q = <<Head_(h), Put(h, v), Count_(n + 1)>>
            <4>1. PICK x, y, z : x = Head_(h) /\ y = Put(h, v) /\ z = Count_(n + 1)
                OBVIOUS
            <4>2. /\ <<x>> \in Seq(Store) /\ <<y>> \in Seq(Store) /\ <<z>> \in Seq(Store)
                  /\ r = <<x>> /\ p = <<y>> /\ q = <<z>>
                BY <3>2, <3>4, <3>5, <3>6, <4>1
            <4>3. x \in Store /\ y \in Store /\ z \in Store
                BY ONLY <4>2
            <4>4. (<<x>> \o <<y>>) \o <<z>> = <<x, y, z>>
                BY ONLY <4>3, Joined
            <4>5. QED
                BY ONLY <4>1, <4>2, <4>4
        <3>11. /\ push_front(b, v, policy) = Accepted(1 - Lost(b), e \o ((r \o p) \o q), <<>>)
               /\ pushed_front(b, v, policy) = Yes(A!Grown(s), <<>>)
            BY <1>2, <2>1, <3>1, <3>4, <3>10 DEF push_front, pushed_front
        <3>12. QED
            BY <3>9, <3>11, AcceptedReaches
    <2>5. QED
        BY <2>3, <2>4
<1>3. QED
    BY <1>1, <1>2

(* A shift moves neither head nor count. *)
LEMMA ShiftsKeep ==
    ASSUME NEW b \in A!Ring, NEW lo \in Nat, NEW hi \in Nat, hi < Capacity
    PROVE  /\ A!ShiftDown(b, lo, hi) \in A!Ring /\ A!ShiftUp(b, lo, hi) \in A!Ring
           /\ A!ShiftDown(b, lo, hi).head = b.head /\ A!ShiftUp(b, lo, hi).head = b.head
           /\ A!ShiftDown(b, lo, hi).count = b.count /\ A!ShiftUp(b, lo, hi).count = b.count
<1>1. ASSUME NEW g \in [A!Slot -> Value], NEW c, c = A!WithElements(b, g)
      PROVE  c \in A!Ring /\ c.head = b.head /\ c.count = b.count
    BY <1>1, ElementsAre
<1>2. PICK d, u : d = A!ShiftDown(b, lo, hi) /\ u = A!ShiftUp(b, lo, hi)
    OBVIOUS
<1>3. /\ Down(b, lo, hi) \in [A!Slot -> Value] /\ Up(b, lo, hi) \in [A!Slot -> Value]
      /\ d = A!WithElements(b, Down(b, lo, hi)) /\ u = A!WithElements(b, Up(b, lo, hi))
    BY <1>2, Shifts
<1>4. QED
    BY ONLY <1>1, <1>2, <1>3

(* insert, when the shorter side of the gap is the front or the back: what *)
(* it stores before count, and what that makes of the members.             *)
FrontStores(b, k, v) ==
    LET h == A!StepBack(b)
        down == [n \in 1 .. k |-> Copy(A!phys(h, n - 1), A!phys(h, n))]
    IN  <<Head_(h.head)>> \o down \o <<Put(A!phys(h, k), v)>>

BackStores(b, k, v) ==
    LET up == [n \in 1 .. b.count - k |->
                  Copy(A!phys(b, b.count - n + 1), A!phys(b, b.count - n))]
    IN  up \o <<Put(A!phys(b, k), v)>>

FrontFilled(b, k, v) == A!Store(A!ShiftDown(A!StepBack(b), 0, k), k, v)

BackFilled(b, k, v) == A!Store(A!ShiftUp(b, k, b.count), k, v)

(* Elements in front of the gap move. *)
LEMMA FrontInsertLeads ==
    ASSUME NEW b \in A!Ring, b.count < Capacity, NEW k \in 0 .. b.count, NEW v \in Value
    PROVE  /\ FrontStores(b, k, v) \in Seq(Store)
           /\ FrontFilled(b, k, v) \in A!Ring /\ FrontFilled(b, k, v).count = b.count
           /\ Leads(b, <<>>, FrontStores(b, k, v), FrontFilled(b, k, v), <<>>)
<1> PICK h, down, s, c :
        /\ h = A!StepBack(b)
        /\ down = [n \in 1 .. k |-> Copy(A!phys(h, n - 1), A!phys(h, n))]
        /\ s = <<Head_(h.head)>> \o down \o <<Put(A!phys(h, k), v)>>
        /\ c = A!Store(A!ShiftDown(h, 0, k), k, v)
    OBVIOUS
<1> SUFFICES s \in Seq(Store) /\ c \in A!Ring /\ c.count = b.count /\ Leads(b, <<>>, s, c, <<>>)
    BY DEF FrontStores, FrontFilled
<1>1. k \in Nat /\ k < Capacity /\ <<>> \in Seq(Value) /\ 0 \in Nat /\ 0 + k = k /\ 0 + k < Capacity
    BY RingMembers
<1>2. PICK r, p : r = <<Head_(h.head)>> /\ p = <<Put(A!phys(h, k), v)>>
    OBVIOUS
<1>3. /\ h \in A!Ring /\ h.count = b.count /\ r \in Seq(Store)
      /\ Leads(b, <<>>, r, h, <<>>)
    BY <1>1, <1>2, StepBackLeads
<1>4. down = [i \in 1 .. k |-> Copy(A!phys(h, 0 + i - 1), A!phys(h, 0 + i))]
    <2>1. \A i \in 1 .. k : 0 + i - 1 = i - 1 /\ 0 + i = i
        BY <1>1
    <2>2. QED
        BY <2>1
<1>5. PICK d : d = A!ShiftDown(h, 0, k)
    OBVIOUS
<1>6. down \in Seq(Store) /\ Leads(h, <<>>, down, d, <<>>)
    BY ONLY <1>1, <1>3, <1>4, <1>5, LeadsDown
<1>7. d \in A!Ring /\ d.count = h.count /\ A!phys(d, k) = A!phys(h, k)
    <2>1. d \in A!Ring /\ d.count = h.count /\ d.head = h.head
        BY ONLY <1>1, <1>3, <1>5, ShiftsKeep
    <2>2. QED
        BY <2>1 DEF A!phys
<1>8. /\ c \in A!Ring /\ c.count = d.count /\ p \in Seq(Store)
      /\ Leads(d, <<>>, p, c, <<>>)
    BY <1>1, <1>2, <1>5, <1>7, StoreLeads
<1>9. r \o down \in Seq(Store) /\ Leads(b, <<>>, r \o down, d, <<>>)
    BY <1>3, <1>6, LeadsOn, ConcatProperties
<1>10. (r \o down) \o p \in Seq(Store) /\ Leads(b, <<>>, (r \o down) \o p, c, <<>>)
    BY <1>8, <1>9, LeadsOn, ConcatProperties
<1>11. QED
    BY <1>2, <1>3, <1>7, <1>8, <1>10

(* Elements behind the gap move. *)
LEMMA BackInsertLeads ==
    ASSUME NEW b \in A!Ring, b.count < Capacity, NEW k \in 0 .. b.count, NEW v \in Value
    PROVE  /\ BackStores(b, k, v) \in Seq(Store)
           /\ BackFilled(b, k, v) \in A!Ring /\ BackFilled(b, k, v).count = b.count
           /\ Leads(b, <<>>, BackStores(b, k, v), BackFilled(b, k, v), <<>>)
<1> PICK n, up, s, c :
        /\ n = b.count
        /\ up = [i \in 1 .. n - k |-> Copy(A!phys(b, n - i + 1), A!phys(b, n - i))]
        /\ s = up \o <<Put(A!phys(b, k), v)>>
        /\ c = A!Store(A!ShiftUp(b, k, n), k, v)
    OBVIOUS
<1> SUFFICES s \in Seq(Store) /\ c \in A!Ring /\ c.count = n /\ Leads(b, <<>>, s, c, <<>>)
    BY DEF BackStores, BackFilled
<1>1. /\ k \in Nat /\ n \in Nat /\ n < Capacity /\ <<>> \in Seq(Value)
      /\ n - k \in Nat /\ n - k <= n /\ n - (n - k) = k
    BY RingMembers
<1>2. PICK p, d : p = <<Put(A!phys(b, k), v)>> /\ d = A!ShiftUp(b, k, n)
    OBVIOUS
<1>3. up \in Seq(Store) /\ Leads(b, <<>>, up, d, <<>>)
    BY <1>1, <1>2, LeadsUp
<1>4. d \in A!Ring /\ d.count = n /\ A!phys(d, k) = A!phys(b, k)
    <2>1. d \in A!Ring /\ d.count = b.count /\ d.head = b.head
        BY ONLY <1>1, <1>2, b \in A!Ring, ShiftsKeep
    <2>2. QED
        BY <2>1 DEF A!phys
<1>5. /\ c \in A!Ring /\ c.count = n /\ p \in Seq(Store) /\ Leads(d, <<>>, p, c, <<>>)
    BY <1>1, <1>2, <1>4, StoreLeads
<1>6. up \o p \in Seq(Store) /\ Leads(b, <<>>, up \o p, c, <<>>)
    BY <1>3, <1>5, LeadsOn, ConcatProperties
<1>7. QED
    BY <1>2, <1>5, <1>6

(* insert: make room, open the gap, fill it, count it. *)
LEMMA InsertReaches ==
    ASSUME NEW b \in A!Ring, NEW i \in 0 .. Capacity, NEW v \in Value, NEW policy \in A!Policy
    PROVE  Reaches(b, insert(b, i, v, policy), inserted(b, i, v, policy))
<1>1. CASE ~(i <= b.count /\ A!HasRoom(b, policy))
    <2>1. insert(b, i, v, policy) = Refused /\ inserted(b, i, v, policy) = No(b)
        BY <1>1 DEF insert, inserted
    <2>2. QED
        BY <2>1, RefusedReaches
<1>2. CASE i <= b.count /\ A!HasRoom(b, policy)
    <2>1. PICK m, n, e : /\ m = A!make_room_unlocked(b, policy) /\ n = m.count
                         /\ e = Evict(b, policy)
        OBVIOUS
    <2>2. PICK k : k = IF i > n THEN n ELSE i
        OBVIOUS
    <2>3. /\ m \in A!Ring /\ n \in Nat /\ n < Capacity /\ k \in 0 .. n
          /\ e \in Seq(Store) /\ Leads(b, <<>>, e, m, <<>>) /\ <<>> \in Seq(Value)
        <3>1. n \in 0 .. Capacity - 1 /\ Capacity \in Nat
            BY <1>2, <2>1, RoomLeads, BufferAssumption
        <3>2. QED
            BY <1>2, <2>1, <2>2, <3>1, RoomLeads
    <2>4. PICK s, c :
            /\ s = IF k <= n \div 2 THEN FrontStores(m, k, v) ELSE BackStores(m, k, v)
            /\ c = IF k <= n \div 2 THEN FrontFilled(m, k, v) ELSE BackFilled(m, k, v)
        OBVIOUS
    <2>6. s \in Seq(Store) /\ c \in A!Ring /\ c.count = n /\ Leads(m, <<>>, s, c, <<>>)
        BY <2>1, <2>3, <2>4, FrontInsertLeads, BackInsertLeads
    <2>7. PICK q : q = <<Count_(n + 1)>>
        OBVIOUS
    <2>8. q \in Seq(Store) /\ Leads(c, <<>>, q, A!Grown(c), <<>>)
        BY <2>3, <2>6, <2>7, GrownLeads
    <2>9. e \o s \in Seq(Store) /\ Leads(b, <<>>, e \o s, c, <<>>)
        BY <2>3, <2>6, LeadsOn, ConcatProperties
    <2>10. Leads(b, <<>>, (e \o s) \o q, A!Grown(c), <<>>)
        BY <2>8, <2>9, LeadsOn
    <2>11. insert(b, i, v, policy) = Accepted(1 - Lost(b), (e \o s) \o q, <<>>)
        BY <1>2, <2>1, <2>2, <2>4, <2>7 DEF insert, FrontStores, BackStores
    <2>12. inserted(b, i, v, policy) = Yes(A!Grown(c), <<>>)
        BY <1>2, <2>1, <2>2, <2>4
        DEF inserted, A!InsertInFrontHalf, A!InsertInBackHalf, FrontFilled, BackFilled
    <2>13. QED
        BY <2>10, <2>11, <2>12, AcceptedReaches
<1>3. QED
    BY <1>1, <1>2

(* remove, when the shorter side of the gap is the front or the back.      *)
RemoveUp(b, i) == [n \in 1 .. i |-> Copy(A!phys(b, i - n + 1), A!phys(b, i - n))]

RemoveDown(b, i) ==
    [n \in 1 .. b.count - 1 - i |-> Copy(A!phys(b, i + n - 1), A!phys(b, i + n))]

(* The gap moves to the front, and the front is reset. *)
LEMMA FrontRemoveLeads ==
    ASSUME NEW b \in A!Ring, NEW i \in Nat, i < b.count, NEW o \in Seq(Value)
    PROVE  Leads(b, o, RemoveUp(b, i) \o ResetFront(b), A!RemoveInFrontHalf(b, i), o)
<1>1. i < Capacity /\ i - i = 0 /\ 0 \in Nat /\ i <= i /\ b.count # 0 /\ Capacity \in Nat
    BY RingMembers
<1>2. PICK up, d : up = RemoveUp(b, i) /\ d = A!ShiftUp(b, 0, i)
    OBVIOUS
<1>3. up \in Seq(Store) /\ Leads(b, o, up, d, o)
    <2>1. up = [n \in 1 .. i |-> Copy(A!phys(b, i - n + 1), A!phys(b, i - n))]
        BY <1>2 DEF RemoveUp
    <2>2. QED
        BY ONLY <1>1, <1>2, <2>1, b \in A!Ring, i \in Nat, o \in Seq(Value), LeadsUp
<1>4. d \in A!Ring /\ d.count = b.count /\ d.head = b.head
    BY ONLY <1>1, <1>2, b \in A!Ring, i \in Nat, ShiftsKeep
<1>5. ResetFront(d) = ResetFront(b)
    BY <1>4 DEF ResetFront
<1>6. ResetFront(d) \in Seq(Store) /\ Leads(d, o, ResetFront(d), A!reset_front_unlocked(d), o)
    BY <1>1, <1>4, ResetFrontLeads, ResetStores
<1>7. Leads(b, o, up \o ResetFront(b), A!reset_front_unlocked(d), o)
    BY ONLY <1>3, <1>5, <1>6, LeadsOn
<1>8. QED
    BY ONLY <1>2, <1>7 DEF A!RemoveInFrontHalf

(* The gap moves to the back, and the back is reset. *)
LEMMA BackRemoveLeads ==
    ASSUME NEW b \in A!Ring, NEW i \in Nat, i < b.count, NEW o \in Seq(Value)
    PROVE  Leads(b, o, RemoveDown(b, i) \o ResetBack(b), A!RemoveInBackHalf(b, i), o)
<1>1. PICK n : n = b.count - 1 - i
    OBVIOUS
<1>2. /\ n \in Nat /\ i + n < Capacity /\ i + n = b.count - 1 /\ b.count # 0
      /\ b.count - 1 \in Nat /\ b.count - 1 < Capacity
    BY <1>1, RingMembers
<1>3. PICK down, d : down = RemoveDown(b, i) /\ d = A!ShiftDown(b, i, b.count - 1)
    OBVIOUS
<1>4. down \in Seq(Store) /\ Leads(b, o, down, d, o)
    <2>1. down = [j \in 1 .. n |-> Copy(A!phys(b, i + j - 1), A!phys(b, i + j))]
        BY <1>1, <1>3 DEF RemoveDown
    <2>2. d = A!ShiftDown(b, i, i + n)
        BY <1>2, <1>3
    <2>3. QED
        BY ONLY <1>2, <2>1, <2>2, b \in A!Ring, i \in Nat, o \in Seq(Value), LeadsDown
<1>5. d \in A!Ring /\ d.count = b.count /\ d.head = b.head
    BY ONLY <1>2, <1>3, b \in A!Ring, i \in Nat, ShiftsKeep
<1>6. ResetBack(d) = ResetBack(b)
    BY <1>5 DEF ResetBack, Last, A!phys
<1>7. ResetBack(d) \in Seq(Store) /\ Leads(d, o, ResetBack(d), A!reset_back_unlocked(d), o)
    BY <1>2, <1>5, ResetBackLeads, ResetStores
<1>8. Leads(b, o, down \o ResetBack(b), A!reset_back_unlocked(d), o)
    BY ONLY <1>4, <1>6, <1>7, LeadsOn
<1>9. QED
    BY ONLY <1>3, <1>8 DEF A!RemoveInBackHalf

(* remove, whichever half it shifts. *)
LEMMA RemoveReaches ==
    ASSUME NEW b \in A!Ring, NEW i \in 0 .. Capacity, NEW wanted \in BOOLEAN
    PROVE  Reaches(b, remove(b, i, wanted), removed(b, i, wanted))
<1>1. CASE ~(i < b.count)
    <2>1. remove(b, i, wanted) = Refused /\ removed(b, i, wanted) = No(b)
        BY <1>1 DEF remove, removed
    <2>2. QED
        BY <2>1, RefusedReaches
<1>2. CASE i < b.count
    <2>1. PICK o : o = IF wanted THEN <<A!At(b, i)>> ELSE <<>>
        OBVIOUS
    <2>2. i \in Nat /\ i \in A!Slot
        BY <1>2, RingMembers DEF A!Slot
    <2>3. o \in Seq(Value)
        <3>1. A!At(b, i) \in Value
            BY <2>2, Indices, RingMembers DEF A!At
        <3>2. QED
            BY <2>1, <3>1
    <2>4. PICK s, c :
            /\ s = IF i <= b.count \div 2 THEN RemoveUp(b, i) \o ResetFront(b)
                                          ELSE RemoveDown(b, i) \o ResetBack(b)
            /\ c = IF i <= b.count \div 2 THEN A!RemoveInFrontHalf(b, i)
                                          ELSE A!RemoveInBackHalf(b, i)
        OBVIOUS
    <2>5. Leads(b, o, s, c, o)
        BY <1>2, <2>2, <2>3, <2>4, FrontRemoveLeads, BackRemoveLeads
    <2>6. remove(b, i, wanted) = Accepted(-1, s, o)
        BY <1>2, <2>1, <2>4 DEF remove, RemoveUp, RemoveDown
    <2>7. removed(b, i, wanted) = Yes(c, o)
        BY <1>2, <2>1, <2>4 DEF removed
    <2>8. QED
        BY <2>5, <2>6, <2>7, AcceptedReaches
<1>3. QED
    BY <1>1, <1>2

(* pop_back and pop_front. *)
LEMMA PopReaches ==
    ASSUME NEW b \in A!Ring
    PROVE  /\ Reaches(b, pop_back(b), popped_back(b))
           /\ Reaches(b, pop_front(b), popped_front(b))
<1>1. CASE b.count = 0
    <2>1. /\ pop_back(b) = Refused /\ popped_back(b) = No(b)
          /\ pop_front(b) = Refused /\ popped_front(b) = No(b)
        BY <1>1 DEF pop_back, pop_front, popped_back, popped_front
    <2>2. QED
        BY <2>1, RefusedReaches
<1>2. CASE b.count # 0
    <2>1. PICK x, y : x = b.data[Last(b)] /\ y = b.data[b.head]
        OBVIOUS
    <2>2. x \in Value /\ y \in Value /\ x = A!At(b, b.count - 1)
        BY <1>2, <2>1, RingMembers, ResetStores DEF Last, A!At
    <2>3. <<x>> \in Seq(Value) /\ <<y>> \in Seq(Value)
        BY <2>2
    <2>4. /\ Leads(b, <<x>>, ResetBack(b), A!reset_back_unlocked(b), <<x>>)
          /\ Leads(b, <<y>>, ResetFront(b), A!reset_front_unlocked(b), <<y>>)
        BY <1>2, <2>3, ResetBackLeads, ResetFrontLeads
    <2>5. /\ pop_back(b) = Accepted(-1, ResetBack(b), <<x>>)
          /\ pop_front(b) = Accepted(-1, ResetFront(b), <<y>>)
          /\ popped_back(b) = Yes(A!reset_back_unlocked(b), <<x>>)
          /\ popped_front(b) = Yes(A!reset_front_unlocked(b), <<y>>)
        BY <1>2, <2>1, <2>2 DEF pop_back, pop_front, popped_back, popped_front
    <2>6. QED
        BY <2>4, <2>5, AcceptedReaches
<1>3. QED
    BY <1>1, <1>2

(* get, front and back store nothing. *)
LEMMA LookReaches ==
    ASSUME NEW b \in A!Ring, NEW i \in 0 .. Capacity
    PROVE  Reaches(b, get(b, i), got(b, i)) /\ Reaches(b, back(b), last(b))
<1>1. ASSUME NEW j \in Nat, j < b.count
      PROVE  Reaches(b, Accepted(0, <<>>, <<A!At(b, j)>>), Yes(b, <<A!At(b, j)>>))
    <2>1. j \in A!Slot
        BY <1>1, RingMembers DEF A!Slot
    <2>2. PICK x : x = A!At(b, j)
        OBVIOUS
    <2>3. x \in Value
        BY <2>1, <2>2, Indices, RingMembers DEF A!At
    <2>4. <<x>> \in Seq(Value)
        BY <2>3
    <2>5. Leads(b, <<x>>, <<>>, b, <<x>>)
        BY <2>4, LeadsNowhere
    <2>6. QED
        BY <2>2, <2>5, AcceptedReaches
<1>2. Reaches(b, Refused, No(b))
    BY RefusedReaches
<1>3. Reaches(b, get(b, i), got(b, i))
    <2>1. CASE i < b.count
        BY <1>1, <2>1 DEF get, got
    <2>2. CASE ~(i < b.count)
        BY <1>2, <2>2 DEF get, got
    <2>3. QED
        BY <2>1, <2>2
<1>4. Reaches(b, back(b), last(b))
    <2>1. CASE b.count # 0
        <3>1. PICK j \in Nat : j = b.count - 1 /\ j < b.count
            BY <2>1, RingMembers
        <3>2. b.data[Last(b)] = A!At(b, j)
            BY <3>1 DEF Last, A!At
        <3>3. /\ back(b) = Accepted(0, <<>>, <<A!At(b, j)>>)
              /\ last(b) = Yes(b, <<A!At(b, j)>>)
            BY <2>1, <3>1, <3>2 DEF back, last
        <3>4. QED
            BY <1>1, <3>1, <3>3
    <2>2. CASE b.count = 0
        BY <1>2, <2>2 DEF back, last
    <2>3. QED
        BY <2>1, <2>2
<1>5. QED
    BY <1>3, <1>4

(* The elements after some turns of a traversal or of clear. *)
LEMMA TurnsType ==
    ASSUME NEW b \in A!Ring, NEW f \in [Value -> Value], NEW n \in Nat
    PROVE  /\ Rewritten(b, f, n) \in [A!Slot -> Value] /\ Reset(b, n) \in [A!Slot -> Value]
           /\ Rewritten(b, f, 0) = Elements(b) /\ Reset(b, 0) = Elements(b)
<1>1. \A i \in A!Slot : A!At(b, i) \in Value /\ ~(i < 0)
    BY Indices, RingMembers DEF A!At, A!Slot
<1>2. Default \in Value
    BY BufferAssumption
<1>3. Rewritten(b, f, n) \in [A!Slot -> Value] /\ Reset(b, n) \in [A!Slot -> Value]
    BY <1>1, <1>2 DEF Rewritten, Reset
<1>4. Rewritten(b, f, 0) = Elements(b) /\ Reset(b, 0) = Elements(b)
    BY <1>1 DEF Rewritten, Reset, Elements
<1>5. QED
    BY <1>3, <1>4

(* One call of the callback rewrites one element, which it was handed. *)
LEMMA TraversalTurn ==
    ASSUME NEW b \in A!Ring, NEW f \in [Value -> Value], NEW n \in Nat, n < b.count,
           NEW c, c = A!WithElements(b, Rewritten(b, f, n)),
           NEW st, st = Visit(A!phys(b, n), f)
    PROVE  /\ st \in Store
           /\ Stored(c, st) = A!WithElements(b, Rewritten(b, f, n + 1))
           /\ c.data[st.slot] = A!At(b, n)
<1>1. n \in A!Slot /\ A!phys(b, n) \in A!Slot /\ n + 1 \in Nat
    BY Indices, RingMembers DEF A!Slot
<1>2. PICK g, h, v : g = Rewritten(b, f, n) /\ h = Rewritten(b, f, n + 1) /\ v = A!At(b, n)
    OBVIOUS
<1>3. g \in [A!Slot -> Value] /\ h \in [A!Slot -> Value]
    BY <1>1, <1>2, TurnsType
<1>4. v \in Value /\ g[n] = v
    <2>1. v \in Value
        BY <1>1, <1>2, RingMembers DEF A!At
    <2>2. g[n] = v
        BY <1>1, <1>2 DEF Rewritten
    <2>3. QED
        BY <2>1, <2>2
<1>5. PICK y \in Value : y = f[v]
    BY <1>4
<1>6. ASSUME NEW k \in A!Slot
      PROVE  h[k] = IF k = n THEN y ELSE g[k]
    <2>1. k < n + 1 <=> k < n \/ k = n
        BY BufferAssumption DEF A!Slot
    <2>2. QED
        BY <1>2, <1>4, <1>5, <2>1 DEF Rewritten
<1>7. c.data[A!phys(b, n)] = v
    BY <1>1, <1>2, <1>3, <1>4, ElementsAre
<1>8. Stored(c, st) = Assigned(c, A!phys(b, n), y)
    BY <1>5, <1>7 DEF Stored, Visit, Assigned
<1>9. Assigned(c, A!phys(b, n), y) = A!WithElements(b, h)
    BY ONLY c = A!WithElements(b, Rewritten(b, f, n)), <1>1, <1>2, <1>3, <1>5, <1>6,
            b \in A!Ring, ElementStored
<1>10. st \in Store /\ st.slot = A!phys(b, n)
    <2>1. PICK p : p = A!phys(b, n)
        OBVIOUS
    <2>2. p \in A!Slot /\ st = Visit(p, f)
        BY <1>1, <2>1
    <2>3. st \in Store /\ st.slot = p
        BY ONLY <2>2, f \in [Value -> Value] DEF Store, Visit
    <2>4. QED
        BY ONLY <2>1, <2>3
<1>11. QED
    BY ONLY <1>2, <1>7, <1>8, <1>9, <1>10

(* The elements a traversal has handed to its callback after n turns.      *)
Handed(b, n) == [j \in 1 .. n |-> A!At(b, j - 1)]

(* Every call hands over one element more. *)
LEMMA HandedOn ==
    ASSUME NEW b \in A!Ring, NEW n \in Nat, n <= b.count
    PROVE  /\ Handed(b, n) \in Seq(Value)
           /\ Handed(b, 0) = <<>>
           /\ n < b.count => Handed(b, n + 1) = Append(Handed(b, n), A!At(b, n))
<1>1. \A j \in 1 .. n + 1 : n + 1 <= b.count => A!At(b, j - 1) \in Value
    <2>1. ASSUME NEW j \in 1 .. n + 1, n + 1 <= b.count
          PROVE  A!At(b, j - 1) \in Value
        <3>1. j - 1 \in A!Slot
            BY <2>1, RingMembers DEF A!Slot
        <3>2. QED
            BY <3>1, Indices, RingMembers DEF A!At
    <2>2. QED
        BY <2>1
<1>2. \A j \in 1 .. n : A!At(b, j - 1) \in Value
    <2>1. ASSUME NEW j \in 1 .. n
          PROVE  A!At(b, j - 1) \in Value
        <3>1. j - 1 \in A!Slot
            BY RingMembers DEF A!Slot
        <3>2. QED
            BY <3>1, Indices, RingMembers DEF A!At
    <2>2. QED
        BY <2>1
<1>3. Handed(b, n) \in Seq(Value) /\ Len(Handed(b, n)) = n
    BY <1>2 DEF Handed
<1>4. Handed(b, 0) = <<>>
    BY DEF Handed
<1>5. ASSUME n < b.count
      PROVE  Handed(b, n + 1) = Append(Handed(b, n), A!At(b, n))
    <2>1. PICK s, t, x : s = Handed(b, n) /\ t = Handed(b, n + 1) /\ x = A!At(b, n)
        OBVIOUS
    <2>2. n + 1 <= b.count /\ n + 1 \in Nat /\ (n + 1) - 1 = n /\ n + 1 \in 1 .. n + 1
        BY <1>5, RingMembers
    <2>3. t \in Seq(Value) /\ Len(t) = n + 1 /\ x \in Value
        BY <1>1, <2>1, <2>2 DEF Handed
    <2>4. /\ Append(s, x) \in Seq(Value) /\ Len(Append(s, x)) = n + 1
          /\ \A i \in 1 .. n + 1 : Append(s, x)[i] = IF i <= n THEN s[i] ELSE x
        BY <1>3, <2>1, <2>3, AppendProperties
    <2>5. ASSUME NEW i \in 1 .. n + 1
          PROVE  t[i] = Append(s, x)[i]
        BY <2>1, <2>2, <2>4 DEF Handed
    <2>6. QED
        BY ONLY <2>1, <2>3, <2>4, <2>5, SeqEqual
<1>6. QED
    BY <1>3, <1>4, <1>5

(* for_each and for_each_until. *)
LEMMA TraversalReaches ==
    ASSUME NEW b \in A!Ring, NEW f \in [Value -> Value], NEW stop \in 1 .. Capacity
    PROVE  Reaches(b, for_each_until(b, f, stop), traversed(b, f, stop))
<1>1. PICK n : n = IF stop <= b.count THEN stop ELSE b.count
    OBVIOUS
<1>2. n \in Nat /\ n <= b.count /\ b.count \in Nat
    BY <1>1, RingMembers
<1>3. PICK s, c, g :
        /\ s = [i \in 1 .. n |-> Visit(A!phys(b, i - 1), f)]
        /\ c = [i \in 0 .. n |-> A!WithElements(b, Rewritten(b, f, i))]
        /\ g = [i \in 0 .. n |-> Handed(b, i)]
    OBVIOUS
<1>4. c \in [0 .. n -> A!Ring] /\ g \in [0 .. n -> Seq(Value)]
    <2>1. ASSUME NEW i \in 0 .. n
          PROVE  A!WithElements(b, Rewritten(b, f, i)) \in A!Ring /\ Handed(b, i) \in Seq(Value)
        <3>1. i \in Nat /\ i <= b.count
            BY <1>2
        <3>2. QED
            BY <3>1, TurnsType, ElementsAre, HandedOn
    <2>2. QED
        BY <1>3, <2>1
<1>5. ASSUME NEW i \in 1 .. n
      PROVE  /\ s[i] \in Store
             /\ c[i] = Stored(c[i - 1], s[i]) /\ g[i] = Seen(g[i - 1], c[i - 1], s[i])
    <2>1. PICK j \in Nat : j = i - 1 /\ j + 1 = i /\ j < b.count /\ j <= b.count
        BY <1>2
    <2>2. /\ c[i] = A!WithElements(b, Rewritten(b, f, j + 1)) /\ s[i] = Visit(A!phys(b, j), f)
          /\ c[i - 1] = A!WithElements(b, Rewritten(b, f, j))
          /\ g[i] = Handed(b, j + 1) /\ g[i - 1] = Handed(b, j)
        BY <1>2, <1>3, <2>1
    <2>3. /\ s[i] \in Store /\ c[i] = Stored(c[i - 1], s[i])
          /\ c[i - 1].data[s[i].slot] = A!At(b, j)
        BY ONLY <2>1, <2>2, b \in A!Ring, f \in [Value -> Value], j \in Nat, TraversalTurn
    <2>4. s[i].kind = "visit"
        BY <2>2 DEF Visit
    <2>5. Handed(b, j + 1) = Append(Handed(b, j), A!At(b, j))
        BY ONLY <2>1, b \in A!Ring, j \in Nat, HandedOn
    <2>6. g[i] = Seen(g[i - 1], c[i - 1], s[i])
        BY ONLY <2>2, <2>3, <2>4, <2>5 DEF Seen
    <2>7. QED
        BY ONLY <2>3, <2>6
<1>6. Len(s) = n
    BY <1>2, <1>3, <1>5, RunOfStores
<1>7. Leads(c[0], g[0], s, c[n], g[n])
    BY ONLY <1>4, <1>5, <1>6, LeadsBy
<1>8. c[0] = b /\ g[0] = <<>>
    <2>1. 0 \in 0 .. n /\ 0 \in Nat /\ 0 <= b.count
        BY <1>2
    <2>2. A!WithElements(b, Rewritten(b, f, 0)) = b
        BY <2>1, TurnsType, OwnElements
    <2>3. Handed(b, 0) = <<>>
        BY <2>1, HandedOn
    <2>4. QED
        BY <1>3, <2>1, <2>2, <2>3
<1>9. c[n] = A!WithElements(b, Rewritten(b, f, n)) /\ g[n] = [j \in 1 .. n |-> A!At(b, j - 1)]
    BY <1>2, <1>3 DEF Handed
<1>10. PICK d, q : d = c[n] /\ q = g[n]
    OBVIOUS
<1>11. for_each_until(b, f, stop) = Accepted(0, s, <<>>)
    BY <1>1, <1>3 DEF for_each_until
<1>12. traversed(b, f, stop) = Yes(d, q)
    BY <1>1, <1>9, <1>10 DEF traversed
<1>13. Leads(b, <<>>, s, d, q)
    BY <1>7, <1>8, <1>10
<1>14. QED
    BY ONLY <1>11, <1>12, <1>13, AcceptedReaches

(* clear, when r elements are reset, head was moved h times and count was  *)
(* decremented n times.                                                    *)
Clearing(b, r, h, n) ==
    [data  |-> A!WithElements(b, Reset(b, r)).data,
     head  |-> A!phys(b, h),
     count |-> b.count - n]

(* Clearing never leaves the array. *)
LEMMA ClearingType ==
    ASSUME NEW b \in A!Ring, NEW r \in Nat, NEW h \in Nat, NEW n \in Nat, n <= b.count
    PROVE  Clearing(b, r, h, n) \in A!Ring
<1>1. /\ A!WithElements(b, Reset(b, r)) \in A!Ring
      /\ A!phys(b, h) \in A!Slot /\ b.count - n \in 0 .. Capacity
    <2>1. Reset(b, r) \in [A!Slot -> Value]
        <3>1. PICK f : f = [v \in Value |-> v]
            OBVIOUS
        <3>2. f \in [Value -> Value]
            BY <3>1
        <3>3. QED
            BY <3>2, TurnsType
    <2>2. QED
        BY <2>1, ElementsAre, RingMembers
<1>2. A!WithElements(b, Reset(b, r)).data \in [A!Slot -> Value]
    BY <1>1, RingMembers
<1>3. QED
    BY <1>1, <1>2 DEF Clearing, A!Ring

(* Each of the three stores of a turn of clear. *)
LEMMA ClearingTurn ==
    ASSUME NEW b \in A!Ring, NEW r \in Nat, NEW h \in Nat, NEW n \in Nat, n <= b.count
    PROVE  /\ r < b.count => Stored(Clearing(b, r, h, n), Put(A!phys(b, r), Default))
                                = Clearing(b, r + 1, h, n)
           /\ Stored(Clearing(b, r, h, n), Head_(A!phys(b, h + 1))) = Clearing(b, r, h + 1, n)
           /\ Stored(Clearing(b, r, h, n), Count_(b.count - n - 1)) = Clearing(b, r, h, n + 1)
<1>1. PICK d, x, y, k :
         /\ d = A!WithElements(b, Reset(b, r)).data
         /\ x = A!phys(b, h) /\ y = A!phys(b, h + 1) /\ k = b.count - n
    OBVIOUS
<1>2. PICK c : c = Clearing(b, r, h, n)
    OBVIOUS
<1>3. c = [data |-> d, head |-> x, count |-> k]
    BY <1>1, <1>2 DEF Clearing
<1>4. Stored(c, Head_(y)) = [data |-> d, head |-> y, count |-> k]
    <2>1. Stored(c, Head_(y)) = [c EXCEPT !.head = y]
        BY DEF Stored, Head_
    <2>2. QED
        BY ONLY <1>3, <2>1
<1>5. Stored(c, Count_(k - 1)) = [data |-> d, head |-> x, count |-> k - 1]
    <2>1. Stored(c, Count_(k - 1)) = [c EXCEPT !.count = k - 1]
        BY DEF Stored, Count_
    <2>2. QED
        BY ONLY <1>3, <2>1
<1>6. k - 1 = b.count - (n + 1) /\ b.count - n - 1 = k - 1
    BY <1>1, RingMembers
<1>7. ASSUME r < b.count
      PROVE  Stored(c, Put(A!phys(b, r), Default)) = Clearing(b, r + 1, h, n)
    <2>1. PICK f : f = [v \in Value |-> v]
        OBVIOUS
    <2>2. PICK g, e, p : g = Reset(b, r) /\ e = Reset(b, r + 1) /\ p = A!phys(b, r)
        OBVIOUS
    <2>3. r \in A!Slot /\ r + 1 \in Nat /\ Default \in Value /\ f \in [Value -> Value]
        BY <1>7, <2>1, RingMembers, BufferAssumption DEF A!Slot
    <2>4. g \in [A!Slot -> Value] /\ e \in [A!Slot -> Value]
        BY <2>2, <2>3, TurnsType
    <2>5. ASSUME NEW i \in A!Slot
          PROVE  e[i] = IF i = r THEN Default ELSE g[i]
        <3>1. i < r + 1 <=> i < r \/ i = r
            BY BufferAssumption DEF A!Slot
        <3>2. QED
            BY <2>2, <3>1 DEF Reset
    <2>6. PICK w : w = A!WithElements(b, g)
        OBVIOUS
    <2>7. Assigned(w, p, Default) = A!WithElements(b, e)
        BY ONLY b \in A!Ring, <2>2, <2>3, <2>4, <2>5, <2>6, ElementStored
    <2>8. w \in A!Ring /\ w.data = d
        BY <1>1, <2>2, <2>4, <2>6, ElementsAre
    <2>9. Assigned(w, p, Default).data = [d EXCEPT ![p] = Default]
        BY <2>8, RingMembers DEF Assigned
    <2>10. Stored(c, Put(p, Default)) = [c EXCEPT !.data[p] = Default]
        BY DEF Stored, Put
    <2>11. PICK z : z = [d EXCEPT ![p] = Default]
        OBVIOUS
    <2>12. [c EXCEPT !.data[p] = Default] = [data |-> z, head |-> x, count |-> k]
        BY ONLY <1>3, <2>11
    <2>13. z = A!WithElements(b, Reset(b, r + 1)).data
        BY ONLY <2>2, <2>7, <2>9, <2>11
    <2>14. QED
        BY ONLY <1>1, <2>2, <2>10, <2>12, <2>13 DEF Clearing
<1>8. QED
    BY ONLY <1>1, <1>2, <1>4, <1>5, <1>6, <1>7 DEF Clearing

(* clear, whose last store is head = 0. *)
LEMMA ClearReaches ==
    ASSUME NEW b \in A!Ring
    PROVE  Reaches(b, clear(b), cleared(b))
<1>1. PICK n \in Nat : n = b.count /\ n <= Capacity
    BY RingMembers
<1>2. PICK s, c :
        /\ s = [m \in 1 .. 3 * n |->
                   LET i == (m - 1) \div 3
                   IN  CASE m % 3 = 1 -> Put(A!phys(b, i), Default)
                         [] m % 3 = 2 -> Head_(A!phys(b, i + 1))
                         [] m % 3 = 0 -> Count_(n - i - 1)]
        /\ c = [m \in 0 .. 3 * n |-> Clearing(b, (m + 2) \div 3, (m + 1) \div 3, m \div 3)]
    OBVIOUS
<1>3. \A m \in 0 .. 3 * n : c[m] \in A!Ring
    <2>1. ASSUME NEW m \in 0 .. 3 * n
          PROVE  Clearing(b, (m + 2) \div 3, (m + 1) \div 3, m \div 3) \in A!Ring
        <3>1. /\ (m + 2) \div 3 \in Nat /\ (m + 1) \div 3 \in Nat /\ m \div 3 \in Nat
              /\ m \div 3 <= n
            OBVIOUS
        <3>2. QED
            BY <1>1, <3>1, ClearingType
    <2>2. QED
        BY <1>2, <2>1
<1>4. c \in [0 .. 3 * n -> A!Ring]
    BY <1>2, <1>3
<1>5. ASSUME NEW m \in 1 .. 3 * n
      PROVE  s[m] \in Store /\ s[m].kind # "visit" /\ c[m] = Stored(c[m - 1], s[m])
    <2>1. PICK i \in Nat : i = (m - 1) \div 3 /\ i < n
        OBVIOUS
    <2>2. /\ A!phys(b, i) \in A!Slot /\ A!phys(b, i + 1) \in A!Slot
          /\ n - i - 1 \in 0 .. Capacity /\ Default \in Value /\ i + 1 \in Nat
        BY <1>1, <2>1, RingMembers, BufferAssumption
    <2>3. /\ c[m] = Clearing(b, (m + 2) \div 3, (m + 1) \div 3, m \div 3)
          /\ c[m - 1] = Clearing(b, ((m - 1) + 2) \div 3, ((m - 1) + 1) \div 3, (m - 1) \div 3)
        <3>1. m \in 0 .. 3 * n /\ m - 1 \in 0 .. 3 * n
            OBVIOUS
        <3>2. QED
            BY ONLY <1>2, <3>1
    <2>4. CASE m % 3 = 1
        <3>1. s[m] = Put(A!phys(b, i), Default)
            BY <1>2, <2>1, <2>4
        <3>2. /\ (m + 2) \div 3 = i + 1 /\ (m + 1) \div 3 = i /\ m \div 3 = i
              /\ ((m - 1) + 2) \div 3 = i /\ ((m - 1) + 1) \div 3 = i
            BY <2>1, <2>4
        <3>3. c[m] = Clearing(b, i + 1, i, i) /\ c[m - 1] = Clearing(b, i, i, i)
            BY ONLY <2>1, <2>3, <3>2
        <3>4. s[m] \in Store /\ s[m].kind # "visit"
            BY <2>2, <3>1 DEF Store, Put
        <3>5. QED
            BY ONLY <1>1, <2>1, <3>1, <3>3, <3>4, b \in A!Ring, ClearingTurn
    <2>5. CASE m % 3 = 2
        <3>1. s[m] = Head_(A!phys(b, i + 1))
            BY <1>2, <2>1, <2>5
        <3>2. /\ (m + 2) \div 3 = i + 1 /\ (m + 1) \div 3 = i + 1 /\ m \div 3 = i
              /\ ((m - 1) + 2) \div 3 = i + 1 /\ ((m - 1) + 1) \div 3 = i /\ (m - 1) \div 3 = i
            BY <2>1, <2>5
        <3>3. c[m] = Clearing(b, i + 1, i + 1, i) /\ c[m - 1] = Clearing(b, i + 1, i, i)
            BY ONLY <2>1, <2>3, <3>2
        <3>4. s[m] \in Store /\ s[m].kind # "visit"
            BY <2>2, <3>1 DEF Store, Head_
        <3>5. i <= b.count
            BY <1>1, <2>1
        <3>6. QED
            BY ONLY <2>1, <2>2, <3>1, <3>3, <3>4, <3>5, b \in A!Ring, ClearingTurn
    <2>6. CASE m % 3 = 0
        <3>1. s[m] = Count_(n - i - 1)
            BY <1>2, <2>1, <2>6
        <3>2. /\ (m + 2) \div 3 = i + 1 /\ (m + 1) \div 3 = i + 1 /\ m \div 3 = i + 1
              /\ ((m - 1) + 2) \div 3 = i + 1 /\ ((m - 1) + 1) \div 3 = i + 1 /\ (m - 1) \div 3 = i
            BY <2>1, <2>6
        <3>3. c[m] = Clearing(b, i + 1, i + 1, i + 1) /\ c[m - 1] = Clearing(b, i + 1, i + 1, i)
            BY ONLY <2>1, <2>3, <3>2
        <3>4. s[m] \in Store /\ s[m].kind # "visit"
            BY <2>2, <3>1 DEF Store, Count_
        <3>5. i <= b.count
            BY <1>1, <2>1
        <3>6. QED
            BY ONLY <1>1, <2>1, <2>2, <3>1, <3>3, <3>4, <3>5, b \in A!Ring, ClearingTurn
    <2>7. m % 3 = 0 \/ m % 3 = 1 \/ m % 3 = 2
        OBVIOUS
    <2>8. QED
        BY ONLY <2>4, <2>5, <2>6, <2>7
<1>6. 3 * n \in Nat /\ s \in Seq(Store) /\ Len(s) = 3 * n /\ <<>> \in Seq(Value)
    <2>1. 3 * n \in Nat /\ <<>> \in Seq(Value)
        OBVIOUS
    <2>2. s \in Seq(Store) /\ Len(s) = 3 * n
        <3>1. DOMAIN s = 1 .. 3 * n /\ s = [m \in 1 .. 3 * n |-> s[m]]
            BY <1>2
        <3>2. QED
            BY ONLY <1>5, <2>1, <3>1, RunOfStores
    <2>3. QED
        BY <2>1, <2>2
<1>7. Leads(c[0], <<>>, s, c[3 * n], <<>>)
    BY ONLY <1>4, <1>5, <1>6, LeadsAlong
<1>8. c[0] = b
    <2>1. /\ 0 \in 0 .. 3 * n /\ (0 + 2) \div 3 = 0 /\ (0 + 1) \div 3 = 0 /\ 0 \div 3 = 0
          /\ n - 0 = n
        OBVIOUS
    <2>2. c[0] = Clearing(b, 0, 0, 0)
        BY <1>2, <2>1
    <2>3. A!WithElements(b, Reset(b, 0)) = b
        <3>1. PICK f : f = [v \in Value |-> v]
            OBVIOUS
        <3>2. f \in [Value -> Value] /\ 0 \in Nat
            BY <3>1
        <3>3. QED
            BY <3>2, TurnsType, OwnElements
    <2>4. A!phys(b, 0) = b.head
        <3>1. PICK h : h = b.head
            OBVIOUS
        <3>2. h \in Nat /\ h < Capacity /\ Capacity \in Nat \ {0}
            BY <3>1, RingMembers
        <3>3. (h + 0) % Capacity = h
            BY ONLY <3>2
        <3>4. QED
            BY ONLY <3>1, <3>3 DEF A!phys
    <2>5. Clearing(b, 0, 0, 0) = [data |-> b.data, head |-> b.head, count |-> b.count]
        BY <1>1, <2>1, <2>3, <2>4 DEF Clearing
    <2>6. QED
        BY <2>2, <2>5, RingMembers
<1>9. PICK d, x : d = c[3 * n] /\ x = A!WithElements(b, Reset(b, n)).data
    OBVIOUS
<1>10. d = [data |-> x, head |-> A!phys(b, n), count |-> 0]
    <2>1. /\ 3 * n \in 0 .. 3 * n /\ (3 * n + 2) \div 3 = n /\ (3 * n + 1) \div 3 = n
          /\ (3 * n) \div 3 = n /\ n - n = 0
        OBVIOUS
    <2>2. d = Clearing(b, n, n, n)
        BY <1>2, <1>9, <2>1
    <2>3. QED
        BY <1>1, <1>9, <2>1, <2>2 DEF Clearing
<1>11. PICK st : st = Head_(0)
    OBVIOUS
<1>12. st \in Store /\ st.kind # "visit" /\ <<st>> \in Seq(Store)
    <2>1. 0 \in A!Slot
        BY BufferAssumption DEF A!Slot
    <2>2. st \in Store /\ st.kind # "visit"
        BY <1>11, <2>1 DEF Store, Head_
    <2>3. QED
        BY <2>2
<1>13. Stored(d, st) = [data |-> x, head |-> 0, count |-> 0]
    <2>1. Stored(d, st) = [d EXCEPT !.head = 0]
        BY <1>11 DEF Stored, Head_
    <2>2. PICK y : y = A!phys(b, n)
        OBVIOUS
    <2>3. d = [data |-> x, head |-> y, count |-> 0]
        BY ONLY <1>10, <2>2
    <2>4. QED
        BY ONLY <2>1, <2>3
<1>14. d \in A!Ring
    BY <1>3, <1>9
<1>15. Leads(d, <<>>, <<st>>, Stored(d, st), <<>>)
    BY <1>6, <1>12, <1>14, LeadsFrom
<1>16. Leads(b, <<>>, s \o <<st>>, Stored(d, st), <<>>)
    BY ONLY <1>6, <1>7, <1>8, <1>9, <1>12, <1>15, LeadsOn
<1>17. clear(b) = Accepted(-n, s \o <<st>>, <<>>)
    BY <1>1, <1>2, <1>11 DEF clear
<1>18. cleared(b) = Yes(Stored(d, st), <<>>)
    BY <1>1, <1>9, <1>13 DEF cleared
<1>19. QED
    BY ONLY <1>16, <1>17, <1>18, AcceptedReaches

(* Whatever body a caller begins leads to an outcome of an operation.      *)
LEMMA BodiesReach ==
    ASSUME NEW b \in A!Ring, NEW w \in FromTask(b) \cup FromIsr(b)
    PROVE  \E x \in Outcomes(b) : Reaches(b, w, x)
<1>1. ASSUME NEW v \in Value, NEW policy \in A!Policy
      PROVE  /\ pushed_back(b, v, policy) \in Outcomes(b)
             /\ pushed_front(b, v, policy) \in Outcomes(b)
    BY DEF Outcomes
<1>2. ASSUME NEW i \in 0 .. Capacity, NEW v \in Value, NEW policy \in A!Policy
      PROVE  inserted(b, i, v, policy) \in Outcomes(b)
    BY DEF Outcomes
<1>3. ASSUME NEW i \in 0 .. Capacity, NEW wanted \in BOOLEAN
      PROVE  removed(b, i, wanted) \in Outcomes(b)
    BY DEF Outcomes
<1>4. ASSUME NEW i \in 0 .. Capacity
      PROVE  got(b, i) \in Outcomes(b)
    BY DEF Outcomes
<1>5. ASSUME NEW f \in [Value -> Value], NEW stop \in 1 .. Capacity
      PROVE  traversed(b, f, stop) \in Outcomes(b)
    BY DEF Outcomes
<1>6. /\ popped_back(b) \in Outcomes(b) /\ popped_front(b) \in Outcomes(b)
      /\ last(b) \in Outcomes(b) /\ cleared(b) \in Outcomes(b)
    BY DEF Outcomes
<1>7. \/ w \in {pop_back(b), pop_front(b), back(b), clear(b)}
      \/ \E v \in Value, policy \in A!Policy :
            w = push_back(b, v, policy) \/ w = push_front(b, v, policy)
      \/ \E i \in 0 .. Capacity, v \in Value, policy \in A!Policy : w = insert(b, i, v, policy)
      \/ \E i \in 0 .. Capacity, wanted \in BOOLEAN : w = remove(b, i, wanted)
      \/ \E i \in 0 .. Capacity : w = get(b, i)
      \/ \E f \in [Value -> Value], stop \in 1 .. Capacity : w = for_each_until(b, f, stop)
    BY DEF FromTask, FromIsr
<1>8. CASE w \in {pop_back(b), pop_front(b), back(b), clear(b)}
    <2>1. 0 \in 0 .. Capacity
        BY BufferAssumption
    <2>2. Reaches(b, back(b), last(b))
        BY <2>1, LookReaches
    <2>3. QED
        BY <1>6, <1>8, <2>2, PopReaches, ClearReaches
<1>9. CASE \E v \in Value, policy \in A!Policy :
              w = push_back(b, v, policy) \/ w = push_front(b, v, policy)
    BY <1>1, <1>9, PushReaches
<1>10. CASE \E i \in 0 .. Capacity, v \in Value, policy \in A!Policy :
               w = insert(b, i, v, policy)
    BY <1>2, <1>10, InsertReaches
<1>11. CASE \E i \in 0 .. Capacity, wanted \in BOOLEAN : w = remove(b, i, wanted)
    BY <1>3, <1>11, RemoveReaches
<1>12. CASE \E i \in 0 .. Capacity : w = get(b, i)
    BY <1>4, <1>12, LookReaches
<1>13. CASE \E f \in [Value -> Value], stop \in 1 .. Capacity : w = for_each_until(b, f, stop)
    BY <1>5, <1>13, TraversalReaches
<1>14. QED
    BY ONLY <1>7, <1>8, <1>9, <1>10, <1>11, <1>12, <1>13

-----------------------------------------------------------------------------
(* The buffer as somebody outside a critical section sees it.              *)
Shown == IF Quiet THEN ring ELSE before

(* To bring about an outcome at once is an operation of the atomic buffer. *)
LEMMA OutcomesAreSteps ==
    ASSUME Shown \in A!Ring, NEW x \in Outcomes(Shown),
           Shown' = x.ring, ret' = [ok |-> x.ok, out |-> x.out]
    PROVE  A!Next
<1>1. ASSUME NEW c, NEW out, x = Yes(c, out)
      PROVE  A!Return(c, out)
    BY <1>1 DEF Yes, A!Return, Shown
<1>2. ASSUME x = No(Shown)
      PROVE  A!ReturnFalse
    BY <1>2 DEF No, A!ReturnFalse, Shown
<1>3. \/ x \in {popped_back(Shown), popped_front(Shown), last(Shown), cleared(Shown)}
      \/ \E v \in Value, policy \in A!Policy :
            x = pushed_back(Shown, v, policy) \/ x = pushed_front(Shown, v, policy)
      \/ \E i \in 0 .. Capacity, v \in Value, policy \in A!Policy :
            x = inserted(Shown, i, v, policy)
      \/ \E i \in 0 .. Capacity, wanted \in BOOLEAN : x = removed(Shown, i, wanted)
      \/ \E i \in 0 .. Capacity : x = got(Shown, i)
      \/ \E f \in [Value -> Value], stop \in 1 .. Capacity : x = traversed(Shown, f, stop)
    BY DEF Outcomes
<1>4. ASSUME NEW v \in Value, NEW policy \in A!Policy, x = pushed_back(Shown, v, policy)
      PROVE  A!push_back(v, policy)
    <2>1. CASE A!HasRoom(Shown, policy)
        BY <1>1, <1>4, <2>1 DEF pushed_back, A!push_back, Shown
    <2>2. CASE ~A!HasRoom(Shown, policy)
        BY <1>2, <1>4, <2>2 DEF pushed_back, A!push_back, Shown
    <2>3. QED
        BY <2>1, <2>2
<1>5. ASSUME NEW v \in Value, NEW policy \in A!Policy, x = pushed_front(Shown, v, policy)
      PROVE  A!push_front(v, policy)
    <2>1. CASE A!HasRoom(Shown, policy)
        BY <1>1, <1>5, <2>1 DEF pushed_front, A!push_front, Shown
    <2>2. CASE ~A!HasRoom(Shown, policy)
        BY <1>2, <1>5, <2>2 DEF pushed_front, A!push_front, Shown
    <2>3. QED
        BY <2>1, <2>2
<1>6. ASSUME NEW i \in 0 .. Capacity, NEW v \in Value, NEW policy \in A!Policy,
             x = inserted(Shown, i, v, policy)
      PROVE  A!insert(i, v, policy)
    <2>1. CASE i <= Shown.count /\ A!HasRoom(Shown, policy)
        BY <1>1, <1>6, <2>1 DEF inserted, A!insert, Shown
    <2>2. CASE ~(i <= Shown.count /\ A!HasRoom(Shown, policy))
        <3>1. i > Shown.count \/ ~A!HasRoom(Shown, policy)
            BY <2>2, RingMembers
        <3>2. A!ReturnFalse
            BY <1>2, <1>6, <2>2 DEF inserted
        <3>3. QED
            BY ONLY <3>1, <3>2 DEF A!insert, Shown
    <2>3. QED
        BY <2>1, <2>2
<1>7. ASSUME NEW i \in 0 .. Capacity, NEW wanted \in BOOLEAN, x = removed(Shown, i, wanted)
      PROVE  A!remove(i, wanted)
    <2>1. CASE i < Shown.count
        BY <1>1, <1>7, <2>1 DEF removed, A!remove, Shown
    <2>2. CASE ~(i < Shown.count)
        <3>1. i >= Shown.count
            BY <2>2, RingMembers
        <3>2. A!ReturnFalse
            BY <1>2, <1>7, <2>2 DEF removed
        <3>3. QED
            BY ONLY <3>1, <3>2 DEF A!remove, Shown
    <2>3. QED
        BY <2>1, <2>2
<1>8. ASSUME NEW i \in 0 .. Capacity, x = got(Shown, i)
      PROVE  A!get(i)
    <2>1. CASE i < Shown.count
        BY <1>1, <1>8, <2>1 DEF got, A!get, Shown
    <2>2. CASE ~(i < Shown.count)
        <3>1. i >= Shown.count
            BY <2>2, RingMembers
        <3>2. A!ReturnFalse
            BY <1>2, <1>8, <2>2 DEF got
        <3>3. QED
            BY ONLY <3>1, <3>2 DEF A!get, Shown
    <2>3. QED
        BY <2>1, <2>2
<1>9. ASSUME NEW f \in [Value -> Value], NEW stop \in 1 .. Capacity,
             x = traversed(Shown, f, stop)
      PROVE  A!for_each_until(f, stop)
    BY <1>1, <1>9 DEF traversed, Rewritten, A!for_each_until, Shown
<1>10. ASSUME x = popped_back(Shown)
       PROVE  A!pop_back
    BY <1>1, <1>2, <1>10 DEF popped_back, A!pop_back, Shown
<1>11. ASSUME x = popped_front(Shown)
       PROVE  A!pop_front
    BY <1>1, <1>2, <1>11 DEF popped_front, A!pop_front, Shown
<1>12. ASSUME x = last(Shown)
       PROVE  A!back
    BY <1>1, <1>2, <1>12 DEF last, A!back, Shown
<1>13. ASSUME x = cleared(Shown)
       PROVE  A!clear
    BY <1>1, <1>13 DEF cleared, Reset, A!clear, Shown
<1>14. \A i \in 0 .. Capacity : i \in 0 .. Capacity + 1
    BY BufferAssumption
<1>15. QED
    BY <1>3, <1>4, <1>5, <1>6, <1>7, <1>8, <1>9, <1>10, <1>11, <1>12, <1>13, <1>14 DEF A!Next

(* What the body of a caller has left to store leads to an outcome of one  *)
(* operation on the members it found.                                      *)
Promise ==
    \A p \in Process :
        Inside(p) => \E x \in Outcomes(before) : Reaches(ring, work[p], x)

(* Nobody is in a body initially. *)
LEMMA PromiseInit == Init => Promise
BY DEF Init, Promise, Inside

(* A body keeps its promise store by store, because it is alone. *)
LEMMA PromiseNext ==
    TypeOK /\ Exclusive /\ Exclusive' /\ Promise /\ [Next]_vars => Promise'
<1> SUFFICES ASSUME TypeOK, Exclusive, Exclusive', Promise, [Next]_vars
             PROVE  Promise'
    OBVIOUS
<1> USE DEF Inside
<1>1. ASSUME NEW p \in Process, Enter(p)
      PROVE  Promise'
    BY <1>1 DEF Enter, Promise, TypeOK
<1>2. ASSUME NEW p \in Process, Begin(p)
      PROVE  Promise'
    <2>1. /\ phase' = [phase EXCEPT ![p] = "inside"] /\ phase'[p] = "inside"
          /\ before' = ring /\ ring' = ring
        BY <1>2 DEF Begin, TypeOK
    <2>2. PICK w \in FromTask(ring) \cup FromIsr(ring) : work' = [work EXCEPT ![p] = w]
        BY <1>2 DEF Begin
    <2>3. work'[p] = w
        BY <2>2 DEF TypeOK
    <2>4. \E x \in Outcomes(ring) : Reaches(ring, w, x)
        BY BodiesReach DEF TypeOK
    <2>5. \A q \in Process : phase'[q] = "inside" => q = p
        BY <2>1 DEF Exclusive
    <2>6. QED
        BY <2>1, <2>3, <2>4, <2>5 DEF Promise
<1>3. ASSUME NEW p \in Process, Step(p)
      PROVE  Promise'
    <2>1. PICK w, st : w = work[p] /\ st = Head(work[p].todo)
        OBVIOUS
    <2>2. /\ phase[p] = "inside" /\ w.todo # <<>> /\ ring' = Stored(ring, st)
          /\ UNCHANGED <<phase, before>>
        BY <1>3, <2>1 DEF Step
    <2>3. w \in Body /\ w.todo \in Seq(Store)
        BY <2>1 DEF TypeOK, Body
    <2>4. PICK x \in Outcomes(before) :
             w.ok = x.ok /\ Leads(ring, w.out, w.todo, x.ring, x.out)
        BY <2>1, <2>2 DEF Promise, Reaches
    <2>5. Leads(ring', Seen(w.out, ring, st), Tail(w.todo), x.ring, x.out)
        BY <2>1, <2>2, <2>3, <2>4, LeadsStep
    <2>6. /\ work'[p].ok = w.ok /\ work'[p].todo = Tail(w.todo)
          /\ work'[p].out = Seen(w.out, ring, st)
        BY <1>3, <2>1, <2>3 DEF Step, TypeOK, Body, Seen
    <2>7. Reaches(ring', work'[p], x)
        BY <2>4, <2>5, <2>6 DEF Reaches
    <2>8. \A q \in Process : phase'[q] = "inside" => q = p
        BY <2>2 DEF Exclusive
    <2>9. QED
        BY <2>2, <2>7, <2>8 DEF Promise
<1>4. ASSUME NEW p \in Process, Exit(p)
      PROVE  Promise'
    <2>1. phase[p] = "inside" /\ phase' = [phase EXCEPT ![p] = "outside"]
        BY <1>4 DEF Exit
    <2>2. \A q \in Process : phase'[q] # "inside"
        BY <2>1 DEF Exclusive, TypeOK
    <2>3. QED
        BY <2>2 DEF Promise
<1>5. CASE UNCHANGED vars
    BY <1>5 DEF vars, Promise
<1>6. QED
    BY <1>1, <1>2, <1>3, <1>4, <1>5 DEF Next

(* The empty buffer is the initial atomic one. *)
LEMMA InitShown == Init => A!Init
BY DEF Init, A!Init

(* Leaving a critical section is an operation of the atomic buffer, and no *)
(* other step shows anything.                                              *)
LEMMA NextShown ==
    TypeOK /\ Exclusive /\ Exclusive' /\ Promise /\ [Next]_vars => [A!Next]_(A!vars)
<1> SUFFICES ASSUME TypeOK, Exclusive, Exclusive', Promise, [Next]_vars
             PROVE  A!Next \/ UNCHANGED <<Shown, ret>>
    BY DEF A!vars, Shown
<1> USE DEF Inside
<1>1. ASSUME NEW p \in Process, Enter(p)
      PROVE  UNCHANGED <<Shown, ret>>
    <2>1. \A q \in Process : phase'[q] = "inside" <=> phase[q] = "inside"
        BY <1>1 DEF Enter, TypeOK
    <2>2. Quiet' <=> Quiet
        BY <2>1 DEF Quiet
    <2>3. QED
        BY <1>1, <2>2 DEF Enter, Shown
<1>2. ASSUME NEW p \in Process, Begin(p)
      PROVE  UNCHANGED <<Shown, ret>>
    <2>1. /\ phase' = [phase EXCEPT ![p] = "inside"] /\ phase'[p] = "inside"
          /\ phase[p] = "entering"
          /\ before' = ring /\ ring' = ring /\ ret' = ret
        BY <1>2 DEF Begin, TypeOK
    <2>2. Quiet /\ ~Quiet'
        BY <2>1 DEF Exclusive, Quiet, TypeOK
    <2>3. QED
        BY <2>1, <2>2 DEF Shown
<1>3. ASSUME NEW p \in Process, Step(p)
      PROVE  UNCHANGED <<Shown, ret>>
    <2>1. phase[p] = "inside" /\ UNCHANGED <<phase, before, ret>>
        BY <1>3 DEF Step
    <2>2. ~Quiet /\ ~Quiet'
        BY <2>1 DEF Quiet
    <2>3. QED
        BY <2>1, <2>2 DEF Shown
<1>4. ASSUME NEW p \in Process, Exit(p)
      PROVE  A!Next
    <2>1. /\ phase[p] = "inside" /\ work[p].todo = <<>> /\ UNCHANGED <<ring, before>>
          /\ phase' = [phase EXCEPT ![p] = "outside"]
          /\ ret' = [ok |-> work[p].ok, out |-> work[p].out]
        BY <1>4 DEF Exit
    <2>2. ~Quiet
        BY <2>1 DEF Quiet
    <2>3. \A q \in Process : phase'[q] # "inside"
        BY <2>1 DEF Exclusive, TypeOK
    <2>4. Quiet'
        BY <2>3 DEF Quiet
    <2>5. Shown = before /\ Shown' = ring
        BY <2>1, <2>2, <2>4 DEF Shown
    <2>6. PICK x \in Outcomes(before) :
             work[p].ok = x.ok /\ Leads(ring, work[p].out, work[p].todo, x.ring, x.out)
        BY <2>1 DEF Promise, Reaches
    <2>7. ring = x.ring /\ work[p].out = x.out
        BY <2>1, <2>6, LeadsEnd
    <2>8. Shown \in A!Ring /\ x \in Outcomes(Shown) /\ Shown' = x.ring
        BY <2>5, <2>7 DEF TypeOK
    <2>9. ret' = [ok |-> x.ok, out |-> x.out]
        BY <2>1, <2>6, <2>7
    <2>10. QED
        BY ONLY <2>8, <2>9, OutcomesAreSteps
<1>5. CASE UNCHANGED vars
    BY <1>5 DEF vars, Shown, Quiet
<1>6. QED
    BY <1>1, <1>2, <1>3, <1>4, <1>5 DEF Next

(* On a Protected platform whatever callers do, on any number of cores and *)
(* however their critical sections are interleaved, is what some sequence  *)
(* of whole operations of SafeRingBuffer does, for any capacity: nobody    *)
(* sees or is told of a half-done operation.                               *)
THEOREM AccessImplementsAtomicBuffer ==
    ASSUME Protected
    PROVE  Spec => ImplementsAtomicBuffer
<1>1. Spec => []TypeOK /\ []Exclusive
    BY MembersStayLegal, SectionsExclude
<1>2. QED
    BY <1>1, PromiseInit, PromiseNext, InitShown, NextShown, PTL
    DEF Spec, ImplementsAtomicBuffer, A!Spec
-----------------------------------------------------------------------------
(* The atomic buffer of this module is the one SafeRingBufferRefinement    *)
(* proves about.                                                           *)
LEMMA SameBuffer == A!Spec => P!Spec
<1>1. A!Init => P!Init
    BY DEF A!Init, P!Init, A!Slot, P!Slot
<1>2. [A!Next]_(A!vars) => [P!Next]_(P!vars)
    BY Zenon
    DEF A!Next, P!Next, A!vars, P!vars,
        A!push_back, P!push_back, A!push_front, P!push_front, A!pop_back, P!pop_back,
        A!pop_front, P!pop_front, A!insert, P!insert, A!remove, P!remove, A!get, P!get,
        A!back, P!back, A!for_each_until, P!for_each_until, A!clear, P!clear, A!Policy,
        P!Policy, A!Slot, P!Slot, A!phys, P!phys, A!At, P!At, A!logical, P!logical,
        A!Store, P!Store, A!StepBack, P!StepBack, A!Grown, P!Grown, A!Shrunk, P!Shrunk,
        A!reset_front_unlocked, P!reset_front_unlocked, A!reset_back_unlocked,
        P!reset_back_unlocked, A!HasRoom, P!HasRoom, A!make_room_unlocked,
        P!make_room_unlocked, A!WithElements, P!WithElements, A!ShiftDown, P!ShiftDown,
        A!ShiftUp, P!ShiftUp, A!Return, P!Return, A!ReturnFalse, P!ReturnFalse,
        A!InsertInFrontHalf, P!InsertInFrontHalf, A!InsertInBackHalf,
        P!InsertInBackHalf, A!RemoveInFrontHalf, P!RemoveInFrontHalf,
        A!RemoveInBackHalf, P!RemoveInBackHalf
<1>3. QED
    BY <1>1, <1>2, PTL DEF A!Spec, P!Spec

(* From stores to promises: on a Protected platform all that callers on    *)
(* any number of cores do and are told, they could have done to and been   *)
(* told by a bounded deque.                                                *)
THEOREM AccessImplementsDeque ==
    ASSUME Protected
    PROVE  Spec => P!ImplementsDeque
<1>1. Spec => A!Spec
    BY AccessImplementsAtomicBuffer DEF ImplementsAtomicBuffer
<1>2. P!Spec => P!ImplementsDeque
    BY P!RingImplementsDeque, BufferAssumption DEF P!CapacityAssumption, P!DefaultAssumption
<1>3. QED
    BY <1>1, <1>2, SameBuffer
=============================================================================
