-------------------------- MODULE LockGuardsProofs --------------------------
(***************************************************************************)
(* What the guards say about their mutexes is true, for any number of      *)
(* tasks and mutexes, any nesting and any sequence of timeouts.            *)
(*                                                                         *)
(* The argument has two halves that meet in the sets Locked(gs, m): what   *)
(* an operation on a stack of guards does to these sets, and what a take   *)
(* or a give may do to them without breaking their agreement with the      *)
(* kernel's holder and depth.                                              *)
(***************************************************************************)
EXTENDS LockGuards, SequenceTheorems, FiniteSetTheorems, TLAPS

(* A guard and a stack of guards as the constructors build them, if ex are *)
(* the mutexes that have a handle.                                         *)
GoodGuard(g, ex) ==
    /\ g \in Guard
    /\ g.mutex \in MutexOf(g.kind)
    /\ g.is_locked => g.mutex \in ex

Good(gs, ex) ==
    /\ gs \in Seq(Guard)
    /\ \A i \in DOMAIN gs : GoodGuard(gs[i], ex)

(* A task is blocked on a guard that it has, and that is not locked.       *)
WaitsUnlocked ==
    \A t \in Task :
        ~Runs(t) =>
            /\ blocked[t].guard \in DOMAIN guards[t]
            /\ guards[t][blocked[t].guard].mutex \in exists
            /\ blocked[t].guard \notin LockedOn(t, guards[t][blocked[t].guard].mutex)

FreeWhenUntaken == \A m \in AnyMutex : holder[m] = NoTask <=> depth[m] = 0

Agree == FreeWhenUntaken /\ OwnsLockIsTrue /\ TakenForEachGuard

GuardInv ==
    /\ TypeOK
    /\ \A t \in Task : Good(guards[t], exists)
    /\ WaitsUnlocked
    /\ Agree

-----------------------------------------------------------------------------
(* What happens to the sets of locked guards.                              *)

(* A guard class has the mutexes of one kind. *)
LEMMA MutexKinds ==
    ASSUME NEW kind \in Kind
    PROVE  /\ MutexOf(kind) \subseteq AnyMutex
           /\ kind \in UniqueKind =>
                (kind = "UniqueLock" /\ MutexOf(kind) = Mutex)
                \/ (kind = "RecursiveUniqueLock" /\ MutexOf(kind) = RecursiveMutex)
BY DEF MutexOf, AnyMutex, PlainKind, UniqueKind

(* A stack of guards is a function on 1 .. Len. *)
LEMMA GoodType ==
    ASSUME NEW gs, Good(gs, exists)
    PROVE  /\ gs \in Seq(Guard) /\ Len(gs) \in Nat /\ DOMAIN gs = 1 .. Len(gs)
           /\ \A i \in DOMAIN gs :
                /\ gs[i] \in Guard
                /\ gs[i].kind \in Kind /\ gs[i].mutex \in AnyMutex /\ gs[i].is_locked \in BOOLEAN
           /\ \A m : IsFiniteSet(Locked(gs, m))
<1>1. gs \in Seq(Guard)
    BY DEF Good
<1>2. Len(gs) \in Nat /\ DOMAIN gs = 1 .. Len(gs) /\ gs \in [1 .. Len(gs) -> Guard]
    BY <1>1, LenProperties
<1>3. \A i \in DOMAIN gs : gs[i] \in Guard
    BY <1>2
<1>4. ASSUME NEW m
      PROVE  IsFiniteSet(Locked(gs, m))
    <2>1. IsFiniteSet(1 .. Len(gs))
        BY <1>2, FS_Interval
    <2>2. Locked(gs, m) \in SUBSET (1 .. Len(gs))
        BY <1>2 DEF Locked
    <2>3. QED
        BY <2>1, <2>2, FS_Subset
<1>5. QED
    BY <1>1, <1>2, <1>3, <1>4 DEF Guard

(* Putting one guard in the place of another. *)
Replaced(gs, i, e) == [gs EXCEPT ![i] = e]

(* It keeps a stack good. *)
LEMMA GoodReplaced ==
    ASSUME NEW gs, Good(gs, exists), NEW i \in DOMAIN gs, NEW e, GoodGuard(e, exists),
           NEW hs, hs = Replaced(gs, i, e)
    PROVE  /\ Good(hs, exists)
           /\ DOMAIN hs = DOMAIN gs
           /\ hs[i] = e
           /\ \A j \in DOMAIN gs \ {i} : hs[j] = gs[j]
<1>1. i \in 1 .. Len(gs) /\ DOMAIN gs = 1 .. Len(gs) /\ e \in Guard
    BY GoodType DEF GoodGuard
<1>2. /\ hs \in Seq(Guard) /\ Len(hs) = Len(gs)
      /\ \A j \in 1 .. Len(gs) : hs[j] = IF j = i THEN e ELSE gs[j]
    BY <1>1, GoodType, ExceptSeq DEF Replaced
<1>3. DOMAIN hs = DOMAIN gs
    BY <1>1, <1>2, LenProperties
<1>4. Good(hs, exists)
    BY <1>1, <1>2, <1>3 DEF Good
<1>5. QED
    BY <1>1, <1>2, <1>3, <1>4

(* The mutex of the i-th guard. *)
MutexIn(gs, i) == gs[i].mutex

(* The two values that is_locked gets. *)
Held(gs, i) == WithLocked(gs, i, TRUE)
Unheld(gs, i) == WithLocked(gs, i, FALSE)

(* is_locked = true puts a guard into the set of its mutex. *)
LEMMA LockedByTaking ==
    ASSUME NEW gs, Good(gs, exists), NEW i \in DOMAIN gs, MutexIn(gs, i) \in exists,
           NEW hs, hs = Held(gs, i)
    PROVE  /\ Good(hs, exists)
           /\ DOMAIN hs = DOMAIN gs
           /\ \A n : n # MutexIn(gs, i) => Locked(hs, n) = Locked(gs, n)
           /\ Locked(hs, MutexIn(gs, i)) = Locked(gs, MutexIn(gs, i)) \cup {i}
<1>1. GoodGuard(gs[i], exists)
    BY DEF Good
<1>2. PICK e : e = [gs[i] EXCEPT !.is_locked = TRUE]
    OBVIOUS
<1>3. GoodGuard(e, exists)
    BY <1>1, <1>2 DEF GoodGuard, Guard, MutexIn
<1>4. e.mutex = MutexIn(gs, i) /\ e.is_locked
    BY <1>1, <1>2 DEF GoodGuard, Guard, MutexIn
<1>5. hs = Replaced(gs, i, e)
    BY <1>2 DEF Held, WithLocked, Replaced
<1>6. /\ Good(hs, exists) /\ DOMAIN hs = DOMAIN gs /\ hs[i] = e
      /\ \A j \in DOMAIN gs \ {i} : hs[j] = gs[j]
    BY ONLY <1>3, <1>5, GoodReplaced, Good(gs, exists), i \in DOMAIN gs
<1>7. QED
    BY <1>4, <1>6 DEF Locked, MutexIn

(* is_locked = false takes it out. *)
LEMMA LockedByGiving ==
    ASSUME NEW gs, Good(gs, exists), NEW i \in DOMAIN gs,
           NEW hs, hs = Unheld(gs, i)
    PROVE  /\ Good(hs, exists)
           /\ DOMAIN hs = DOMAIN gs
           /\ MutexIn(hs, i) = MutexIn(gs, i)
           /\ \A n : n # MutexIn(gs, i) => Locked(hs, n) = Locked(gs, n)
           /\ Locked(hs, MutexIn(gs, i)) = Locked(gs, MutexIn(gs, i)) \ {i}
<1>1. GoodGuard(gs[i], exists)
    BY DEF Good
<1>2. PICK e : e = [gs[i] EXCEPT !.is_locked = FALSE]
    OBVIOUS
<1>3. GoodGuard(e, exists)
    BY <1>1, <1>2 DEF GoodGuard, Guard, MutexIn
<1>4. e.mutex = MutexIn(gs, i) /\ ~e.is_locked
    BY <1>1, <1>2 DEF GoodGuard, Guard, MutexIn
<1>5. hs = Replaced(gs, i, e)
    BY <1>2 DEF Unheld, WithLocked, Replaced
<1>6. /\ Good(hs, exists) /\ DOMAIN hs = DOMAIN gs /\ hs[i] = e
      /\ \A j \in DOMAIN gs \ {i} : hs[j] = gs[j]
    BY ONLY <1>3, <1>5, GoodReplaced, Good(gs, exists), i \in DOMAIN gs
<1>7. QED
    BY <1>4, <1>6 DEF Locked, MutexIn

(* A constructor puts an unlocked guard on the stack. *)
Pushed(gs, kind, m) == Append(gs, [kind |-> kind, mutex |-> m, is_locked |-> FALSE])

LEMMA LockedByPushing ==
    ASSUME NEW gs, Good(gs, exists), NEW kind \in Kind, NEW m \in MutexOf(kind),
           NEW hs, hs = Pushed(gs, kind, m)
    PROVE  /\ Good(hs, exists)
           /\ Len(hs) \in DOMAIN hs
           /\ MutexIn(hs, Len(hs)) = m
           /\ Len(hs) \notin Locked(hs, m)
           /\ \A n : Locked(hs, n) = Locked(gs, n)
<1>1. PICK e : e = [kind |-> kind, mutex |-> m, is_locked |-> FALSE]
    OBVIOUS
<1>2. e \in Guard /\ e.mutex = m /\ ~e.is_locked /\ GoodGuard(e, exists)
    BY <1>1, MutexKinds DEF Guard, GoodGuard
<1>3. Len(gs) \in Nat /\ DOMAIN gs = 1 .. Len(gs) /\ gs \in Seq(Guard)
    BY GoodType
<1>4. hs = Append(gs, e)
    BY <1>1 DEF Pushed
<1>5. /\ hs \in Seq(Guard) /\ Len(hs) = Len(gs) + 1
      /\ \A j \in 1 .. Len(gs) : hs[j] = gs[j]
      /\ hs[Len(gs) + 1] = e
    BY ONLY <1>2, <1>3, <1>4, AppendProperties
<1>6. DOMAIN hs = 1 .. Len(gs) + 1
    BY <1>5, LenProperties
<1>7. \A j \in DOMAIN hs : j \in DOMAIN gs \/ j = Len(gs) + 1
    BY <1>3, <1>6
<1>8. Good(hs, exists)
    BY <1>2, <1>3, <1>5, <1>7 DEF Good
<1>9. ASSUME NEW n
      PROVE  Locked(hs, n) = Locked(gs, n)
    BY <1>2, <1>3, <1>5, <1>6, <1>7 DEF Locked
<1>10. Len(hs) \in DOMAIN hs
    BY <1>3, <1>5, <1>6
<1>11. MutexIn(hs, Len(hs)) = m /\ Len(hs) \notin Locked(hs, m)
    BY <1>2, <1>5 DEF Locked, MutexIn
<1>12. QED
    BY <1>8, <1>9, <1>10, <1>11

(* A destructor takes the innermost guard off. *)
Popped(gs) == SubSeq(gs, 1, Len(gs) - 1)

LEMMA LockedByPopping ==
    ASSUME NEW gs, Good(gs, exists), gs # <<>>, NEW hs, hs = Popped(gs)
    PROVE  /\ Len(gs) \in DOMAIN gs
           /\ Good(hs, exists)
           /\ \A m : Locked(hs, m) = Locked(gs, m) \ {Len(gs)}
<1>1. PICK k : k = Len(gs) - 1
    OBVIOUS
<1>2. Len(gs) \in Nat \ {0} /\ DOMAIN gs = 1 .. Len(gs)
    BY GoodType, EmptySeq
<1>3. k \in Nat /\ Len(gs) = k + 1
    BY <1>1, <1>2
<1>4. \A i \in 1 .. k : gs[i] \in Guard
    BY <1>2, <1>3, GoodType
<1>5. /\ hs \in Seq(Guard)
      /\ Len(hs) = k
      /\ \A j \in 1 .. k : hs[j] = gs[j]
    <2>1. hs = SubSeq(gs, 1, k)
        BY <1>1 DEF Popped
    <2>2. QED
        BY <1>3, <1>4, <2>1, SubSeqProperties
<1>6. DOMAIN hs = 1 .. k
    BY <1>5, LenProperties
<1>7. 1 .. k = DOMAIN gs \ {Len(gs)} /\ Len(gs) \in DOMAIN gs
    BY <1>2, <1>3
<1>8. Good(hs, exists)
    BY <1>5, <1>6, <1>7 DEF Good
<1>9. ASSUME NEW m
      PROVE  Locked(hs, m) = Locked(gs, m) \ {Len(gs)}
    BY <1>5, <1>6, <1>7 DEF Locked
<1>10. QED
    BY <1>7, <1>8, <1>9

-----------------------------------------------------------------------------
(* What a take, a give and neither do to the agreement with the kernel.    *)

(* A take: the mutex was free, or its holder takes a recursive one again. *)
LEMMA AcquireAgrees ==
    ASSUME TypeOK, Agree,
           NEW t \in Task, NEW m \in AnyMutex, NEW i,
           Available(t, m), Acquire(t, m),
           \A u \in Task, n \in AnyMutex :
              /\ IsFiniteSet(LockedOn(u, n))
              /\ LockedOn(u, n)' = IF u = t /\ n = m THEN LockedOn(u, n) \cup {i}
                                                     ELSE LockedOn(u, n)
    PROVE  Agree'
<1>1. /\ holder' = [holder EXCEPT ![m] = t] /\ depth' = [depth EXCEPT ![m] = @ + 1]
      /\ holder \in [AnyMutex -> Task \cup {NoTask}] /\ depth \in [AnyMutex -> Nat]
    BY DEF Acquire, TypeOK
<1>2. \A n \in AnyMutex :
         /\ holder'[n] = IF n = m THEN t ELSE holder[n]
         /\ depth'[n] = IF n = m THEN depth[m] + 1 ELSE depth[n]
         /\ depth[n] \in Nat
    BY <1>1
<1>3. FreeWhenUntaken'
    BY <1>2, GuardAssumption DEF Agree, FreeWhenUntaken
<1>4. OwnsLockIsTrue'
    <2> SUFFICES ASSUME NEW u \in Task, NEW n \in AnyMutex, LockedOn(u, n)' # {}
                 PROVE  holder'[n] = u
        BY DEF OwnsLockIsTrue
    <2>1. CASE n # m
        BY <1>2, <2>1 DEF Agree, OwnsLockIsTrue
    <2>2. CASE n = m /\ u = t
        BY <1>2, <2>2
    <2>3. CASE n = m /\ u # t
        <3>1. holder[m] = u
            BY <2>3 DEF Agree, OwnsLockIsTrue
        <3>2. QED
            BY <2>3, <3>1, GuardAssumption DEF Available
    <2>4. QED
        BY <2>1, <2>2, <2>3
<1>5. TakenForEachGuard'
    <2> SUFFICES ASSUME NEW u \in Task, NEW n \in AnyMutex, holder'[n] = u
                 PROVE  /\ depth'[n] >= Cardinality(LockedOn(u, n)')
                        /\ n \in Mutex => depth'[n] = 1 /\ Cardinality(LockedOn(u, n)') = 1
        BY DEF TakenForEachGuard
    <2>1. CASE n # m
        BY <1>2, <2>1 DEF Agree, TakenForEachGuard
    <2>2. CASE n = m /\ holder[m] = NoTask
        <3>1. u = t /\ depth[m] = 0
            BY <1>2, <2>2 DEF Agree, FreeWhenUntaken
        <3>2. LockedOn(t, m) = {}
            BY <2>2, GuardAssumption DEF Agree, OwnsLockIsTrue
        <3>3. LockedOn(u, n)' = {i}
            BY <2>2, <3>1, <3>2
        <3>4. Cardinality(LockedOn(u, n)') = 1
            BY <3>3, FS_Singleton
        <3>5. QED
            BY <1>2, <2>2, <3>1, <3>4
    <2>3. CASE n = m /\ holder[m] # NoTask
        <3>1. u = t /\ holder[m] = t /\ m \in RecursiveMutex
            BY <1>2, <2>3 DEF Available
        <3>2. m \notin Mutex
            BY <3>1, GuardAssumption
        <3>3. /\ Cardinality(LockedOn(t, m)) \in Nat
              /\ depth[m] >= Cardinality(LockedOn(t, m))
            BY <3>1, FS_CardinalityType DEF Agree, TakenForEachGuard
        <3>4. Cardinality(LockedOn(t, m) \cup {i}) \in
                 {Cardinality(LockedOn(t, m)), Cardinality(LockedOn(t, m)) + 1}
            BY FS_AddElement
        <3>5. depth[m] + 1 >= Cardinality(LockedOn(t, m) \cup {i})
            BY <1>2, <3>3, <3>4
        <3>6. QED
            BY <1>2, <2>3, <3>1, <3>2, <3>5
    <2>4. QED
        BY <2>1, <2>2, <2>3
<1>6. QED
    BY <1>3, <1>4, <1>5 DEF Agree

(* A give for a guard that says it is locked. *)
LEMMA GiveAgrees ==
    ASSUME TypeOK, Agree,
           NEW t \in Task, NEW m \in AnyMutex, NEW i \in LockedOn(t, m), Give(m),
           \A u \in Task, n \in AnyMutex :
              /\ IsFiniteSet(LockedOn(u, n))
              /\ LockedOn(u, n)' = IF u = t /\ n = m THEN LockedOn(u, n) \ {i}
                                                     ELSE LockedOn(u, n)
    PROVE  Agree' /\ depth' \in [AnyMutex -> Nat]
<1>1. holder[m] = t
    BY DEF Agree, OwnsLockIsTrue
<1>2. \A n \in AnyMutex : depth[n] \in Nat /\ (holder[n] = NoTask <=> depth[n] = 0)
    BY DEF TypeOK, Agree, FreeWhenUntaken
<1>3. depth[m] >= 1
    BY <1>1, <1>2, GuardAssumption
<1>4. /\ holder' = [holder EXCEPT ![m] = IF depth[m] = 1 THEN NoTask ELSE @]
      /\ depth' = [depth EXCEPT ![m] = @ - 1]
      /\ holder \in [AnyMutex -> Task \cup {NoTask}] /\ depth \in [AnyMutex -> Nat]
    BY DEF Give, TypeOK
<1>5. \A n \in AnyMutex :
         /\ holder'[n] = IF n # m THEN holder[n] ELSE IF depth[m] = 1 THEN NoTask ELSE t
         /\ depth'[n] = IF n = m THEN depth[m] - 1 ELSE depth[n]
    BY <1>1, <1>4
<1>6. depth' \in [AnyMutex -> Nat]
    <2>1. depth[m] - 1 \in Nat
        BY <1>2, <1>3
    <2>2. QED
        BY <1>4, <2>1
<1>7. FreeWhenUntaken'
    BY <1>2, <1>3, <1>5, GuardAssumption DEF FreeWhenUntaken
<1>8. /\ Cardinality(LockedOn(t, m)) \in Nat
      /\ depth[m] >= Cardinality(LockedOn(t, m))
      /\ m \in Mutex => depth[m] = 1 /\ Cardinality(LockedOn(t, m)) = 1
      /\ IsFiniteSet(LockedOn(t, m))
    BY <1>1, FS_CardinalityType DEF Agree, TakenForEachGuard
<1>9. /\ Cardinality(LockedOn(t, m) \ {i}) = Cardinality(LockedOn(t, m)) - 1
      /\ IsFiniteSet(LockedOn(t, m) \ {i})
    BY <1>8, FS_RemoveElement
<1>10. depth[m] = 1 => LockedOn(t, m) \ {i} = {}
    <2>1. Cardinality(LockedOn(t, m) \ {i}) \in Nat
        BY <1>9, FS_CardinalityType
    <2>2. depth[m] = 1 => Cardinality(LockedOn(t, m) \ {i}) = 0
        BY <1>2, <1>8, <1>9, <2>1
    <2>3. QED
        BY <1>9, <2>2, FS_EmptySet
<1>11. OwnsLockIsTrue'
    <2> SUFFICES ASSUME NEW u \in Task, NEW n \in AnyMutex, LockedOn(u, n)' # {}
                 PROVE  holder'[n] = u
        BY DEF OwnsLockIsTrue
    <2>1. CASE n # m
        BY <1>5, <2>1 DEF Agree, OwnsLockIsTrue
    <2>2. CASE n = m
        <3>1. u = t
            BY <1>1, <2>2 DEF Agree, OwnsLockIsTrue
        <3>2. depth[m] # 1
            BY <1>10, <2>2, <3>1
        <3>3. QED
            BY <1>5, <2>2, <3>1, <3>2
    <2>3. QED
        BY <2>1, <2>2
<1>12. TakenForEachGuard'
    <2> SUFFICES ASSUME NEW u \in Task, NEW n \in AnyMutex, holder'[n] = u
                 PROVE  /\ depth'[n] >= Cardinality(LockedOn(u, n)')
                        /\ n \in Mutex => depth'[n] = 1 /\ Cardinality(LockedOn(u, n)') = 1
        BY DEF TakenForEachGuard
    <2>1. CASE n # m
        BY <1>5, <2>1 DEF Agree, TakenForEachGuard
    <2>2. CASE n = m
        <3>1. u = t /\ depth[m] # 1
            BY <1>5, <2>2, GuardAssumption
        <3>2. depth[m] - 1 >= Cardinality(LockedOn(t, m) \ {i})
            BY <1>2, <1>8, <1>9
        <3>3. QED
            BY <1>5, <1>8, <2>2, <3>1, <3>2
    <2>3. QED
        BY <2>1, <2>2
<1>13. QED
    BY <1>6, <1>7, <1>11, <1>12 DEF Agree

(* Neither: the sets and the kernel's mutexes are as they were. *)
LEMMA SameAgrees ==
    ASSUME Agree, UNCHANGED <<holder, depth>>,
           \A u \in Task, n \in AnyMutex : LockedOn(u, n)' = LockedOn(u, n)
    PROVE  Agree'
BY DEF Agree, FreeWhenUntaken, OwnsLockIsTrue, TakenForEachGuard

-----------------------------------------------------------------------------
(* The steps.                                                              *)

(* Only one task's stack of guards changes. *)
LEMMA StackReplaced ==
    ASSUME GuardInv, NEW t \in Task, NEW hs, Good(hs, exists),
           guards' = [guards EXCEPT ![t] = hs], UNCHANGED exists
    PROVE  /\ \A u \in Task : guards'[u] = IF u = t THEN hs ELSE guards[u]
           /\ guards' \in [Task -> Seq(Guard)]
           /\ \A u \in Task : Good(guards'[u], exists')
           /\ \A u \in Task, n \in AnyMutex :
                 LockedOn(u, n)' = IF u = t THEN Locked(hs, n) ELSE LockedOn(u, n)
<1>1. guards \in [Task -> Seq(Guard)] /\ \A u \in Task : Good(guards[u], exists)
    BY DEF GuardInv, TypeOK
<1>2. \A u \in Task : guards'[u] = IF u = t THEN hs ELSE guards[u]
    BY <1>1
<1>3. hs \in Seq(Guard)
    BY GoodType
<1>4. guards' \in [Task -> Seq(Guard)]
    BY <1>1, <1>3
<1>5. QED
    BY <1>1, <1>2, <1>4 DEF LockedOn

(* A task has finitely many guards. *)
LEMMA LockedFinite ==
    ASSUME GuardInv
    PROVE  \A u \in Task, n \in AnyMutex : IsFiniteSet(LockedOn(u, n))
BY GoodType DEF GuardInv, LockedOn

(* A task that runs goes on running, and the others stay where they are. *)
LEMMA StillWaiting ==
    ASSUME WaitsUnlocked, NEW t \in Task, Runs(t)',
           \A u \in Task \ {t} : guards'[u] = guards[u] /\ blocked'[u] = blocked[u],
           UNCHANGED exists
    PROVE  WaitsUnlocked'
BY DEF WaitsUnlocked, Runs, LockedOn

(* A task that wakes up. *)
LEMMA WakeUp ==
    ASSUME GuardInv, NEW t \in Task, blocked' = [blocked EXCEPT ![t] = Running],
           \A u \in Task \ {t} : guards'[u] = guards[u],
           UNCHANGED exists
    PROVE  /\ Runs(t)' /\ WaitsUnlocked'
           /\ blocked' \in [Task -> [guard : Nat, wait : {"none", "finite", "forever"}]]
<1>1. blocked \in [Task -> [guard : Nat, wait : {"none", "finite", "forever"}]]
    BY DEF GuardInv, TypeOK
<1>2. Running \in [guard : Nat, wait : {"none", "finite", "forever"}]
    BY DEF Running
<1>3. Runs(t)' /\ \A u \in Task \ {t} : guards'[u] = guards[u] /\ blocked'[u] = blocked[u]
    BY <1>1 DEF Runs
<1>4. WaitsUnlocked'
    BY ONLY <1>3, StillWaiting, GuardInv, t \in Task, UNCHANGED exists DEF GuardInv
<1>5. QED
    BY <1>1, <1>2, <1>3, <1>4

(* The bound on calls is kept by each call. *)
LEMMA CallType ==
    ASSUME TypeOK, NEW t \in Task, Call(t)
    PROVE  calls' \in [Task -> 0 .. MaxCalls] /\ Runs(t)
BY GuardAssumption DEF TypeOK, Call

(* A take that succeeds, at once or in the end, for the i-th guard of gs. *)
LEMMA Taken ==
    ASSUME GuardInv, NEW t \in Task, NEW gs, NEW i \in DOMAIN gs, NEW m \in AnyMutex,
           Good(gs, exists), m = MutexIn(gs, i), m \in exists,
           \A n \in AnyMutex : Locked(gs, n) = LockedOn(t, n),
           Available(t, m), Acquire(t, m),
           guards' = [guards EXCEPT ![t] = Held(gs, i)],
           UNCHANGED exists
    PROVE  /\ Agree'
           /\ guards' \in [Task -> Seq(Guard)]
           /\ \A u \in Task \ {t} : guards'[u] = guards[u]
           /\ \A u \in Task : Good(guards'[u], exists')
           /\ holder' \in [AnyMutex -> Task \cup {NoTask}]
           /\ depth' \in [AnyMutex -> Nat]
<1>1. PICK hs : hs = Held(gs, i)
    OBVIOUS
<1>2. /\ Good(hs, exists)
      /\ \A n : n # MutexIn(gs, i) => Locked(hs, n) = Locked(gs, n)
      /\ Locked(hs, MutexIn(gs, i)) = Locked(gs, MutexIn(gs, i)) \cup {i}
    BY ONLY <1>1, LockedByTaking, Good(gs, exists), i \in DOMAIN gs, MutexIn(gs, i) \in exists
<1>3. guards' = [guards EXCEPT ![t] = hs]
    BY <1>1
<1>4. /\ \A u \in Task : guards'[u] = IF u = t THEN hs ELSE guards[u]
      /\ guards' \in [Task -> Seq(Guard)]
      /\ \A u \in Task : Good(guards'[u], exists')
      /\ \A u \in Task, n \in AnyMutex :
            LockedOn(u, n)' = IF u = t THEN Locked(hs, n) ELSE LockedOn(u, n)
    BY ONLY <1>2, <1>3, StackReplaced, GuardInv, t \in Task, UNCHANGED exists
<1>5. \A u \in Task, n \in AnyMutex :
         /\ IsFiniteSet(LockedOn(u, n))
         /\ LockedOn(u, n)' = IF u = t /\ n = m THEN LockedOn(u, n) \cup {i}
                                                ELSE LockedOn(u, n)
    BY <1>2, <1>4, LockedFinite
<1>6. Agree'
    BY <1>5, AcquireAgrees DEF GuardInv
<1>7. /\ holder' \in [AnyMutex -> Task \cup {NoTask}]
      /\ depth' \in [AnyMutex -> Nat]
    BY DEF Acquire, GuardInv, TypeOK
<1>8. QED
    BY <1>4, <1>6, <1>7

(* A take that fails or blocks leaves the sets of locked guards alone. *)
LEMMA Missed ==
    ASSUME GuardInv, NEW t \in Task, NEW gs, NEW i \in DOMAIN gs, NEW m \in AnyMutex,
           Good(gs, exists), m = MutexIn(gs, i), i \notin Locked(gs, m),
           \A n \in AnyMutex : Locked(gs, n) = LockedOn(t, n),
           \/ guards' = [guards EXCEPT ![t] = Unheld(gs, i)]
           \/ guards' = [guards EXCEPT ![t] = gs],
           UNCHANGED exists, UNCHANGED <<holder, depth>>
    PROVE  /\ Agree'
           /\ guards' \in [Task -> Seq(Guard)]
           /\ \A u \in Task \ {t} : guards'[u] = guards[u]
           /\ \A u \in Task : Good(guards'[u], exists')
           /\ i \in DOMAIN guards'[t]
           /\ guards'[t][i].mutex = m
           /\ \A u \in Task, n \in AnyMutex : LockedOn(u, n)' = LockedOn(u, n)
<1>1. PICK hs : /\ guards' = [guards EXCEPT ![t] = hs]
                /\ hs = gs \/ hs = Unheld(gs, i)
    OBVIOUS
<1>2. /\ Good(hs, exists)
      /\ i \in DOMAIN hs
      /\ hs[i].mutex = m
      /\ \A n \in AnyMutex : Locked(hs, n) = Locked(gs, n)
    <2>1. CASE hs = gs
        BY <2>1 DEF MutexIn
    <2>2. CASE hs = Unheld(gs, i)
        <3>1. /\ Good(hs, exists)
              /\ DOMAIN hs = DOMAIN gs
              /\ MutexIn(hs, i) = MutexIn(gs, i)
              /\ \A n : n # MutexIn(gs, i) => Locked(hs, n) = Locked(gs, n)
              /\ Locked(hs, MutexIn(gs, i)) = Locked(gs, MutexIn(gs, i)) \ {i}
            BY ONLY <2>2, LockedByGiving, Good(gs, exists), i \in DOMAIN gs
        <3>2. Locked(gs, m) \ {i} = Locked(gs, m)
            OBVIOUS
        <3>3. QED
            BY <3>1, <3>2 DEF MutexIn
    <2>3. QED
        BY <1>1, <2>1, <2>2
<1>3. guards' = [guards EXCEPT ![t] = hs]
    BY <1>1
<1>4. /\ \A u \in Task : guards'[u] = IF u = t THEN hs ELSE guards[u]
      /\ guards' \in [Task -> Seq(Guard)]
      /\ \A u \in Task : Good(guards'[u], exists')
      /\ \A u \in Task, n \in AnyMutex :
            LockedOn(u, n)' = IF u = t THEN Locked(hs, n) ELSE LockedOn(u, n)
    BY ONLY <1>2, <1>3, StackReplaced, GuardInv, t \in Task, UNCHANGED exists
<1>5. \A u \in Task, n \in AnyMutex : LockedOn(u, n)' = LockedOn(u, n)
    BY <1>2, <1>4
<1>6. Agree'
    BY <1>5, SameAgrees DEF GuardInv
<1>7. QED
    BY <1>2, <1>4, <1>5, <1>6

(* is_locked = (take(...) == pdTRUE), for a guard that a take of its own   *)
(* mutex would not make wait for itself.                                   *)
LEMMA TakeKeeps ==
    ASSUME GuardInv, NEW t \in Task, NEW gs, NEW i \in DOMAIN gs, NEW m \in AnyMutex,
           NEW wait \in Wait,
           Good(gs, exists), m = MutexIn(gs, i), m \in exists,
           \A n \in AnyMutex : Locked(gs, n) = LockedOn(t, n),
           i \in Locked(gs, m) => Available(t, m),
           Runs(t), Take(t, gs, i, wait), UNCHANGED exists,
           calls' \in [Task -> 0 .. MaxCalls]
    PROVE  GuardInv'
<1>1. CASE /\ Available(t, m) /\ Acquire(t, m)
           /\ guards' = [guards EXCEPT ![t] = Held(gs, i)]
           /\ UNCHANGED blocked
    <2>1. /\ Agree'
          /\ guards' \in [Task -> Seq(Guard)]
          /\ \A u \in Task \ {t} : guards'[u] = guards[u]
          /\ \A u \in Task : Good(guards'[u], exists')
          /\ holder' \in [AnyMutex -> Task \cup {NoTask}]
          /\ depth' \in [AnyMutex -> Nat]
        BY <1>1, Taken
    <2>2. WaitsUnlocked'
        <3>1. Runs(t)' /\ \A u \in Task \ {t} : guards'[u] = guards[u] /\ blocked'[u] = blocked[u]
            BY <1>1, <2>1 DEF Runs
        <3>2. QED
            BY ONLY <3>1, StillWaiting, GuardInv, t \in Task, UNCHANGED exists DEF GuardInv
    <2>3. TypeOK'
        BY <1>1, <2>1 DEF GuardInv, TypeOK
    <2>4. QED
        BY <2>1, <2>2, <2>3 DEF GuardInv
<1>2. ASSUME ~Available(t, m),
             \/ guards' = [guards EXCEPT ![t] = Unheld(gs, i)]
             \/ guards' = [guards EXCEPT ![t] = gs],
             UNCHANGED <<holder, depth>>,
             \/ UNCHANGED blocked
             \/ blocked' = [blocked EXCEPT ![t] = [guard |-> i, wait |-> wait]]
      PROVE  GuardInv'
    <2>1. i \notin Locked(gs, m)
        BY <1>2
    <2>2. /\ Agree'
          /\ guards' \in [Task -> Seq(Guard)]
          /\ \A u \in Task \ {t} : guards'[u] = guards[u]
          /\ \A u \in Task : Good(guards'[u], exists')
          /\ i \in DOMAIN guards'[t]
          /\ guards'[t][i].mutex = m
          /\ \A u \in Task, n \in AnyMutex : LockedOn(u, n)' = LockedOn(u, n)
        BY <1>2, <2>1, Missed
    <2>3. TypeOK'
        <3>1. blocked' \in [Task -> [guard : Nat, wait : {"none", "finite", "forever"}]]
            <4>1. i \in Nat /\ wait \in {"none", "finite", "forever"}
                BY GoodType, GuardAssumption
            <4>2. PICK r : r = [guard |-> i, wait |-> wait]
                OBVIOUS
            <4>3. r \in [guard : Nat, wait : {"none", "finite", "forever"}]
                BY <4>1, <4>2
            <4>4. UNCHANGED blocked \/ blocked' = [blocked EXCEPT ![t] = r]
                BY <1>2, <4>2
            <4>5. blocked \in [Task -> [guard : Nat, wait : {"none", "finite", "forever"}]]
                BY DEF GuardInv, TypeOK
            <4>6. QED
                BY ONLY <4>3, <4>4, <4>5
        <3>2. QED
            BY <1>2, <2>2, <3>1 DEF GuardInv, TypeOK
    <2>4. WaitsUnlocked'
        <3>1. CASE UNCHANGED blocked
            <4>1. Runs(t)' /\ \A u \in Task \ {t} : guards'[u] = guards[u] /\ blocked'[u] = blocked[u]
                BY <2>2, <3>1 DEF Runs
            <4>2. QED
                BY ONLY <4>1, StillWaiting, GuardInv, t \in Task, UNCHANGED exists DEF GuardInv
        <3>2. CASE blocked' = [blocked EXCEPT ![t] = [guard |-> i, wait |-> wait]]
            <4>1. blocked'[t].guard = i /\ \A u \in Task \ {t} : blocked'[u] = blocked[u]
                BY <3>2 DEF GuardInv, TypeOK
            <4>2. i \notin LockedOn(t, m)'
                BY <2>1, <2>2
            <4>3. QED
                BY <2>2, <4>1, <4>2 DEF GuardInv, WaitsUnlocked, Runs, LockedOn
        <3>3. QED
            BY <1>2, <3>1, <3>2
    <2>5. QED
        BY <2>2, <2>3, <2>4 DEF GuardInv
<1>3. QED
    BY <1>1, <1>2 DEF Take, MutexIn, Held, Unheld

(* A stack that changes, with the same guards locked. *)
LEMMA SameLockedKeeps ==
    ASSUME GuardInv, NEW t \in Task, NEW gs, Good(gs, exists),
           \A n \in AnyMutex : Locked(gs, n) = LockedOn(t, n),
           Runs(t), guards' = [guards EXCEPT ![t] = gs],
           UNCHANGED <<exists, holder, depth, blocked>>,
           calls' \in [Task -> 0 .. MaxCalls]
    PROVE  GuardInv'
<1>1. UNCHANGED exists
    OBVIOUS
<1>2. /\ \A u \in Task : guards'[u] = IF u = t THEN gs ELSE guards[u]
      /\ guards' \in [Task -> Seq(Guard)]
      /\ \A u \in Task : Good(guards'[u], exists')
      /\ \A u \in Task, n \in AnyMutex :
            LockedOn(u, n)' = IF u = t THEN Locked(gs, n) ELSE LockedOn(u, n)
    BY ONLY <1>1, StackReplaced, GuardInv, t \in Task, Good(gs, exists),
            guards' = [guards EXCEPT ![t] = gs]
<1>3. Agree'
    <2>1. \A u \in Task, n \in AnyMutex : LockedOn(u, n)' = LockedOn(u, n)
        BY <1>2
    <2>2. QED
        BY <2>1, SameAgrees DEF GuardInv
<1>4. WaitsUnlocked'
    <2>1. Runs(t)' /\ \A u \in Task \ {t} : guards'[u] = guards[u] /\ blocked'[u] = blocked[u]
        BY <1>2 DEF Runs
    <2>2. QED
        BY ONLY <1>1, <2>1, StillWaiting, GuardInv, t \in Task DEF GuardInv
<1>5. TypeOK'
    BY <1>2 DEF GuardInv, TypeOK
<1>6. QED
    BY <1>2, <1>3, <1>4, <1>5 DEF GuardInv

(* A constructor that takes. *)
LEMMA ConstructKeeps ==
    ASSUME GuardInv, NEW t \in Task, NEW kind \in Kind, NEW m \in MutexOf(kind),
           NEW wait \in Wait, Construct(t, kind, m, wait)
    PROVE  GuardInv'
<1>1. PICK old, gs : old = guards[t] /\ gs = Pushed(old, kind, m)
    OBVIOUS
<1>2. Good(old, exists)
    BY <1>1 DEF GuardInv
<1>3. m \in AnyMutex
    BY MutexKinds
<1>4. /\ Good(gs, exists)
      /\ Len(gs) \in DOMAIN gs
      /\ MutexIn(gs, Len(gs)) = m /\ Len(gs) \notin Locked(gs, m)
      /\ \A n : Locked(gs, n) = Locked(old, n)
    BY ONLY <1>1, <1>2, LockedByPushing, kind \in Kind, m \in MutexOf(kind)
<1>5. /\ Call(t)
      /\ \/ m \in exists /\ Take(t, gs, Len(gs), wait)
         \/ /\ m \notin exists
            /\ guards' = [guards EXCEPT ![t] = gs]
            /\ UNCHANGED <<holder, depth, blocked>>
      /\ UNCHANGED exists
    BY <1>1 DEF Construct, Pushed
<1>6. calls' \in [Task -> 0 .. MaxCalls] /\ Runs(t)
    BY <1>5, CallType DEF GuardInv
<1>7. \A n \in AnyMutex : Locked(gs, n) = LockedOn(t, n)
    BY <1>1, <1>4 DEF LockedOn
<1>8. CASE m \in exists /\ Take(t, gs, Len(gs), wait)
    <2>1. PICK i : i = Len(gs)
        OBVIOUS
    <2>2. /\ i \in DOMAIN gs /\ m = MutexIn(gs, i) /\ i \notin Locked(gs, m)
          /\ Take(t, gs, i, wait)
        BY <1>4, <1>8, <2>1
    <2>3. QED
        BY <1>3, <1>4, <1>5, <1>6, <1>7, <1>8, <2>2, TakeKeeps
<1>9. CASE /\ m \notin exists
           /\ guards' = [guards EXCEPT ![t] = gs]
           /\ UNCHANGED <<holder, depth, blocked>>
    BY <1>4, <1>5, <1>6, <1>7, <1>9, SameLockedKeeps
<1>10. QED
    BY <1>5, <1>8, <1>9

(* A constructor with defer_lock. *)
LEMMA DeferKeeps ==
    ASSUME GuardInv, NEW t \in Task, NEW kind \in Kind, NEW m \in MutexOf(kind),
           Defer(t, kind, m)
    PROVE  GuardInv'
<1>1. PICK old, gs : old = guards[t] /\ gs = Pushed(old, kind, m)
    OBVIOUS
<1>2. Good(old, exists)
    BY <1>1 DEF GuardInv
<1>3. Good(gs, exists) /\ \A n : Locked(gs, n) = Locked(old, n)
    BY ONLY <1>1, <1>2, LockedByPushing, kind \in Kind, m \in MutexOf(kind)
<1>4. /\ Call(t)
      /\ guards' = [guards EXCEPT ![t] = gs]
      /\ UNCHANGED <<exists, holder, depth, blocked>>
    BY <1>1 DEF Defer, Pushed
<1>5. calls' \in [Task -> 0 .. MaxCalls] /\ Runs(t)
    BY <1>4, CallType DEF GuardInv
<1>6. \A n \in AnyMutex : Locked(gs, n) = LockedOn(t, n)
    BY <1>1, <1>3 DEF LockedOn
<1>7. QED
    BY <1>3, <1>4, <1>5, <1>6, SameLockedKeeps

(* lock(): a UniqueLock that is locked does not take, and the task of a    *)
(* RecursiveUniqueLock that is locked has the mutex.                       *)
LEMMA LockKeeps ==
    ASSUME GuardInv, NEW t \in Task, NEW i \in DOMAIN guards[t], NEW wait \in Wait,
           lock(t, i, wait)
    PROVE  GuardInv'
<1>1. PICK gs, m : gs = guards[t] /\ m = MutexIn(gs, i)
    OBVIOUS
<1>2. Good(gs, exists) /\ i \in DOMAIN gs
    BY <1>1 DEF GuardInv
<1>3. Call(t) /\ UNCHANGED exists
    BY DEF lock
<1>4. calls' \in [Task -> 0 .. MaxCalls] /\ Runs(t)
    BY <1>3, CallType DEF GuardInv
<1>5. m \in AnyMutex
    BY <1>1, <1>2, GoodType DEF MutexIn
<1>6. CASE TakesOnLock(gs[i]) /\ Take(t, gs, i, wait)
    <2>1. m \in exists
        BY <1>1, <1>6 DEF TakesOnLock, MutexIn
    <2>2. i \in Locked(gs, m) => Available(t, m)
        <3> SUFFICES ASSUME i \in Locked(gs, m)
                     PROVE  m \in RecursiveMutex /\ holder[m] = t
            BY DEF Available
        <3>1. holder[m] = t
            BY <1>1, <1>5 DEF GuardInv, Agree, OwnsLockIsTrue, LockedOn
        <3>2. gs[i].kind # "UniqueLock"
            BY <1>6 DEF TakesOnLock, Locked
        <3>3. gs[i].kind \in Kind /\ gs[i].kind \in UniqueKind
            BY <1>1, <1>2, GoodType DEF lock
        <3>4. m \in MutexOf(gs[i].kind)
            BY <1>1, <1>2 DEF Good, GoodGuard, MutexIn
        <3>5. QED
            BY <3>1, <3>2, <3>3, <3>4, MutexKinds
    <2>3. \A n \in AnyMutex : Locked(gs, n) = LockedOn(t, n)
        BY <1>1 DEF LockedOn
    <2>4. QED
        BY ONLY <1>1, <1>2, <1>3, <1>4, <1>5, <1>6, <2>1, <2>2, <2>3, TakeKeeps,
                GuardInv, t \in Task, wait \in Wait
<1>7. CASE UNCHANGED <<holder, depth, guards, blocked>>
    <2>1. TypeOK' /\ \A u \in Task : Good(guards'[u], exists')
        BY <1>3, <1>4, <1>7 DEF GuardInv, TypeOK
    <2>2. \A u \in Task, n \in AnyMutex : LockedOn(u, n)' = LockedOn(u, n)
        BY <1>7 DEF LockedOn
    <2>3. Agree'
        BY <1>7, <2>2, SameAgrees DEF GuardInv
    <2>4. Runs(t)' /\ \A u \in Task \ {t} : guards'[u] = guards[u] /\ blocked'[u] = blocked[u]
        BY <1>4, <1>7 DEF Runs
    <2>5. WaitsUnlocked'
        BY ONLY <1>3, <2>4, StillWaiting, GuardInv, t \in Task DEF GuardInv
    <2>6. QED
        BY <2>1, <2>3, <2>5 DEF GuardInv
<1>8. QED
    BY <1>1, <1>6, <1>7 DEF lock

(* A release, by unlock() or by a destructor. *)
LEMMA ReleaseKeeps ==
    ASSUME GuardInv, NEW t \in Task, NEW hs, Good(hs, exists),
           NEW m \in AnyMutex, NEW i \in LockedOn(t, m), Give(m),
           \A n \in AnyMutex : Locked(hs, n) = IF n = m THEN LockedOn(t, n) \ {i}
                                                        ELSE LockedOn(t, n),
           Runs(t), guards' = [guards EXCEPT ![t] = hs],
           UNCHANGED <<exists, blocked, calls>>
    PROVE  GuardInv'
<1>1. UNCHANGED exists
    OBVIOUS
<1>2. /\ \A u \in Task : guards'[u] = IF u = t THEN hs ELSE guards[u]
      /\ guards' \in [Task -> Seq(Guard)]
      /\ \A u \in Task : Good(guards'[u], exists')
      /\ \A u \in Task, n \in AnyMutex :
            LockedOn(u, n)' = IF u = t THEN Locked(hs, n) ELSE LockedOn(u, n)
    BY ONLY <1>1, StackReplaced, GuardInv, t \in Task, Good(hs, exists),
            guards' = [guards EXCEPT ![t] = hs]
<1>3. Agree' /\ depth' \in [AnyMutex -> Nat]
    <2>1. \A u \in Task, n \in AnyMutex :
             /\ IsFiniteSet(LockedOn(u, n))
             /\ LockedOn(u, n)' = IF u = t /\ n = m THEN LockedOn(u, n) \ {i}
                                                    ELSE LockedOn(u, n)
        BY <1>2, LockedFinite
    <2>2. QED
        BY <2>1, GiveAgrees DEF GuardInv
<1>4. WaitsUnlocked'
    <2>1. Runs(t)' /\ \A u \in Task \ {t} : guards'[u] = guards[u] /\ blocked'[u] = blocked[u]
        BY <1>2 DEF Runs
    <2>2. QED
        BY ONLY <1>1, <2>1, StillWaiting, GuardInv, t \in Task DEF GuardInv
<1>5. holder' \in [AnyMutex -> Task \cup {NoTask}]
    <2>1. holder \in [AnyMutex -> Task \cup {NoTask}]
        BY DEF GuardInv, TypeOK
    <2>2. holder' = [holder EXCEPT ![m] = NoTask] \/ holder' = [holder EXCEPT ![m] = holder[m]]
        BY DEF Give
    <2>3. QED
        BY <2>1, <2>2
<1>6. TypeOK'
    BY <1>2, <1>3, <1>5 DEF GuardInv, TypeOK
<1>7. QED
    BY <1>2, <1>3, <1>4, <1>6 DEF GuardInv

(* unlock() of a guard that is locked. *)
LEMMA UnlockKeeps ==
    ASSUME GuardInv, NEW t \in Task, NEW i \in DOMAIN guards[t], unlock(t, i)
    PROVE  GuardInv'
<1>1. PICK gs, hs, m : gs = guards[t] /\ hs = Unheld(gs, i) /\ m = MutexIn(gs, i)
    OBVIOUS
<1>2. Good(gs, exists) /\ i \in DOMAIN gs
    BY <1>1 DEF GuardInv
<1>3. m \in AnyMutex
    BY <1>1, <1>2, GoodType DEF MutexIn
<1>4. /\ Good(hs, exists)
      /\ \A n : n # MutexIn(gs, i) => Locked(hs, n) = Locked(gs, n)
      /\ Locked(hs, MutexIn(gs, i)) = Locked(gs, MutexIn(gs, i)) \ {i}
    BY ONLY <1>1, <1>2, LockedByGiving
<1>5. /\ Runs(t) /\ gs[i].is_locked /\ Give(m)
      /\ guards' = [guards EXCEPT ![t] = hs]
      /\ UNCHANGED <<exists, blocked, calls>>
    BY <1>1 DEF unlock, MutexIn, Unheld
<1>6. i \in LockedOn(t, m)
    BY <1>1, <1>2, <1>5 DEF LockedOn, Locked, MutexIn
<1>7. \A n \in AnyMutex : Locked(hs, n) = IF n = m THEN LockedOn(t, n) \ {i} ELSE LockedOn(t, n)
    BY <1>1, <1>4 DEF LockedOn
<1>8. QED
    BY <1>3, <1>4, <1>5, <1>6, <1>7, ReleaseKeeps

(* The destructor gives the mutex if and only if its guard is locked. *)
LEMMA DestroyKeeps ==
    ASSUME GuardInv, NEW t \in Task, Destroy(t)
    PROVE  GuardInv'
<1>1. PICK gs, hs, i : gs = guards[t] /\ hs = Popped(gs) /\ i = Len(gs)
    OBVIOUS
<1>2. Good(gs, exists) /\ gs # <<>>
    BY <1>1 DEF GuardInv, Destroy
<1>3. /\ i \in DOMAIN gs
      /\ Good(hs, exists)
      /\ \A n : Locked(hs, n) = Locked(gs, n) \ {i}
    BY ONLY <1>1, <1>2, LockedByPopping
<1>4. /\ Runs(t) /\ guards' = [guards EXCEPT ![t] = hs]
      /\ UNCHANGED <<exists, blocked, calls>>
      /\ \/ GivesOnDestroy(gs[i]) /\ Give(MutexIn(gs, i))
         \/ ~GivesOnDestroy(gs[i]) /\ UNCHANGED <<holder, depth>>
    BY <1>1 DEF Destroy, MutexIn, Popped
<1>5. PICK m : m = MutexIn(gs, i)
    OBVIOUS
<1>6. m \in AnyMutex /\ \A n : n # m => i \notin Locked(gs, n)
    BY <1>2, <1>3, <1>5, GoodType DEF MutexIn, Locked
<1>7. CASE GivesOnDestroy(gs[i]) /\ Give(m)
    <2>1. i \in LockedOn(t, m)
        BY <1>1, <1>3, <1>5, <1>7 DEF GivesOnDestroy, LockedOn, Locked, MutexIn
    <2>2. \A n : n # m => Locked(gs, n) \ {i} = Locked(gs, n)
        BY <1>6
    <2>3. \A n \in AnyMutex : Locked(hs, n) = IF n = m THEN LockedOn(t, n) \ {i} ELSE LockedOn(t, n)
        BY <1>1, <1>3, <2>2 DEF LockedOn
    <2>4. QED
        BY <1>3, <1>4, <1>6, <1>7, <2>1, <2>3, ReleaseKeeps
<1>8. CASE ~GivesOnDestroy(gs[i]) /\ UNCHANGED <<holder, depth>>
    <2>1. ~gs[i].is_locked
        <3>1. GoodGuard(gs[i], exists)
            BY ONLY <1>2, <1>3 DEF Good
        <3>2. QED
            BY ONLY <1>8, <3>1 DEF GivesOnDestroy, GoodGuard
    <2>2. \A n \in AnyMutex : Locked(hs, n) = LockedOn(t, n)
        BY <1>1, <1>3, <2>1 DEF LockedOn, Locked
    <2>3. calls' \in [Task -> 0 .. MaxCalls]
        BY <1>4 DEF GuardInv, TypeOK
    <2>4. QED
        BY <1>3, <1>4, <1>8, <2>2, <2>3, SameLockedKeeps
<1>9. QED
    BY <1>4, <1>5, <1>7, <1>8

(* The kernel grants the mutex to a task that waits. *)
LEMMA GrantKeeps ==
    ASSUME GuardInv, NEW t \in Task, Grant(t)
    PROVE  GuardInv'
<1>1. PICK gs, i, m : gs = guards[t] /\ i = blocked[t].guard /\ m = MutexIn(gs, i)
    OBVIOUS
<1>2. /\ Available(t, m) /\ Acquire(t, m)
      /\ guards' = [guards EXCEPT ![t] = Held(gs, i)]
      /\ blocked' = [blocked EXCEPT ![t] = Running]
      /\ UNCHANGED exists /\ UNCHANGED calls
    BY <1>1 DEF Grant, MutexIn, Held
<1>3. i \in DOMAIN gs /\ m \in exists
    BY <1>1 DEF Grant, GuardInv, WaitsUnlocked, MutexIn
<1>4. Good(gs, exists) /\ m \in AnyMutex
    BY <1>1, <1>3 DEF GuardInv, TypeOK
<1>5. \A n \in AnyMutex : Locked(gs, n) = LockedOn(t, n)
    BY <1>1 DEF LockedOn
<1>6. /\ Agree'
      /\ guards' \in [Task -> Seq(Guard)]
      /\ \A u \in Task \ {t} : guards'[u] = guards[u]
      /\ \A u \in Task : Good(guards'[u], exists')
      /\ holder' \in [AnyMutex -> Task \cup {NoTask}]
      /\ depth' \in [AnyMutex -> Nat]
    BY ONLY <1>1, <1>2, <1>3, <1>4, <1>5, Taken, GuardInv, t \in Task
<1>7. Runs(t)' /\ WaitsUnlocked' /\ blocked' \in [Task -> [guard : Nat, wait : {"none", "finite", "forever"}]]
    BY ONLY <1>2, <1>6, WakeUp, GuardInv, t \in Task
<1>8. TypeOK'
    BY <1>2, <1>6, <1>7 DEF GuardInv, TypeOK
<1>9. QED
    BY <1>6, <1>7, <1>8 DEF GuardInv

(* The timeout ends and is_locked = false. *)
LEMMA TimeoutKeeps ==
    ASSUME GuardInv, NEW t \in Task, Timeout(t)
    PROVE  GuardInv'
<1>1. PICK gs, i, m : gs = guards[t] /\ i = blocked[t].guard /\ m = MutexIn(gs, i)
    OBVIOUS
<1>2. /\ guards' = [guards EXCEPT ![t] = Unheld(gs, i)]
      /\ blocked' = [blocked EXCEPT ![t] = Running]
      /\ UNCHANGED exists /\ UNCHANGED <<holder, depth>> /\ UNCHANGED calls
    BY <1>1 DEF Timeout, Unheld
<1>3. ~Runs(t)
    BY DEF Timeout, Runs, Running
<1>4. i \in DOMAIN gs /\ m \in exists /\ i \notin Locked(gs, m)
    BY <1>1, <1>3 DEF GuardInv, WaitsUnlocked, MutexIn, LockedOn
<1>5. Good(gs, exists) /\ m \in AnyMutex
    BY <1>1, <1>4 DEF GuardInv, TypeOK
<1>6. \A n \in AnyMutex : Locked(gs, n) = LockedOn(t, n)
    BY <1>1 DEF LockedOn
<1>7. /\ Agree'
      /\ guards' \in [Task -> Seq(Guard)]
      /\ \A u \in Task \ {t} : guards'[u] = guards[u]
      /\ \A u \in Task : Good(guards'[u], exists')
    BY ONLY <1>1, <1>2, <1>4, <1>5, <1>6, Missed, GuardInv, t \in Task
<1>8. Runs(t)' /\ WaitsUnlocked' /\ blocked' \in [Task -> [guard : Nat, wait : {"none", "finite", "forever"}]]
    BY ONLY <1>2, <1>7, WakeUp, GuardInv, t \in Task
<1>9. TypeOK'
    BY <1>2, <1>7, <1>8 DEF GuardInv, TypeOK
<1>10. QED
    BY <1>7, <1>8, <1>9 DEF GuardInv

-----------------------------------------------------------------------------
(* A program starts without guards, and with every mutex free. *)
THEOREM GuardInvInit == Init => GuardInv
<1> SUFFICES ASSUME Init
             PROVE  GuardInv
    OBVIOUS
<1>1. /\ exists \subseteq AnyMutex
      /\ \A m \in AnyMutex : holder[m] = NoTask /\ depth[m] = 0
      /\ \A t \in Task : guards[t] = <<>> /\ blocked[t] = Running
    BY DEF Init
<1>2. TypeOK
    <2>1. <<>> \in Seq(Guard) /\ 0 \in Nat /\ 0 \in 0 .. MaxCalls
        BY GuardAssumption
    <2>2. Running \in [guard : Nat, wait : {"none", "finite", "forever"}]
        BY DEF Running
    <2>3. QED
        BY <1>1, <2>1, <2>2 DEF Init, TypeOK
<1>3. DOMAIN <<>> = {} /\ <<>> \in Seq(Guard)
    OBVIOUS
<1>4. \A t \in Task : Good(guards[t], exists)
    BY <1>1, <1>3 DEF Good
<1>5. WaitsUnlocked
    BY <1>1 DEF WaitsUnlocked, Runs
<1>6. \A t \in Task, m \in AnyMutex : LockedOn(t, m) = {}
    BY <1>1, <1>3 DEF LockedOn, Locked
<1>7. Agree
    BY <1>1, <1>6, GuardAssumption DEF Agree, FreeWhenUntaken, OwnsLockIsTrue, TakenForEachGuard
<1>8. QED
    BY <1>2, <1>4, <1>5, <1>7 DEF GuardInv

(* No constructor, call, destructor, grant or timeout breaks the agreement *)
(* of the guards with the kernel.                                          *)
THEOREM GuardInvNext == GuardInv /\ [Next]_vars => GuardInv'
<1> SUFFICES ASSUME GuardInv, [Next]_vars
             PROVE  GuardInv'
    OBVIOUS
<1>1. CASE UNCHANGED vars
    BY <1>1 DEF vars, GuardInv, TypeOK, WaitsUnlocked, Runs, Agree, FreeWhenUntaken,
                OwnsLockIsTrue, TakenForEachGuard, LockedOn
<1>2. ASSUME NEW t \in Task, TaskStep(t)
      PROVE  GuardInv'
    <2>1. ASSUME NEW kind \in Kind, NEW m \in MutexOf(kind), NEW wait \in Wait,
                 Construct(t, kind, m, wait)
          PROVE  GuardInv'
        BY <2>1, ConstructKeeps
    <2>2. ASSUME NEW kind \in Kind, NEW m \in MutexOf(kind), Defer(t, kind, m)
          PROVE  GuardInv'
        BY <2>2, DeferKeeps
    <2>3. ASSUME NEW i \in DOMAIN guards[t], unlock(t, i)
          PROVE  GuardInv'
        BY <2>3, UnlockKeeps
    <2>4. ASSUME NEW i \in DOMAIN guards[t], NEW wait \in Wait, lock(t, i, wait)
          PROVE  GuardInv'
        BY <2>4, LockKeeps
    <2>5. CASE Destroy(t)
        BY <2>5, DestroyKeeps
    <2>6. CASE Grant(t)
        BY <2>6, GrantKeeps
    <2>7. CASE Timeout(t)
        BY <2>7, TimeoutKeeps
    <2>8. QED
        BY <1>2, <2>1, <2>2, <2>3, <2>4, <2>5, <2>6, <2>7 DEF TaskStep
<1>3. QED
    BY <1>1, <1>2 DEF Next

(* The agreement holds in every reachable state.                           *)
THEOREM GuardInvAlways == Spec => []GuardInv
BY GuardInvInit, GuardInvNext, PTL DEF Spec

(* Every reachable state has the types of TypeOK. *)
THEOREM TypeCorrect == Spec => []TypeOK
<1>1. GuardInv => TypeOK
    BY DEF GuardInv
<1>2. QED
    BY <1>1, GuardInvAlways, PTL

(* owns_lock() never lies: the task of a guard that says it is locked has  *)
(* the mutex, for any number of tasks, guards and nested takes.            *)
THEOREM OwnsLockTrue == Spec => []OwnsLockIsTrue
<1>1. GuardInv => OwnsLockIsTrue
    BY DEF GuardInv, Agree
<1>2. QED
    BY <1>1, GuardInvAlways, PTL

(* A mutex that a task has is taken at least once for every guard of that  *)
(* task that says so, and a plain mutex exactly once for exactly one.      *)
THEOREM TakenOncePerGuard == Spec => []TakenForEachGuard
<1>1. GuardInv => TakenForEachGuard
    BY DEF GuardInv, Agree
<1>2. QED
    BY <1>1, GuardInvAlways, PTL
=============================================================================
