---------------------------- MODULE PortsProofs ----------------------------
(***************************************************************************)
(* The ports keep to the guards, and so what is proved of the guards holds *)
(* of the ports; and no transaction outlives the guard it was opened       *)
(* under.                                                                  *)
(*                                                                         *)
(* The argument: a transaction that is open belongs to a guard that is     *)
(* locked and whose method has a step left that ends it (or to a Locked,   *)
(* whose end ends it).  So the guard cannot be destroyed with its          *)
(* transaction open, and owns_lock(), which is true, gives the holder.     *)
(*                                                                         *)
(* A read_register that returns true has read its own bytes, because what  *)
(* is left of the method and what is in the receive buffer are the same    *)
(* number from its requestFrom on: only the method that has the mutex of   *)
(* SafeWire can change either.                                             *)
(***************************************************************************)
EXTENDS Ports, LockGuardsProofs

Stage == {"begin", "put", "end", "address", "request", "read"}

(* The steps that need the port from there on, and those that let it go.   *)
Claims == {"begin", "put", "address"}
Frees == {"end", "request"}

Ends(todo) == \E k \in DOMAIN todo : todo[k] \in Frees

Sound(todo) ==
    \A k \in DOMAIN todo : todo[k] \in Claims =>
        \E j \in DOMAIN todo : j > k /\ todo[j] \in Frees

Pending(f) == f.op = "Locked" \/ Ends(f.todo)

(* The i-th of the guards gs, with the frames fs, answers for what is open *)
(* on m.                                                                   *)
Answers(gs, fs, i, m) ==
    /\ i \in DOMAIN gs
    /\ gs[i].mutex = m
    /\ gs[i].is_locked
    /\ Pending(fs[i])

FramesMatch ==
    /\ frames \in [Task -> Seq(Frame)]
    /\ \A t \in Task : Len(frames[t]) = Len(guards[t])
    /\ \A t \in Task : \A i \in DOMAIN frames[t] : Sound(frames[t][i].todo)

BusAnswered ==
    /\ bus \in [AnyMutex -> Task \cup {NoTask, Unstopped}]
    /\ \A m \in AnyMutex : bus[m] \in Task => \E i : Answers(guards[bus[m]], frames[bus[m]], i, m)

PortInv == GuardInv /\ FramesMatch /\ BusAnswered

-----------------------------------------------------------------------------
(* The ports are a program that uses guards.                               *)

(* Every step of a port is a step of the guards, or none.                  *)
LEMMA GuardStep ==
    ASSUME [PortNext]_portVars
    PROVE  [Next]_vars
<1>1. CASE UNCHANGED portVars
    BY <1>1 DEF portVars
<1>2. ASSUME NEW t \in Task, PortStep(t)
      PROVE  [Next]_vars
    <2>1. ASSUME NEW op \in Method, NEW wait \in Wait, Open(t, op, wait)
          PROVE  TaskStep(t)
        <3>1. PortOf(op) \in MutexOf("UniqueLock") /\ Construct(t, "UniqueLock", PortOf(op), wait)
            BY <2>1 DEF Open, MutexOf, PlainKind
        <3>2. "UniqueLock" \in Kind
            BY PortAssumption
        <3>3. QED
            BY <3>1, <3>2 DEF TaskStep
    <2>2. CASE Talk(t) \/ Finish(t) \/ Address(t) \/ Request(t) \/ Read(t) \/ LockedPrint(t)
        BY <2>2 DEF Talk, Finish, Address, Request, Read, LockedPrint, vars
    <2>3. CASE Close(t)
        BY <2>3 DEF Close, TaskStep, Next
    <2>4. CASE Wake(t)
        BY <2>4 DEF Wake, TaskStep, Next
    <2>5. QED
        BY <1>2, <2>1, <2>2, <2>3, <2>4 DEF PortStep, Next
<1>3. QED
    BY <1>1, <1>2 DEF PortNext

(* A program that prints, reads registers and transfers bytes, with calls  *)
(* in the scope of a Locked, is a program of LockGuards: all that holds of *)
(* the guards holds of the ports.                                          *)
THEOREM PortsImplementGuards == PortSpec => Spec
<1>1. PortInit => Init
    BY DEF PortInit
<1>2. [PortNext]_portVars => [Next]_vars
    BY GuardStep
<1>3. QED
    BY <1>1, <1>2, PTL DEF PortSpec, Spec

-----------------------------------------------------------------------------
(* Methods.                                                                *)

(* Every method that takes a port lets it go again. *)
LEMMA BodySound ==
    ASSUME NEW op \in Method
    PROVE  Body(op) \in Seq(Stage) /\ Sound(Body(op))
<1>1. CASE op = "Locked"
    BY <1>1 DEF Body, Sound
<1>2. CASE op = "print"
    BY <1>2 DEF Body, Sound, Stage, Claims, Frees
<1>3. CASE op \in {"write_register", "transfer"}
    <2>1. PICK s : s = <<"begin", "put", "end">>
        OBVIOUS
    <2>2. /\ s \in Seq(Stage) /\ DOMAIN s = 1 .. 3
          /\ s[1] = "begin" /\ s[2] = "put" /\ s[3] = "end"
        BY <2>1 DEF Stage
    <2>3. Sound(s)
        BY <2>2 DEF Sound, Claims, Frees
    <2>4. QED
        BY <1>3, <2>1, <2>2, <2>3 DEF Body
<1>4. CASE op = "read_register"
    <2>1. PICK a, r : /\ a = <<"begin", "put", "address", "request">>
                      /\ r = [i \in 1 .. Quantity |-> "read"]
        OBVIOUS
    <2>2. a \in Seq(Stage) /\ Len(a) = 4 /\ a[4] = "request"
        BY <2>1 DEF Stage
    <2>3. r \in Seq(Stage) /\ Len(r) = Quantity /\ \A i \in 1 .. Quantity : r[i] = "read"
        BY <2>1, PortAssumption DEF Stage
    <2>4. Body(op) = a \o r
        BY <1>4, <2>1 DEF Body
    <2>5. /\ a \o r \in Seq(Stage)
          /\ Len(a \o r) = 4 + Quantity
          /\ \A i \in 1 .. 4 + Quantity : (a \o r)[i] = IF i <= 4 THEN a[i] ELSE r[i - 4]
        <3>1. /\ a \o r \in Seq(Stage)
              /\ Len(a \o r) = Len(a) + Len(r)
              /\ \A i \in 1 .. Len(a) + Len(r) : (a \o r)[i] =
                      IF i <= Len(a) THEN a[i] ELSE r[i - Len(a)]
            <4>1. a \in Seq(Stage) /\ r \in Seq(Stage)
                BY <2>2, <2>3
            <4>2. QED
                BY ONLY <4>1, ConcatProperties
        <3>2. QED
            BY <2>2, <2>3, <3>1
    <2>6. DOMAIN (a \o r) = 1 .. 4 + Quantity
        BY <2>5, LenProperties
    <2>7. (a \o r)[4] = "request" /\ 4 \in DOMAIN (a \o r)
        BY <2>2, <2>5, <2>6, PortAssumption
    <2>8. ASSUME NEW k \in DOMAIN (a \o r), (a \o r)[k] \in Claims
          PROVE  4 > k
        <3>1. k \in 1 .. 4 + Quantity
            BY <2>6
        <3>2. CASE k > 4
            BY <2>3, <2>5, <2>8, <3>1, <3>2, PortAssumption DEF Claims
        <3>3. CASE k = 4
            BY <2>7, <2>8, <3>3 DEF Claims
        <3>4. QED
            BY <3>1, <3>2, <3>3, PortAssumption
    <2>9. Sound(a \o r)
        BY <2>7, <2>8 DEF Sound, Frees
    <2>10. QED
        BY <2>4, <2>5, <2>9
<1>5. QED
    BY <1>1, <1>2, <1>3, <1>4 DEF Method

(* What is left when a step is done. *)
LEMMA TailSound ==
    ASSUME NEW s \in Seq(Stage), s # <<>>, Sound(s)
    PROVE  /\ Head(s) \in Stage /\ Tail(s) \in Seq(Stage) /\ Sound(Tail(s))
           /\ Head(s) \in Claims => Ends(Tail(s))
           /\ Ends(s) /\ Head(s) \notin Frees => Ends(Tail(s))
<1>1. /\ Head(s) = s[1] /\ Head(s) \in Stage /\ Tail(s) \in Seq(Stage)
      /\ Len(s) \in Nat \ {0} /\ Len(Tail(s)) = Len(s) - 1
      /\ DOMAIN s = 1 .. Len(s) /\ DOMAIN Tail(s) = 1 .. Len(s) - 1
      /\ \A i \in 1 .. Len(s) - 1 : Tail(s)[i] = s[i + 1]
    BY HeadTailProperties, LenProperties, EmptySeq
<1>2. ASSUME NEW j \in DOMAIN s, j > 1
      PROVE  j - 1 \in DOMAIN Tail(s) /\ Tail(s)[j - 1] = s[j]
    BY <1>1, <1>2
<1>3. Sound(Tail(s))
    <2>1. SUFFICES ASSUME NEW k \in DOMAIN Tail(s), Tail(s)[k] \in Claims
                   PROVE  \E j \in DOMAIN Tail(s) : j > k /\ Tail(s)[j] \in Frees
        BY DEF Sound
    <2>2. k + 1 \in DOMAIN s /\ s[k + 1] \in Claims /\ k \in Nat
        BY <1>1, <2>1
    <2>3. PICK j \in DOMAIN s : j > k + 1 /\ s[j] \in Frees
        BY <2>2 DEF Sound
    <2>4. j > 1 /\ j - 1 > k
        BY <1>1, <2>2, <2>3
    <2>5. QED
        BY <1>2, <2>3, <2>4
<1>4. ASSUME Head(s) \in Claims
      PROVE  Ends(Tail(s))
    <2>1. PICK j \in DOMAIN s : j > 1 /\ s[j] \in Frees
        BY <1>1, <1>4 DEF Sound
    <2>2. QED
        BY <1>2, <2>1 DEF Ends
<1>5. ASSUME Ends(s), Head(s) \notin Frees
      PROVE  Ends(Tail(s))
    <2>1. PICK j \in DOMAIN s : s[j] \in Frees
        BY <1>5 DEF Ends
    <2>2. j > 1
        BY <1>1, <1>5, <2>1
    <2>3. QED
        BY <1>2, <2>1, <2>2 DEF Ends
<1>6. QED
    BY <1>1, <1>3, <1>4, <1>5

-----------------------------------------------------------------------------
(* Frames.                                                                 *)

(* A task has a frame for each guard. *)
LEMMA Shape ==
    ASSUME GuardInv, FramesMatch, NEW t \in Task
    PROVE  /\ guards[t] \in Seq(Guard) /\ frames[t] \in Seq(Frame)
           /\ Len(guards[t]) \in Nat /\ Len(frames[t]) = Len(guards[t])
           /\ DOMAIN guards[t] = 1 .. Len(guards[t])
           /\ DOMAIN frames[t] = 1 .. Len(guards[t])
           /\ guards[t] # <<>> => /\ Top(t) \in 1 .. Len(guards[t])
                                  /\ frames[t][Top(t)] \in Frame
                                  /\ Sound(frames[t][Top(t)].todo)
                                  /\ Guarding(t).mutex \in AnyMutex
<1>1. guards[t] \in Seq(Guard) /\ frames[t] \in Seq(Frame) /\ Len(frames[t]) = Len(guards[t])
    BY DEF GuardInv, TypeOK, FramesMatch
<1>2. /\ Len(guards[t]) \in Nat
      /\ DOMAIN guards[t] = 1 .. Len(guards[t]) /\ DOMAIN frames[t] = 1 .. Len(guards[t])
    BY <1>1, LenProperties
<1>3. ASSUME guards[t] # <<>>
      PROVE  /\ Top(t) \in 1 .. Len(guards[t])
             /\ frames[t][Top(t)] \in Frame
             /\ Sound(frames[t][Top(t)].todo)
             /\ Guarding(t).mutex \in AnyMutex
    <2>1. Len(guards[t]) \in Nat \ {0}
        BY <1>1, <1>3, EmptySeq
    <2>2. Top(t) \in 1 .. Len(guards[t])
        BY <2>1 DEF Top
    <2>3. frames[t][Top(t)] \in Frame /\ guards[t][Top(t)] \in Guard
        BY <1>1, <2>2, ElementOfSeq
    <2>4. QED
        BY <1>2, <2>2, <2>3 DEF FramesMatch, Guarding, Guard
<1>4. QED
    BY <1>1, <1>2, <1>3

(* The others keep what they answer for. *)
Elsewhere(t) ==
    \A u \in Task : \A i, m :
        ~(u = t /\ i = Top(t)) /\ Answers(guards[u], frames[u], i, m)
            => Answers(guards'[u], frames'[u], i, m)

(* A new frame on top. *)
LEMMA FrameReplaced ==
    ASSUME GuardInv, FramesMatch, NEW t \in Task, guards[t] # <<>>,
           NEW g \in Frame, Sound(g.todo),
           frames' = [frames EXCEPT ![t][Top(t)] = g], UNCHANGED guards
    PROVE  /\ FramesMatch' /\ frames'[t][Top(t)] = g
           /\ \A u \in Task : \A i : ~(u = t /\ i = Top(t)) => frames'[u][i] = frames[u][i]
           /\ Elsewhere(t)
<1>1. PICK fs : fs = [frames[t] EXCEPT ![Top(t)] = g]
    OBVIOUS
<1>2. frames \in [Task -> Seq(Frame)] /\ \A u \in Task : Len(frames[u]) = Len(guards[u])
    BY DEF FramesMatch
<1>3. /\ Top(t) \in 1 .. Len(frames[t]) /\ frames[t] \in Seq(Frame)
      /\ DOMAIN frames[t] = 1 .. Len(frames[t])
    BY Shape
<1>4. /\ fs \in Seq(Frame) /\ Len(fs) = Len(frames[t])
      /\ fs[Top(t)] = g
      /\ \A i : i # Top(t) => fs[i] = frames[t][i]
      /\ DOMAIN fs = 1 .. Len(frames[t])
    <2>1. fs \in Seq(Frame) /\ Len(fs) = Len(frames[t])
        BY <1>1, <1>3, ExceptSeq
    <2>2. DOMAIN fs = 1 .. Len(frames[t])
        BY <2>1, LenProperties
    <2>3. fs[Top(t)] = g /\ \A i \in 1 .. Len(frames[t]) : i # Top(t) => fs[i] = frames[t][i]
        BY <1>1, <1>3
    <2>4. QED
        BY <1>1, <1>3, <2>1, <2>2, <2>3
<1>5. \A u \in Task : frames'[u] = IF u = t THEN fs ELSE frames[u]
    BY <1>1, <1>2
<1>6. frames' \in [Task -> Seq(Frame)]
    BY <1>1, <1>2, <1>4
<1>7. \A u \in Task : Len(frames'[u]) = Len(guards'[u])
    BY <1>2, <1>4, <1>5
<1>8. ASSUME NEW u \in Task, NEW i \in DOMAIN frames'[u]
      PROVE  Sound(frames'[u][i].todo)
    <2>1. CASE u = t /\ i = Top(t)
        BY <1>4, <1>5, <2>1
    <2>2. CASE ~(u = t /\ i = Top(t))
        BY <1>3, <1>4, <1>5, <1>8, <2>2 DEF FramesMatch
    <2>3. QED
        BY <2>1, <2>2
<1>9. \A u \in Task : \A i : ~(u = t /\ i = Top(t)) => frames'[u][i] = frames[u][i]
    BY <1>4, <1>5
<1>10. Elsewhere(t)
    BY <1>9 DEF Elsewhere, Answers
<1>11. QED
    BY <1>4, <1>5, <1>6, <1>7, <1>8, <1>9, <1>10 DEF FramesMatch

(* A method goes on. *)
LEMMA Advanced ==
    ASSUME GuardInv, FramesMatch, NEW t \in Task, Talking(t), NEW got \in Nat, Advance(t, got),
           UNCHANGED guards
    PROVE  /\ FramesMatch' /\ Elsewhere(t)
           /\ NextStep(t) \in Claims => Pending(frames'[t][Top(t)])
           /\ Pending(frames[t][Top(t)]) /\ NextStep(t) \notin Frees
                => Pending(frames'[t][Top(t)])
<1>1. PICK f : f = frames[t][Top(t)]
    OBVIOUS
<1>2. guards[t] # <<>> /\ f.todo # <<>> /\ NextStep(t) = Head(f.todo)
    BY <1>1 DEF Talking, NextStep
<1>3. f \in Frame /\ f.todo \in Seq(Stage) /\ f.got \in Nat /\ Sound(f.todo)
    BY <1>1, <1>2, Shape DEF Frame, Stage
<1>4. /\ Tail(f.todo) \in Seq(Stage) /\ Sound(Tail(f.todo))
      /\ Head(f.todo) \in Claims => Ends(Tail(f.todo))
      /\ Ends(f.todo) /\ Head(f.todo) \notin Frees => Ends(Tail(f.todo))
    BY <1>2, <1>3, TailSound
<1>5. PICK g : g = [f EXCEPT !.todo = Tail(@), !.got = @ + got, !.ok = Tail(f.todo) = <<>>]
    OBVIOUS
<1>6. g \in Frame /\ g.todo = Tail(f.todo) /\ g.op = f.op
    <2>1. Frame = [op : Method, todo : Seq(Stage), got : Nat, ok : BOOLEAN]
        BY DEF Frame, Stage
    <2>2. PICK b \in BOOLEAN : b = (Tail(f.todo) = <<>>)
        OBVIOUS
    <2>3. /\ f.got + got \in Nat /\ Tail(f.todo) \in Seq(Stage)
          /\ f = [op |-> f.op, todo |-> f.todo, got |-> f.got, ok |-> f.ok] /\ f.op \in Method
        BY <1>3, <1>4, <2>1
    <2>4. g = [op |-> f.op, todo |-> Tail(f.todo), got |-> f.got + got, ok |-> b]
        BY <1>5, <2>2, <2>3
    <2>5. QED
        BY <2>1, <2>3, <2>4
<1>7. frames' = [frames EXCEPT ![t][Top(t)] = g]
    BY <1>1, <1>5 DEF Advance
<1>8. FramesMatch' /\ Elsewhere(t) /\ frames'[t][Top(t)] = g
    <2>1. guards[t] # <<>> /\ Sound(g.todo)
        BY <1>2, <1>4, <1>6
    <2>2. QED
        BY ONLY <1>6, <1>7, <2>1, FrameReplaced, GuardInv, FramesMatch, t \in Task,
                UNCHANGED guards
<1>9. QED
    BY <1>1, <1>2, <1>4, <1>6, <1>8 DEF Pending

(* A method gives up. *)
LEMMA GivenUp ==
    ASSUME GuardInv, FramesMatch, NEW t \in Task, guards[t] # <<>>, GiveUp(t), UNCHANGED guards
    PROVE  FramesMatch' /\ Elsewhere(t)
<1>1. PICK f : f = frames[t][Top(t)]
    OBVIOUS
<1>2. f \in Frame
    BY <1>1, Shape
<1>3. PICK g : g = [f EXCEPT !.todo = <<>>]
    OBVIOUS
<1>4. g \in Frame /\ g.todo = <<>>
    <2>1. Frame = [op : Method, todo : Seq(Stage), got : Nat, ok : BOOLEAN]
        BY DEF Frame, Stage
    <2>2. <<>> \in Seq(Stage)
        OBVIOUS
    <2>3. QED
        BY <1>2, <1>3, <2>1, <2>2
<1>5. Sound(g.todo)
    BY <1>4 DEF Sound
<1>6. frames' = [frames EXCEPT ![t][Top(t)] = g]
    BY <1>1, <1>3 DEF GiveUp
<1>7. QED
    BY ONLY <1>4, <1>5, <1>6, FrameReplaced, GuardInv, FramesMatch, t \in Task,
            guards[t] # <<>>, UNCHANGED guards

-----------------------------------------------------------------------------
(* The bus.                                                                *)

(* Nothing changes on the bus. *)
LEMMA BusSame ==
    ASSUME BusAnswered, UNCHANGED bus,
           \A u \in Task : \A i, m :
               Answers(guards[u], frames[u], i, m) => Answers(guards'[u], frames'[u], i, m)
    PROVE  BusAnswered'
BY DEF BusAnswered

(* The innermost guard opens or ends a transaction. *)
LEMMA BusSet ==
    ASSUME GuardInv, FramesMatch, BusAnswered, NEW t \in Task, guards[t] # <<>>,
           Elsewhere(t), NEW user \in {t, NoTask, Unstopped}, SetBus(t, user),
           user = t => Answers(guards'[t], frames'[t], Top(t), Guarding(t).mutex)
    PROVE  BusAnswered'
<1>1. PICK n \in AnyMutex : n = Guarding(t).mutex
    BY Shape
<1>2. bus \in [AnyMutex -> Task \cup {NoTask, Unstopped}] /\ bus' = [bus EXCEPT ![n] = user]
    BY <1>1 DEF BusAnswered, SetBus
<1>3. bus' \in [AnyMutex -> Task \cup {NoTask, Unstopped}]
    BY <1>2
<1>4. ASSUME NEW m \in AnyMutex, bus'[m] \in Task
      PROVE  \E i : Answers(guards'[bus'[m]], frames'[bus'[m]], i, m)
    <2>1. CASE m = n
        BY <1>1, <1>2, <1>4, <2>1, GuardAssumption, PortAssumption
    <2>2. CASE m # n
        <3>1. bus'[m] = bus[m] /\ bus[m] \in Task
            BY <1>2, <1>4, <2>2
        <3>2. PICK i : Answers(guards[bus[m]], frames[bus[m]], i, m)
            BY <1>4, <3>1 DEF BusAnswered
        <3>3. ~(bus[m] = t /\ i = Top(t))
            BY <1>1, <2>2, <3>2 DEF Answers, Guarding
        <3>4. Answers(guards'[bus[m]], frames'[bus[m]], i, m)
            BY <3>1, <3>2, <3>3 DEF Elsewhere
        <3>5. QED
            BY <3>1, <3>4
    <2>3. QED
        BY <2>1, <2>2
<1>5. QED
    BY <1>3, <1>4 DEF BusAnswered

(* The innermost guard, while its method talks, is locked. *)
LEMMA TopAnswers ==
    ASSUME GuardInv, FramesMatch, NEW t \in Task, Talking(t), UNCHANGED guards,
           Pending(frames'[t][Top(t)])
    PROVE  Answers(guards'[t], frames'[t], Top(t), Guarding(t).mutex)
BY Shape DEF Talking, MayTalk, Answers, Guarding, Top

-----------------------------------------------------------------------------
(* The steps.                                                              *)

(* beginTransmission, write, transfer. *)
LEMMA TalkKeeps ==
    ASSUME GuardInv, FramesMatch, BusAnswered, NEW t \in Task, Talk(t)
    PROVE  FramesMatch' /\ BusAnswered'
<1>1. /\ Talking(t) /\ guards[t] # <<>> /\ SetBus(t, t) /\ Advance(t, 0)
      /\ UNCHANGED guards /\ NextStep(t) \in Claims
    BY DEF Talk, Talking, vars, Claims
<1>2. FramesMatch' /\ Elsewhere(t) /\ Pending(frames'[t][Top(t)])
    BY <1>1, Advanced
<1>3. Answers(guards'[t], frames'[t], Top(t), Guarding(t).mutex)
    BY <1>1, <1>2, TopAnswers
<1>4. QED
    BY <1>1, <1>2, <1>3, BusSet

(* endTransmission. *)
LEMMA FinishKeeps ==
    ASSUME GuardInv, FramesMatch, BusAnswered, NEW t \in Task, Finish(t)
    PROVE  FramesMatch' /\ BusAnswered'
<1>1. /\ Talking(t) /\ guards[t] # <<>> /\ SetBus(t, NoTask) /\ UNCHANGED guards
      /\ Advance(t, 0) \/ GiveUp(t)
    BY DEF Finish, Talking, vars
<1>2. FramesMatch' /\ Elsewhere(t)
    BY <1>1, Advanced, GivenUp
<1>3. NoTask # t
    BY GuardAssumption
<1>4. QED
    BY <1>1, <1>2, <1>3, BusSet

(* endTransmission(false). *)
LEMMA AddressKeeps ==
    ASSUME GuardInv, FramesMatch, BusAnswered, NEW t \in Task, Address(t)
    PROVE  FramesMatch' /\ BusAnswered'
<1>1. Talking(t) /\ guards[t] # <<>> /\ UNCHANGED guards /\ NextStep(t) \in Claims
    BY DEF Address, Talking, vars, Claims
<1>2. CASE SetBus(t, t) /\ Advance(t, 0)
    <2>1. FramesMatch' /\ Elsewhere(t) /\ Pending(frames'[t][Top(t)])
        BY <1>1, <1>2, Advanced
    <2>2. Answers(guards'[t], frames'[t], Top(t), Guarding(t).mutex)
        BY <1>1, <2>1, TopAnswers
    <2>3. QED
        BY <1>1, <1>2, <2>1, <2>2, BusSet
<1>3. ASSUME NEW left \in {NoTask, Unstopped}, SetBus(t, left), GiveUp(t)
      PROVE  FramesMatch' /\ BusAnswered'
    <2>1. FramesMatch' /\ Elsewhere(t)
        BY <1>1, <1>3, GivenUp
    <2>2. left # t
        BY GuardAssumption, PortAssumption
    <2>3. QED
        BY <1>1, <1>3, <2>1, <2>2, BusSet
<1>4. QED
    BY <1>2, <1>3 DEF Address

(* requestFrom. *)
LEMMA RequestKeeps ==
    ASSUME GuardInv, FramesMatch, BusAnswered, NEW t \in Task, Request(t)
    PROVE  FramesMatch' /\ BusAnswered'
<1>1. /\ Talking(t) /\ guards[t] # <<>> /\ SetBus(t, NoTask) /\ UNCHANGED guards
      /\ Advance(t, 0) \/ GiveUp(t)
    BY DEF Request, Talking, vars
<1>2. FramesMatch' /\ Elsewhere(t)
    BY <1>1, Advanced, GivenUp
<1>3. NoTask # t
    BY GuardAssumption
<1>4. QED
    BY <1>1, <1>2, <1>3, BusSet

(* read. *)
LEMMA ReadKeeps ==
    ASSUME GuardInv, FramesMatch, BusAnswered, NEW t \in Task, Read(t)
    PROVE  FramesMatch' /\ BusAnswered'
<1>1. /\ Talking(t) /\ guards[t] # <<>> /\ UNCHANGED guards /\ UNCHANGED bus
      /\ NextStep(t) \notin Frees
    BY DEF Read, Talking, vars, Frees
<1>2. PICK got \in Nat : Advance(t, got)
    BY DEF Read
<1>3. /\ FramesMatch' /\ Elsewhere(t)
      /\ Pending(frames[t][Top(t)]) => Pending(frames'[t][Top(t)])
    BY <1>1, <1>2, Advanced
<1>4. \A m : Answers(guards[t], frames[t], Top(t), m)
           => Answers(guards'[t], frames'[t], Top(t), m)
    BY <1>1, <1>3 DEF Answers
<1>5. \A u \in Task : \A i, m :
               Answers(guards[u], frames[u], i, m) => Answers(guards'[u], frames'[u], i, m)
    BY <1>3, <1>4 DEF Elsewhere
<1>6. QED
    BY <1>1, <1>3, <1>5, BusSame

(* << of a Locked. *)
LEMMA LockedPrintKeeps ==
    ASSUME GuardInv, FramesMatch, BusAnswered, NEW t \in Task, LockedPrint(t)
    PROVE  FramesMatch' /\ BusAnswered'
<1>1. /\ guards[t] # <<>> /\ SetBus(t, t) /\ UNCHANGED guards /\ UNCHANGED frames
      /\ frames[t][Top(t)].op = "Locked" /\ Guarding(t).is_locked
    BY DEF LockedPrint, MayTalk, vars
<1>2. FramesMatch' /\ Elsewhere(t)
    BY <1>1 DEF FramesMatch, Elsewhere, Answers
<1>3. Answers(guards'[t], frames'[t], Top(t), Guarding(t).mutex)
    BY <1>1, Shape DEF Answers, Pending, Guarding, Top
<1>4. QED
    BY <1>1, <1>2, <1>3, BusSet

(* What a constructor does to the stack of its task. *)
LEMMA ConstructPushes ==
    ASSUME GuardInv, NEW t \in Task, NEW kind \in Kind, NEW m \in MutexOf(kind), NEW wait,
           Construct(t, kind, m, wait)
    PROVE  \E hs \in Seq(Guard) :
              /\ guards' = [guards EXCEPT ![t] = hs]
              /\ Len(hs) = Len(guards[t]) + 1
              /\ \A i \in 1 .. Len(guards[t]) : hs[i] = guards[t][i]
              /\ hs[Len(guards[t]) + 1].mutex = m
<1>1. PICK g : g = [kind |-> kind, mutex |-> m, is_locked |-> FALSE]
    OBVIOUS
<1>2. g \in Guard
    BY <1>1, MutexKinds DEF Guard
<1>3. guards[t] \in Seq(Guard) /\ Len(guards[t]) \in Nat
    BY LenProperties DEF GuardInv, TypeOK
<1>4. PICK gs : gs = Append(guards[t], g)
    OBVIOUS
<1>5. /\ gs \in Seq(Guard) /\ Len(gs) = Len(guards[t]) + 1
      /\ \A i \in 1 .. Len(guards[t]) : gs[i] = guards[t][i]
      /\ gs[Len(gs)].mutex = m
    BY <1>1, <1>2, <1>3, <1>4, AppendProperties
<1>6. ASSUME NEW b \in BOOLEAN
      PROVE  LET hs == WithLocked(gs, Len(gs), b)
             IN  /\ hs \in Seq(Guard) /\ Len(hs) = Len(gs) /\ hs[Len(gs)].mutex = m
                 /\ \A i \in 1 .. Len(guards[t]) : hs[i] = guards[t][i]
    <2>1. PICK e : e = [gs[Len(gs)] EXCEPT !.is_locked = b]
        OBVIOUS
    <2>2. Len(gs) \in 1 .. Len(gs)
        BY <1>3, <1>5
    <2>3. gs[Len(gs)] \in Guard
        BY <1>5, <2>2, ElementOfSeq
    <2>4. e \in Guard /\ e.mutex = m
        BY <1>5, <2>1, <2>3 DEF Guard
    <2>5. WithLocked(gs, Len(gs), b) = [gs EXCEPT ![Len(gs)] = e]
        BY <2>1 DEF WithLocked
    <2>6. /\ WithLocked(gs, Len(gs), b) \in Seq(Guard)
          /\ Len(WithLocked(gs, Len(gs), b)) = Len(gs)
          /\ \A j \in 1 .. Len(gs) : WithLocked(gs, Len(gs), b)[j] = IF j = Len(gs) THEN e ELSE gs[j]
        BY <1>5, <2>2, <2>4, <2>5, ExceptSeq
    <2>7. \A i \in 1 .. Len(guards[t]) : i \in 1 .. Len(gs) /\ i # Len(gs)
        BY <1>3, <1>5
    <2>8. QED
        BY <1>5, <2>2, <2>4, <2>6, <2>7
<1>7. PICK hs \in {gs, WithLocked(gs, Len(gs), TRUE), WithLocked(gs, Len(gs), FALSE)} :
          guards' = [guards EXCEPT ![t] = hs]
    BY <1>1, <1>4 DEF Construct, Take
<1>8. /\ hs \in Seq(Guard) /\ Len(hs) = Len(gs) /\ hs[Len(gs)].mutex = m
      /\ \A i \in 1 .. Len(guards[t]) : hs[i] = guards[t][i]
    <2>1. CASE hs = gs
        BY <1>5, <2>1
    <2>2. CASE hs = WithLocked(gs, Len(gs), TRUE)
        BY <1>6, <2>2
    <2>3. CASE hs = WithLocked(gs, Len(gs), FALSE)
        BY <1>6, <2>3
    <2>4. QED
        BY <1>7, <2>1, <2>2, <2>3
<1>9. QED
    BY <1>5, <1>7, <1>8

(* A method is called. *)
LEMMA OpenKeeps ==
    ASSUME GuardInv, FramesMatch, BusAnswered,
           NEW t \in Task, NEW op \in Method, NEW wait \in Wait, Open(t, op, wait)
    PROVE  FramesMatch' /\ BusAnswered'
<1>1. /\ PortOf(op) \in MutexOf("UniqueLock") /\ Construct(t, "UniqueLock", PortOf(op), wait)
      /\ "UniqueLock" \in Kind
    BY PortAssumption DEF Open, MutexOf, PlainKind
<1>2. PICK hs \in Seq(Guard) :
          /\ guards' = [guards EXCEPT ![t] = hs]
          /\ Len(hs) = Len(guards[t]) + 1
          /\ \A i \in 1 .. Len(guards[t]) : hs[i] = guards[t][i]
    BY <1>1, ConstructPushes
<1>3. PICK f : f = [op |-> op, todo |-> Body(op), got |-> 0, ok |-> FALSE]
    OBVIOUS
<1>4. f \in Frame /\ Sound(f.todo)
    BY <1>3, BodySound DEF Frame, Stage
<1>5. PICK fs : fs = Append(frames[t], f)
    OBVIOUS
<1>6. frames' = [frames EXCEPT ![t] = fs] /\ UNCHANGED bus
    BY <1>3, <1>5 DEF Open
<1>7. /\ fs \in Seq(Frame) /\ Len(fs) = Len(guards[t]) + 1
      /\ \A i \in 1 .. Len(guards[t]) : fs[i] = frames[t][i]
      /\ fs[Len(guards[t]) + 1] = f
      /\ DOMAIN fs = 1 .. Len(guards[t]) + 1
    <2>1. frames[t] \in Seq(Frame) /\ Len(frames[t]) = Len(guards[t])
        BY Shape
    <2>2. QED
        BY <1>4, <1>5, <2>1, AppendProperties, LenProperties
<1>8. /\ frames \in [Task -> Seq(Frame)] /\ guards \in [Task -> Seq(Guard)]
      /\ Len(guards[t]) \in Nat /\ DOMAIN guards[t] = 1 .. Len(guards[t])
      /\ DOMAIN frames[t] = 1 .. Len(guards[t])
      /\ DOMAIN hs = 1 .. Len(guards[t]) + 1
    BY <1>2, Shape, LenProperties DEF FramesMatch, GuardInv, TypeOK
<1>9. \A u \in Task : /\ guards'[u] = IF u = t THEN hs ELSE guards[u]
                      /\ frames'[u] = IF u = t THEN fs ELSE frames[u]
    BY <1>2, <1>6, <1>8
<1>10. FramesMatch'
    <2>1. frames' \in [Task -> Seq(Frame)]
        BY <1>6, <1>7, <1>8
    <2>2. \A u \in Task : Len(frames'[u]) = Len(guards'[u])
        BY <1>2, <1>7, <1>9 DEF FramesMatch
    <2>3. ASSUME NEW u \in Task, NEW i \in DOMAIN frames'[u]
          PROVE  Sound(frames'[u][i].todo)
        <3>1. CASE u # t
            BY <1>9, <2>3, <3>1 DEF FramesMatch
        <3>2. CASE u = t /\ i \in 1 .. Len(guards[t])
            BY <1>7, <1>8, <1>9, <3>2 DEF FramesMatch
        <3>3. CASE u = t /\ i = Len(guards[t]) + 1
            BY <1>4, <1>7, <1>9, <3>3
        <3>4. QED
            BY <1>7, <1>8, <1>9, <2>3, <3>1, <3>2, <3>3
    <2>4. QED
        BY <2>1, <2>2, <2>3 DEF FramesMatch
<1>11. \A u \in Task : \A i, m :
           Answers(guards[u], frames[u], i, m) => Answers(guards'[u], frames'[u], i, m)
    <2>1. SUFFICES ASSUME NEW u \in Task, NEW i, NEW m, Answers(guards[u], frames[u], i, m)
                   PROVE  Answers(guards'[u], frames'[u], i, m)
        OBVIOUS
    <2>2. CASE u # t
        BY <1>9, <2>1, <2>2
    <2>3. CASE u = t
        <3>1. i \in 1 .. Len(guards[t])
            BY <1>8, <2>1, <2>3 DEF Answers
        <3>2. i \in DOMAIN hs /\ hs[i] = guards[t][i] /\ fs[i] = frames[t][i]
            BY <1>2, <1>7, <1>8, <3>1
        <3>3. Answers(hs, fs, i, m)
            BY <2>1, <2>3, <3>2 DEF Answers
        <3>4. QED
            BY <1>9, <2>3, <3>3
    <2>4. QED
        BY <2>2, <2>3
<1>12. QED
    BY <1>6, <1>10, <1>11, BusSame

(* The method returns. *)
LEMMA CloseKeeps ==
    ASSUME GuardInv, FramesMatch, BusAnswered, NEW t \in Task, Close(t)
    PROVE  FramesMatch' /\ BusAnswered'
<1>1. PICK hs, fs : /\ hs = SubSeq(guards[t], 1, Len(guards[t]) - 1)
                    /\ fs = SubSeq(frames[t], 1, Len(guards[t]) - 1)
    OBVIOUS
<1>2. /\ guards[t] # <<>>
      /\ guards' = [guards EXCEPT ![t] = hs] /\ frames' = [frames EXCEPT ![t] = fs]
    BY <1>1, Shape DEF Close, Destroy
<1>3. /\ frames \in [Task -> Seq(Frame)] /\ guards \in [Task -> Seq(Guard)]
      /\ guards[t] \in Seq(Guard) /\ frames[t] \in Seq(Frame)
      /\ Len(guards[t]) \in Nat \ {0} /\ DOMAIN guards[t] = 1 .. Len(guards[t])
      /\ DOMAIN frames[t] = 1 .. Len(guards[t])
    BY <1>2, Shape, EmptySeq DEF FramesMatch, GuardInv, TypeOK
<1>4. /\ hs \in Seq(Guard) /\ Len(hs) = Len(guards[t]) - 1
      /\ fs \in Seq(Frame) /\ Len(fs) = Len(guards[t]) - 1
      /\ \A i \in 1 .. Len(guards[t]) - 1 : hs[i] = guards[t][i] /\ fs[i] = frames[t][i]
    <2>1. \A i \in 1 .. Len(guards[t]) - 1 : guards[t][i] \in Guard /\ frames[t][i] \in Frame
        BY <1>3, Shape, ElementOfSeq
    <2>2. QED
        BY <1>1, <1>3, <2>1, SubSeqProperties
<1>5. DOMAIN hs = 1 .. Len(guards[t]) - 1 /\ DOMAIN fs = 1 .. Len(guards[t]) - 1
    BY <1>4, LenProperties
<1>6. \A u \in Task : /\ guards'[u] = IF u = t THEN hs ELSE guards[u]
                      /\ frames'[u] = IF u = t THEN fs ELSE frames[u]
    BY <1>2, <1>3
<1>7. FramesMatch'
    <2>1. frames' \in [Task -> Seq(Frame)]
        BY <1>2, <1>3, <1>4
    <2>2. \A u \in Task : Len(frames'[u]) = Len(guards'[u])
        BY <1>4, <1>6 DEF FramesMatch
    <2>3. ASSUME NEW u \in Task, NEW i \in DOMAIN frames'[u]
          PROVE  Sound(frames'[u][i].todo)
        <3>1. CASE u # t
            BY <1>6, <2>3, <3>1 DEF FramesMatch
        <3>2. CASE u = t
            <4>1. i \in 1 .. Len(guards[t]) - 1
                BY <1>5, <1>6, <2>3, <3>2
            <4>2. PICK n \in Nat : n = Len(guards[t])
                BY <1>3
            <4>3. i \in 1 .. n
                BY <4>1, <4>2
            <4>4. frames'[u][i] = frames[t][i] /\ i \in DOMAIN frames[t]
                BY <1>3, <1>4, <1>6, <3>2, <4>1, <4>2, <4>3
            <4>5. QED
                BY <4>4 DEF FramesMatch
        <3>3. QED
            BY <3>1, <3>2
    <2>4. QED
        BY <2>1, <2>2, <2>3 DEF FramesMatch
<1>8. Elsewhere(t)
    <2>1. SUFFICES ASSUME NEW u \in Task, NEW i, NEW m, ~(u = t /\ i = Top(t)),
                          Answers(guards[u], frames[u], i, m)
                   PROVE  Answers(guards'[u], frames'[u], i, m)
        BY DEF Elsewhere
    <2>2. CASE u # t
        BY <1>6, <2>1, <2>2
    <2>3. CASE u = t
        <3>1. i \in 1 .. Len(guards[t]) /\ i # Len(guards[t])
            BY <1>3, <2>1, <2>3 DEF Answers, Top
        <3>2. i \in 1 .. Len(guards[t]) - 1
            <4>1. PICK n \in Nat : n = Len(guards[t])
                BY <1>3
            <4>2. QED
                BY <3>1, <4>1
        <3>3. i \in DOMAIN hs /\ hs[i] = guards[t][i] /\ fs[i] = frames[t][i]
            BY <1>4, <1>5, <3>2
        <3>4. Answers(hs, fs, i, m)
            BY <2>1, <2>3, <3>3 DEF Answers
        <3>5. QED
            BY <1>6, <2>3, <3>4
    <2>4. QED
        BY <2>2, <2>3
<1>9. CASE frames[t][Top(t)].op = "Locked" /\ Guarding(t).is_locked
    <2>1. SetBus(t, NoTask)
        BY <1>9 DEF Close
    <2>2. NoTask # t
        BY GuardAssumption
    <2>3. QED
        BY <1>2, <1>7, <1>8, <2>1, <2>2, BusSet
<1>10. CASE ~(frames[t][Top(t)].op = "Locked" /\ Guarding(t).is_locked)
    <2>1. UNCHANGED bus
        BY <1>10 DEF Close
    <2>2. ASSUME NEW m
          PROVE  ~Answers(guards[t], frames[t], Top(t), m)
        BY <1>10 DEF Close, MayTalk, Answers, Pending, Ends, Guarding
    <2>3. \A u \in Task : \A i, m :
              Answers(guards[u], frames[u], i, m) => Answers(guards'[u], frames'[u], i, m)
        BY <1>8, <2>2 DEF Elsewhere
    <2>4. QED
        BY <1>7, <2>1, <2>3, BusSame
<1>11. QED
    BY <1>9, <1>10

(* A task that waited for its mutex wakes up. *)
LEMMA WakeKeeps ==
    ASSUME GuardInv, FramesMatch, BusAnswered, NEW t \in Task, Wake(t)
    PROVE  FramesMatch' /\ BusAnswered'
<1>1. PICK i : i = blocked[t].guard
    OBVIOUS
<1>2. UNCHANGED frames /\ UNCHANGED bus /\ ~Runs(t)
    <2>1. UNCHANGED frames /\ UNCHANGED bus
        BY DEF Wake, ports
    <2>2. CASE Grant(t)
        BY <2>1, <2>2 DEF Grant
    <2>3. CASE Timeout(t)
        BY <2>1, <2>3 DEF Timeout, Runs, Running
    <2>4. QED
        BY <2>2, <2>3 DEF Wake
<1>3. PICK b \in BOOLEAN : guards' = [guards EXCEPT ![t] = WithLocked(@, i, b)]
    BY <1>1 DEF Wake, Grant, Timeout
<1>4. /\ guards \in [Task -> Seq(Guard)] /\ guards[t] \in Seq(Guard)
      /\ i \in DOMAIN guards[t] /\ ~guards[t][i].is_locked
      /\ DOMAIN guards[t] = 1 .. Len(guards[t])
    BY <1>1, <1>2, Shape DEF GuardInv, TypeOK, WaitsUnlocked, LockedOn, Locked
<1>5. PICK e : e = [guards[t][i] EXCEPT !.is_locked = b]
    OBVIOUS
<1>6. guards[t][i] \in Guard
    BY <1>4, ElementOfSeq
<1>7. e \in Guard /\ e.mutex = guards[t][i].mutex
    BY <1>5, <1>6 DEF Guard
<1>8. PICK hs : hs = [guards[t] EXCEPT ![i] = e]
    OBVIOUS
<1>9. guards' = [guards EXCEPT ![t] = hs]
    BY <1>3, <1>5, <1>8 DEF WithLocked
<1>10. /\ hs \in Seq(Guard) /\ Len(hs) = Len(guards[t])
       /\ \A j \in 1 .. Len(guards[t]) : hs[j] = IF j = i THEN e ELSE guards[t][j]
    BY <1>4, <1>7, <1>8, ExceptSeq
<1>11. DOMAIN hs = DOMAIN guards[t]
    BY <1>4, <1>10, LenProperties
<1>12. \A u \in Task : guards'[u] = IF u = t THEN hs ELSE guards[u]
    BY <1>4, <1>9
<1>13. FramesMatch'
    BY <1>2, <1>10, <1>12 DEF FramesMatch
<1>14. \A u \in Task : \A j, m :
           Answers(guards[u], frames[u], j, m) => Answers(guards'[u], frames'[u], j, m)
    BY <1>2, <1>4, <1>10, <1>11, <1>12 DEF Answers
<1>15. QED
    BY <1>2, <1>13, <1>14, BusSame

-----------------------------------------------------------------------------
(* What a read_register has read.                                          *)

(* A method that reads asks for Quantity bytes and then reads as many; no  *)
(* other method does either.                                               *)
ReadPlan(todo) ==
    \A j \in DOMAIN todo :
        /\ todo[j] = "read" <=> Len(todo) - j < Quantity
        /\ todo[j] = "request" <=> Len(todo) - j = Quantity

Receiving(f) == f.op = "read_register" /\ f.todo # <<>> /\ Len(f.todo) <= Quantity

Counted(f) ==
    IF f.op = "read_register"
    THEN /\ ReadPlan(f.todo)
         /\ f.todo # <<>> => /\ ~f.ok
                             /\ f.got = IF Len(f.todo) > Quantity THEN 0
                                                                  ELSE Quantity - Len(f.todo)
         /\ f.ok => f.got = Quantity
    ELSE \A j \in DOMAIN f.todo : f.todo[j] \notin {"request", "read"}

(* The i-th method of t: it has the guard of its port, only a Locked has a *)
(* scope, and what is left to be read is in the receive buffer.            *)
Whole(t, i) ==
    /\ guards[t][i].mutex = PortOf(frames[t][i].op)
    /\ i < Top(t) => frames[t][i].op = "Locked"
    /\ Counted(frames[t][i])
    /\ Receiving(frames[t][i]) =>
          guards[t][i].is_locked /\ rx.by = t /\ rx.n = Len(frames[t][i].todo)

ReadInv ==
    /\ rx \in [by : Task, n : 0 .. Quantity]
    /\ \A t \in Task : \A i \in DOMAIN frames[t] : Whole(t, i)

(* A method starts with its whole plan. *)
LEMMA BodyCounted ==
    ASSUME NEW op \in Method, NEW f, f = [op |-> op, todo |-> Body(op), got |-> 0, ok |-> FALSE]
    PROVE  Counted(f) /\ ~Receiving(f)
<1>1. CASE op = "read_register"
    <2>1. PICK a, r : /\ a = <<"begin", "put", "address", "request">>
                      /\ r = [i \in 1 .. Quantity |-> "read"]
        OBVIOUS
    <2>2. /\ a \in Seq(Stage) /\ Len(a) = 4
          /\ \A i \in 1 .. 4 : a[i] # "read" /\ (a[i] = "request" <=> i = 4)
        BY <2>1 DEF Stage
    <2>3. /\ r \in Seq(Stage) /\ Len(r) = Quantity
          /\ \A i \in 1 .. Quantity : r[i] = "read"
        <3>1. r \in [1 .. Quantity -> Stage] /\ \A i \in 1 .. Quantity : r[i] = "read"
            BY <2>1 DEF Stage
        <3>2. QED
            BY <3>1, PortAssumption
    <2>4. /\ a \o r \in Seq(Stage) /\ Len(a \o r) = Len(a) + Len(r)
          /\ \A i \in 1 .. Len(a) + Len(r) : (a \o r)[i] =
                 IF i <= Len(a) THEN a[i] ELSE r[i - Len(a)]
        <3>1. a \in Seq(Stage) /\ r \in Seq(Stage)
            BY <2>2, <2>3
        <3>2. QED
            BY ONLY <3>1, ConcatProperties
    <2>5. /\ DOMAIN (a \o r) = 1 .. 4 + Quantity /\ Len(a \o r) = 4 + Quantity
          /\ \A i \in 1 .. 4 + Quantity : (a \o r)[i] = IF i <= 4 THEN a[i] ELSE r[i - 4]
        BY <2>2, <2>3, <2>4, LenProperties
    <2>6. ASSUME NEW i \in 1 .. 4 + Quantity
          PROVE  /\ (a \o r)[i] = "read" <=> 4 + Quantity - i < Quantity
                 /\ (a \o r)[i] = "request" <=> 4 + Quantity - i = Quantity
        <3>1. CASE i <= 4
            <4>1. i \in 1 .. 4 /\ (a \o r)[i] = a[i]
                BY <2>5, <2>6, <3>1, PortAssumption
            <4>2. ~(4 + Quantity - i < Quantity) /\ (4 + Quantity - i = Quantity <=> i = 4)
                BY <4>1, PortAssumption
            <4>3. QED
                BY <2>2, <4>1, <4>2
        <3>2. CASE i > 4
            <4>1. i - 4 \in 1 .. Quantity /\ (a \o r)[i] = r[i - 4]
                BY ONLY <2>5, <2>6, <3>2, PortAssumption
            <4>2. 4 + Quantity - i < Quantity /\ 4 + Quantity - i # Quantity
                BY <2>6, <3>2, PortAssumption
            <4>3. QED
                BY <2>3, <4>1, <4>2
        <3>3. i <= 4 \/ i > 4
            BY <2>6, PortAssumption
        <3>4. QED
            BY <3>1, <3>2, <3>3
    <2>7. f.todo = a \o r /\ f.op = "read_register" /\ f.got = 0 /\ f.ok = FALSE
        BY <1>1, <2>1 DEF Body
    <2>8. ReadPlan(f.todo) /\ Len(f.todo) > Quantity /\ ~(Len(f.todo) <= Quantity)
        <3>1. ReadPlan(a \o r)
            BY <2>5, <2>6, PortAssumption DEF ReadPlan
        <3>2. Len(a \o r) > Quantity /\ ~(Len(a \o r) <= Quantity)
            BY ONLY <2>5, PortAssumption
        <3>3. QED
            BY ONLY <2>7, <3>1, <3>2
    <2>9. QED
        BY <2>7, <2>8 DEF Counted, Receiving
<1>2. CASE op # "read_register"
    <2>1. Body(op) \in {<<>>, <<"begin", "end">>, <<"begin", "put", "end">>}
        BY <1>2 DEF Method, Body
    <2>2. \A j \in DOMAIN Body(op) : Body(op)[j] \notin {"request", "read"}
        BY <2>1
    <2>3. QED
        BY <1>2, <2>2 DEF Counted, Receiving
<1>3. QED
    BY <1>1, <1>2

(* A step done is a step less; a byte read is a byte less to read. *)
LEMMA AdvanceCounted ==
    ASSUME NEW f \in Frame, f.todo # <<>>, Counted(f), NEW got \in Nat,
           got = IF Head(f.todo) = "read" THEN 1 ELSE 0,
           NEW b \in BOOLEAN, b <=> Tail(f.todo) = <<>>,
           NEW g, g.op = f.op, g.todo = Tail(f.todo), g.got = f.got + got, g.ok = b
    PROVE  /\ Counted(g)
           /\ Head(f.todo) = "read" => Receiving(f)
           /\ Head(f.todo) = "request" => f.op = "read_register" /\ Len(Tail(f.todo)) = Quantity
           /\ Receiving(g) /\ Head(f.todo) # "request" => Head(f.todo) = "read"
           /\ Len(g.todo) = Len(f.todo) - 1
<1>1. f.todo \in Seq(Stage) /\ f.got \in Nat
    BY DEF Frame, Stage
<1>2. PICK s \in Seq(Stage) : s = f.todo
    BY <1>1
<1>3. /\ Head(s) = s[1] /\ Tail(s) \in Seq(Stage)
      /\ Len(s) \in Nat \ {0} /\ Len(Tail(s)) = Len(s) - 1
      /\ DOMAIN s = 1 .. Len(s) /\ DOMAIN Tail(s) = 1 .. Len(s) - 1
      /\ \A i \in 1 .. Len(s) - 1 : Tail(s)[i] = s[i + 1]
    BY <1>2, HeadTailProperties, LenProperties, EmptySeq
<1>4. PICK n \in Nat \ {0} : n = Len(s)
    BY <1>3
<1>5. b <=> Tail(s) = <<>>
    BY <1>2
<1>6. /\ g.op = f.op /\ g.todo = Tail(s) /\ g.got = f.got + got /\ g.ok = b
      /\ f.ok \in BOOLEAN
    BY <1>2 DEF Frame
<1>7. Len(Tail(s)) = n - 1 /\ (Tail(s) = <<>> <=> n = 1) /\ n - 1 \in Nat
    <2>1. Tail(s) = <<>> <=> Len(Tail(s)) = 0
        BY <1>3, EmptySeq
    <2>2. QED
        BY <1>3, <1>4, <2>1
<1>8. CASE f.op = "read_register"
    <2>1. ReadPlan(s) /\ f.got = IF n > Quantity THEN 0 ELSE Quantity - n
        BY <1>2, <1>4, <1>8 DEF Counted
    <2>2. /\ Head(s) = "read" <=> n - 1 < Quantity
          /\ Head(s) = "request" <=> n - 1 = Quantity
        BY <1>3, <1>4, <2>1 DEF ReadPlan
    <2>3. ReadPlan(Tail(s))
        <3>1. SUFFICES ASSUME NEW j \in 1 .. n - 1
                       PROVE  /\ Tail(s)[j] = "read" <=> (n - 1) - j < Quantity
                              /\ Tail(s)[j] = "request" <=> (n - 1) - j = Quantity
            BY <1>3, <1>4 DEF ReadPlan
        <3>2. j + 1 \in DOMAIN s /\ Tail(s)[j] = s[j + 1]
            BY <1>3, <1>4, <3>1
        <3>3. /\ s[j + 1] = "read" <=> n - (j + 1) < Quantity
              /\ s[j + 1] = "request" <=> n - (j + 1) = Quantity
            BY <1>4, <2>1, <3>2 DEF ReadPlan
        <3>4. QED
            BY <3>2, <3>3, PortAssumption
    <2>4. /\ Counted(g) <=> /\ ~b => ~b /\ g.got = IF n - 1 > Quantity THEN 0
                                                   ELSE Quantity - (n - 1)
                            /\ b => g.got = Quantity
          /\ Receiving(g) <=> ~b /\ n - 1 <= Quantity
        BY <1>5, <1>6, <1>7, <1>8, <2>3 DEF Counted, Receiving
    <2>5. b <=> n = 1
        BY <1>5, <1>7
    <2>6. CASE n > Quantity
        <3>1. Head(s) # "read" /\ g.got = 0
            BY <1>2, <1>6, <2>1, <2>2, <2>6, PortAssumption
        <3>2. ~b /\ n - 1 >= Quantity
            BY <2>5, <2>6, PortAssumption
        <3>3. Counted(g) /\ (Receiving(g) => n - 1 = Quantity)
            BY <2>4, <3>1, <3>2, PortAssumption
        <3>4. QED
            BY <1>2, <1>4, <1>6, <1>7, <1>8, <2>2, <3>1, <3>3
    <2>7. CASE n <= Quantity
        <3>1. Head(s) = "read" /\ Head(s) # "request" /\ g.got = Quantity - (n - 1)
            BY <1>2, <1>6, <2>1, <2>2, <2>7, PortAssumption
        <3>2. Counted(g)
            BY <2>4, <2>5, <2>7, <3>1, PortAssumption
        <3>3. Receiving(f)
            BY <1>2, <1>4, <1>8, <2>7 DEF Receiving
        <3>4. QED
            BY <1>2, <1>4, <1>6, <1>7, <3>1, <3>2, <3>3
    <2>8. QED
        BY <2>6, <2>7, PortAssumption
<1>9. CASE f.op # "read_register"
    <2>1. Head(s) \notin {"request", "read"}
        BY <1>2, <1>3, <1>9 DEF Counted
    <2>2. \A j \in DOMAIN Tail(s) : Tail(s)[j] \notin {"request", "read"}
        <3>1. SUFFICES ASSUME NEW j \in 1 .. n - 1
                       PROVE  Tail(s)[j] \notin {"request", "read"}
            BY <1>3, <1>4
        <3>2. j + 1 \in DOMAIN s /\ Tail(s)[j] = s[j + 1]
            BY <1>3, <1>4, <3>1
        <3>3. QED
            BY <1>2, <1>9, <3>2 DEF Counted
    <2>3. Counted(g) /\ ~Receiving(g)
        BY <1>6, <1>9, <2>2 DEF Counted, Receiving
    <2>4. QED
        BY <1>2, <1>4, <1>6, <1>7, <2>1, <2>3
<1>10. QED
    BY <1>8, <1>9

(* Only one task talks to a port: a step of the innermost method of t on   *)
(* the bus of SafeWire takes nothing from what another task receives.      *)
LEMMA Alone ==
    ASSUME GuardInv, FramesMatch, ReadInv, NEW t \in Task, guards[t] # <<>>, MayTalk(t),
           frames[t][Top(t)].op = "read_register",
           NEW u \in Task, NEW i \in DOMAIN frames[u], Receiving(frames[u][i])
    PROVE  u = t /\ i = Top(t)
<1>1. /\ Top(t) \in DOMAIN guards[t] /\ Top(t) \in DOMAIN frames[t] /\ i \in DOMAIN guards[u]
      /\ guards[t][Top(t)].is_locked
    BY Shape DEF MayTalk, Guarding
<1>2. Whole(t, Top(t)) /\ Whole(u, i)
    BY <1>1 DEF ReadInv
<1>3. frames[u][i].op = "read_register" /\ guards[u][i].is_locked
    BY <1>2 DEF Whole, Receiving
<1>4. PICK m : m = PortOf("read_register")
    OBVIOUS
<1>5. Top(t) \in LockedOn(t, m) /\ i \in LockedOn(u, m)
    BY <1>1, <1>2, <1>3, <1>4 DEF Whole, LockedOn, Locked
<1>6. m \in AnyMutex
    <2>1. Guarding(t).mutex \in AnyMutex
        BY Shape
    <2>2. QED
        BY <1>2, <1>4, <2>1 DEF Whole, Guarding
<1>7. OwnsLockIsTrue
    BY DEF GuardInv, Agree
<1>8. holder[m] = t /\ holder[m] = u
    BY <1>5, <1>6, <1>7 DEF OwnsLockIsTrue
<1>9. u = t
    BY <1>8
<1>10. ~(i < Top(t))
    BY <1>2, <1>3, <1>9 DEF Whole
<1>11. i \in 1 .. Len(guards[t]) /\ Top(t) = Len(guards[t]) /\ Len(guards[t]) \in Nat
    BY <1>1, <1>9, Shape DEF Top
<1>12. QED
    <2>1. PICK n \in Nat : n = Len(guards[t])
        BY <1>11
    <2>2. i = n
        BY <1>10, <1>11, <2>1
    <2>3. QED
        BY <1>9, <1>11, <2>1, <2>2

(* The innermost method of t takes a step, and keeps the buffer of the     *)
(* others.                                                                 *)
LEMMA TopReads ==
    ASSUME GuardInv, FramesMatch, ReadInv, FramesMatch', NEW t \in Task, guards[t] # <<>>,
           UNCHANGED guards,
           \A u \in Task : \A i : ~(u = t /\ i = Top(t)) => frames'[u][i] = frames[u][i],
           rx' \in [by : Task, n : 0 .. Quantity],
           \A u \in Task : \A i \in DOMAIN frames[u] :
               Receiving(frames[u][i]) /\ ~(u = t /\ i = Top(t)) => UNCHANGED rx,
           frames'[t][Top(t)].op = frames[t][Top(t)].op,
           Counted(frames'[t][Top(t)]),
           Receiving(frames'[t][Top(t)]) =>
              Guarding(t).is_locked /\ rx'.by = t /\ rx'.n = Len(frames'[t][Top(t)].todo)
    PROVE  ReadInv'
<1>1. SUFFICES ASSUME NEW u \in Task, NEW i \in DOMAIN frames'[u]
               PROVE  Whole(u, i)'
    BY DEF ReadInv
<1>2. i \in DOMAIN frames[u] /\ (u = t => Top(t) \in DOMAIN frames[t])
    <2>1. Len(frames'[u]) = Len(frames[u]) /\ frames'[u] \in Seq(Frame) /\ frames[u] \in Seq(Frame)
        BY DEF FramesMatch
    <2>2. DOMAIN frames'[u] = 1 .. Len(frames'[u]) /\ DOMAIN frames[u] = 1 .. Len(frames[u])
        BY <2>1, LenProperties
    <2>3. QED
        BY <1>1, <2>1, <2>2, Shape
<1>3. Whole(u, i)
    BY <1>2 DEF ReadInv
<1>4. CASE u = t /\ i = Top(t)
    BY <1>3, <1>4 DEF Whole, Guarding, Top
<1>5. CASE ~(u = t /\ i = Top(t))
    <2>1. frames'[u][i] = frames[u][i]
        BY <1>5
    <2>2. Receiving(frames[u][i]) => UNCHANGED rx
        BY <1>2, <1>5
    <2>3. QED
        BY <1>3, <2>1, <2>2 DEF Whole, Top
<1>6. QED
    BY <1>4, <1>5

(* A method that reads has a byte of its own to read. *)
LEMMA ReadsFromBuffer ==
    ASSUME GuardInv, FramesMatch, ReadInv, NEW t \in Task, Talking(t), NextStep(t) = "read"
    PROVE  rx.n > 0 /\ rx.by = t
<1>1. PICK f : f = frames[t][Top(t)]
    OBVIOUS
<1>2. /\ guards[t] # <<>> /\ f.todo # <<>> /\ Head(f.todo) = "read"
    BY <1>1 DEF Talking, NextStep
<1>3. f \in Frame /\ f.todo \in Seq(Stage) /\ Whole(t, Top(t)) /\ Counted(f)
    <2>1. f \in Frame /\ Top(t) \in DOMAIN frames[t]
        BY <1>1, <1>2, Shape
    <2>2. Whole(t, Top(t))
        BY <2>1 DEF ReadInv
    <2>3. QED
        BY <1>1, <2>1, <2>2 DEF Whole, Frame, Stage
<1>4. /\ 1 \in DOMAIN f.todo /\ f.todo[1] = "read" /\ Len(f.todo) \in Nat \ {0}
    BY <1>2, <1>3, HeadTailProperties, EmptySeq, LenProperties
<1>5. f.op = "read_register" /\ Len(f.todo) - 1 < Quantity
    BY <1>3, <1>4 DEF Counted, ReadPlan
<1>6. Receiving(f)
    BY <1>2, <1>4, <1>5, PortAssumption DEF Receiving
<1>7. QED
    BY <1>1, <1>3, <1>4, <1>6 DEF Whole

(* A method goes on: a byte it reads is in the buffer. *)
LEMMA AdvanceReads ==
    ASSUME GuardInv, FramesMatch, ReadInv, NEW t \in Task, Talking(t), UNCHANGED guards,
           NEW got \in Nat, Advance(t, got),
           got = IF NextStep(t) = "read" THEN 1 ELSE 0,
           IF NextStep(t) = "request" THEN rx' = [by |-> t, n |-> Quantity]
           ELSE IF NextStep(t) = "read" THEN rx' = [rx EXCEPT !.n = @ - 1]
           ELSE UNCHANGED rx
    PROVE  ReadInv'
<1>1. PICK f : f = frames[t][Top(t)]
    OBVIOUS
<1>2. /\ guards[t] # <<>> /\ f.todo # <<>> /\ NextStep(t) = Head(f.todo)
      /\ MayTalk(t) /\ Guarding(t).is_locked
    BY <1>1 DEF Talking, NextStep, MayTalk
<1>3. f \in Frame /\ Whole(t, Top(t)) /\ Counted(f)
    BY <1>1, <1>2, Shape DEF ReadInv, Whole
<1>4. PICK b \in BOOLEAN : b = (Tail(f.todo) = <<>>)
    OBVIOUS
<1>5. PICK g : g = [f EXCEPT !.todo = Tail(@), !.got = @ + got, !.ok = b]
    OBVIOUS
<1>6. g.op = f.op /\ g.todo = Tail(f.todo) /\ g.got = f.got + got /\ g.ok = b
    BY <1>3, <1>5 DEF Frame
<1>7. got = IF Head(f.todo) = "read" THEN 1 ELSE 0
    BY <1>2
<1>8. /\ Counted(g)
      /\ Head(f.todo) = "read" => Receiving(f)
      /\ Head(f.todo) = "request" => f.op = "read_register" /\ Len(Tail(f.todo)) = Quantity
      /\ Receiving(g) /\ Head(f.todo) # "request" => Head(f.todo) = "read"
      /\ Len(g.todo) = Len(f.todo) - 1
    <2>1. b <=> Tail(f.todo) = <<>>
        BY <1>4
    <2>2. QED
        BY ONLY <1>2, <1>3, <1>6, <1>7, <2>1, b \in BOOLEAN, got \in Nat, AdvanceCounted
<1>9. FramesMatch' /\ frames' = [frames EXCEPT ![t][Top(t)] = g]
    BY <1>1, <1>4, <1>5, Advanced DEF Advance
<1>10. /\ frames'[t][Top(t)] = g
       /\ \A u \in Task : \A i : ~(u = t /\ i = Top(t)) => frames'[u][i] = frames[u][i]
    <2>1. frames \in [Task -> Seq(Frame)] /\ Top(t) \in DOMAIN frames[t]
        BY <1>2, Shape DEF FramesMatch
    <2>2. QED
        BY <1>9, <2>1
<1>11. /\ rx \in [by : Task, n : 0 .. Quantity]
       /\ Receiving(f) => rx.by = t /\ rx.n = Len(f.todo) /\ Len(f.todo) \in Nat \ {0}
    <2>1. f.todo \in Seq(Stage)
        BY <1>3 DEF Frame, Stage
    <2>2. QED
        BY <1>1, <1>2, <1>3, <2>1, EmptySeq, LenProperties DEF ReadInv, Whole
<1>12. /\ frames'[t][Top(t)].op = frames[t][Top(t)].op /\ Counted(frames'[t][Top(t)])
       /\ UNCHANGED guards
    BY <1>1, <1>6, <1>8, <1>10
<1>13. SUFFICES
          /\ rx' \in [by : Task, n : 0 .. Quantity]
          /\ Receiving(g) => rx'.by = t /\ rx'.n = Len(g.todo)
          /\ \A u \in Task : \A i \in DOMAIN frames[u] :
                 Receiving(frames[u][i]) /\ ~(u = t /\ i = Top(t)) => UNCHANGED rx
    <2>1. Receiving(frames'[t][Top(t)]) =>
              Guarding(t).is_locked /\ rx'.by = t /\ rx'.n = Len(frames'[t][Top(t)].todo)
        BY <1>2, <1>10, <1>13
    <2>2. QED
        BY ONLY GuardInv, FramesMatch, ReadInv, t \in Task, <1>2, <1>9, <1>10, <1>12, <1>13,
                <2>1, TopReads
<1>14. CASE NextStep(t) = "request"
    <2>1. rx' \in [by : Task, n : 0 .. Quantity] /\ rx'.by = t /\ rx'.n = Len(g.todo)
        BY <1>2, <1>6, <1>8, <1>14, PortAssumption
    <2>2. \A u \in Task : \A i \in DOMAIN frames[u] :
               Receiving(frames[u][i]) => u = t /\ i = Top(t)
        BY <1>1, <1>2, <1>8, <1>14, Alone
    <2>3. QED
        BY <2>1, <2>2
<1>15. CASE NextStep(t) = "read"
    <2>1. rx' = [rx EXCEPT !.n = @ - 1] /\ rx.by = t /\ rx.n = Len(f.todo) /\ Receiving(f)
        BY <1>2, <1>8, <1>11, <1>15
    <2>2. rx' \in [by : Task, n : 0 .. Quantity] /\ rx'.by = t /\ rx'.n = Len(g.todo)
        BY <1>8, <1>11, <2>1, PortAssumption
    <2>3. \A u \in Task : \A i \in DOMAIN frames[u] :
               Receiving(frames[u][i]) => u = t /\ i = Top(t)
        BY <1>1, <1>2, <2>1, Alone DEF Receiving
    <2>4. QED
        BY <2>2, <2>3
<1>16. CASE NextStep(t) \notin {"request", "read"}
    BY <1>2, <1>8, <1>11, <1>16
<1>17. QED
    BY <1>14, <1>15, <1>16

(* A method gives up: it will not return true. *)
LEMMA GiveUpReads ==
    ASSUME GuardInv, FramesMatch, ReadInv, NEW t \in Task, Talking(t), UNCHANGED guards,
           GiveUp(t), rx' \in [by : Task, n : 0 .. Quantity],
           NextStep(t) # "request" => UNCHANGED rx
    PROVE  ReadInv'
<1>1. PICK f : f = frames[t][Top(t)]
    OBVIOUS
<1>2. /\ guards[t] # <<>> /\ f.todo # <<>> /\ NextStep(t) = Head(f.todo) /\ MayTalk(t)
    BY <1>1 DEF Talking, NextStep
<1>3. f \in Frame /\ Whole(t, Top(t)) /\ Counted(f)
    BY <1>1, <1>2, Shape DEF ReadInv, Whole
<1>4. FramesMatch'
    BY <1>2, GivenUp
<1>5. frames \in [Task -> Seq(Frame)] /\ Top(t) \in DOMAIN frames[t]
    BY <1>2, Shape DEF FramesMatch
<1>6. PICK g : g = [f EXCEPT !.todo = <<>>]
    OBVIOUS
<1>7. /\ frames'[t][Top(t)] = g
      /\ \A u \in Task : \A i : ~(u = t /\ i = Top(t)) => frames'[u][i] = frames[u][i]
    BY <1>1, <1>5, <1>6 DEF GiveUp
<1>8. g.op = f.op /\ g.todo = <<>> /\ g.ok = f.ok /\ g.got = f.got
    BY <1>3, <1>6 DEF Frame
<1>9. Counted(g) /\ ~Receiving(g)
    BY <1>2, <1>3, <1>8 DEF Counted, Receiving, ReadPlan
<1>10. NextStep(t) = "request" => f.op = "read_register"
    <2>1. f.todo \in Seq(Stage)
        BY <1>3 DEF Frame, Stage
    <2>2. 1 \in DOMAIN f.todo /\ Head(f.todo) = f.todo[1]
        BY <1>2, <2>1, HeadTailProperties, EmptySeq, LenProperties
    <2>3. QED
        BY <1>2, <1>3, <2>2 DEF Counted
<1>11. \A u \in Task : \A i \in DOMAIN frames[u] :
               Receiving(frames[u][i]) /\ ~(u = t /\ i = Top(t)) => UNCHANGED rx
    BY <1>1, <1>2, <1>10, Alone
<1>12. QED
    BY <1>1, <1>2, <1>4, <1>7, <1>8, <1>9, <1>11, TopReads

(* The stacks of guards and methods grow, shrink, or a wait ends: what is  *)
(* being read is under the same guards as before.                          *)
LEMMA StacksRead ==
    ASSUME ReadInv, UNCHANGED rx, NEW t \in Task,
           \A u \in Task : u # t => guards'[u] = guards[u] /\ frames'[u] = frames[u],
           \A i \in DOMAIN frames'[t] :
               \/ /\ i \in DOMAIN frames[t] /\ frames'[t][i] = frames[t][i]
                  /\ guards'[t][i].mutex = guards[t][i].mutex
                  /\ guards[t][i].is_locked => guards'[t][i].is_locked
                  /\ i < Top(t)' => frames[t][i].op = "Locked"
               \/ Whole(t, i)'
    PROVE  ReadInv'
<1>1. SUFFICES ASSUME NEW u \in Task, NEW i \in DOMAIN frames'[u]
               PROVE  Whole(u, i)'
    BY DEF ReadInv
<1>2. CASE u # t
    BY <1>1, <1>2 DEF ReadInv, Whole, Top
<1>3. CASE u = t /\ ~Whole(t, i)'
    <2>1. i \in DOMAIN frames[t] /\ Whole(t, i)
        BY <1>1, <1>3 DEF ReadInv
    <2>2. QED
        BY <1>1, <1>3, <2>1 DEF Whole
<1>4. QED
    BY <1>2, <1>3

(* A method is called. *)
LEMMA OpenReads ==
    ASSUME GuardInv, FramesMatch, ReadInv,
           NEW t \in Task, NEW op \in Method, NEW wait \in Wait, Open(t, op, wait)
    PROVE  ReadInv'
<1>1. /\ PortOf(op) \in MutexOf("UniqueLock") /\ Construct(t, "UniqueLock", PortOf(op), wait)
      /\ "UniqueLock" \in Kind
    BY PortAssumption DEF Open, MutexOf, PlainKind
<1>2. PICK n \in Nat : n = Len(guards[t])
    BY Shape
<1>3. PICK hs \in Seq(Guard) :
          /\ guards' = [guards EXCEPT ![t] = hs]
          /\ Len(hs) = n + 1
          /\ \A i \in 1 .. n : hs[i] = guards[t][i]
          /\ hs[n + 1].mutex = PortOf(op)
    BY <1>1, <1>2, ConstructPushes
<1>4. PICK f : f = [op |-> op, todo |-> Body(op), got |-> 0, ok |-> FALSE]
    OBVIOUS
<1>5. f \in Frame /\ f.op = op /\ Counted(f) /\ ~Receiving(f)
    BY <1>4, BodySound, BodyCounted DEF Frame, Stage
<1>6. PICK fs : fs = Append(frames[t], f)
    OBVIOUS
<1>7. frames' = [frames EXCEPT ![t] = fs] /\ UNCHANGED rx
    BY <1>4, <1>6 DEF Open
<1>8. /\ fs \in Seq(Frame) /\ DOMAIN fs = 1 .. n + 1
      /\ \A i \in 1 .. n : fs[i] = frames[t][i]
      /\ fs[n + 1] = f
    <2>1. frames[t] \in Seq(Frame) /\ Len(frames[t]) = n
        BY <1>2, Shape
    <2>2. QED
        BY <1>5, <1>6, <2>1, AppendProperties, LenProperties
<1>9. \A u \in Task : /\ guards'[u] = IF u = t THEN hs ELSE guards[u]
                      /\ frames'[u] = IF u = t THEN fs ELSE frames[u]
    BY <1>3, <1>7 DEF FramesMatch, GuardInv, TypeOK
<1>10. ASSUME NEW i \in DOMAIN frames'[t]
       PROVE  \/ /\ i \in DOMAIN frames[t] /\ frames'[t][i] = frames[t][i]
                 /\ guards'[t][i].mutex = guards[t][i].mutex
                 /\ guards[t][i].is_locked => guards'[t][i].is_locked
                 /\ i < Top(t)' => frames[t][i].op = "Locked"
              \/ Whole(t, i)'
    <2>1. DOMAIN frames[t] = 1 .. n
        BY <1>2, Shape
    <2>2. CASE i \in 1 .. n
        <3>1. /\ guards[t] # <<>> => frames[t][Top(t)].op = "Locked"
              /\ guards[t] # <<>> /\ Top(t) = n
            BY <1>2, <2>2, Shape, EmptySeq DEF Open, Top
        <3>2. Whole(t, i)
            BY <2>1, <2>2 DEF ReadInv
        <3>3. frames[t][i].op = "Locked"
            <4>1. i = n \/ i < n
                BY <2>2
            <4>2. QED
                BY <3>1, <3>2, <4>1 DEF Whole
        <3>4. frames'[t][i] = frames[t][i] /\ guards'[t][i] = guards[t][i]
            BY <1>3, <1>8, <1>9, <2>2
        <3>5. QED
            BY <2>1, <2>2, <3>3, <3>4
    <2>3. CASE i = n + 1
        <3>1. frames'[t][i] = f /\ guards'[t][i].mutex = PortOf(op) /\ Top(t)' = n + 1
            BY <1>3, <1>8, <1>9, <2>3 DEF Top
        <3>2. QED
            BY <1>5, <2>3, <3>1 DEF Whole
    <2>4. QED
        BY <1>8, <1>9, <1>10, <2>2, <2>3
<1>11. QED
    BY <1>7, <1>9, <1>10, StacksRead

(* A method returns, to the Locked it was called in the scope of, if any. *)
LEMMA CloseReads ==
    ASSUME GuardInv, FramesMatch, ReadInv, NEW t \in Task, Close(t)
    PROVE  ReadInv'
<1>1. PICK n \in Nat : n = Len(guards[t])
    BY Shape
<1>2. PICK hs, fs : hs = SubSeq(guards[t], 1, n - 1) /\ fs = SubSeq(frames[t], 1, n - 1)
    OBVIOUS
<1>3. /\ guards[t] # <<>> /\ UNCHANGED rx
      /\ guards' = [guards EXCEPT ![t] = hs] /\ frames' = [frames EXCEPT ![t] = fs]
    BY <1>1, <1>2, Shape DEF Close, Destroy
<1>4. /\ guards[t] \in Seq(Guard) /\ frames[t] \in Seq(Frame) /\ n \in Nat \ {0}
      /\ DOMAIN guards[t] = 1 .. n /\ DOMAIN frames[t] = 1 .. n
    BY <1>1, <1>3, Shape, EmptySeq
<1>5. /\ hs \in Seq(Guard) /\ Len(hs) = n - 1 /\ fs \in Seq(Frame) /\ Len(fs) = n - 1
      /\ \A i \in 1 .. n - 1 : hs[i] = guards[t][i] /\ fs[i] = frames[t][i]
    <2>1. \A i \in 1 .. n - 1 : guards[t][i] \in Guard /\ frames[t][i] \in Frame
        BY <1>1, <1>4, Shape, ElementOfSeq
    <2>2. QED
        BY <1>2, <1>4, <2>1, SubSeqProperties
<1>6. DOMAIN fs = 1 .. n - 1
    BY <1>5, LenProperties
<1>7. \A u \in Task : /\ guards'[u] = IF u = t THEN hs ELSE guards[u]
                      /\ frames'[u] = IF u = t THEN fs ELSE frames[u]
    BY <1>3 DEF FramesMatch, GuardInv, TypeOK
<1>8. ASSUME NEW i \in DOMAIN frames'[t]
      PROVE  /\ i \in DOMAIN frames[t] /\ frames'[t][i] = frames[t][i]
             /\ guards'[t][i].mutex = guards[t][i].mutex
             /\ guards[t][i].is_locked => guards'[t][i].is_locked
             /\ i < Top(t)' => frames[t][i].op = "Locked"
    <2>1. i \in 1 .. n - 1
        BY <1>6, <1>7, <1>8
    <2>2. i \in DOMAIN frames[t] /\ i < n
        BY <1>4, <2>1
    <2>3. Whole(t, i)
        BY <2>2 DEF ReadInv
    <2>4. frames'[t][i] = frames[t][i] /\ guards'[t][i] = guards[t][i]
        BY <1>5, <1>7, <2>1
    <2>5. frames[t][i].op = "Locked"
        BY <1>1, <2>2, <2>3 DEF Whole, Top
    <2>6. QED
        BY <2>2, <2>4, <2>5
<1>9. QED
    BY <1>3, <1>7, <1>8, StacksRead

(* A wait ends: the guard that waited was not locked. *)
LEMMA WakeReads ==
    ASSUME GuardInv, FramesMatch, ReadInv, NEW t \in Task, Wake(t)
    PROVE  ReadInv'
<1>1. PICK i : i = blocked[t].guard
    OBVIOUS
<1>2. UNCHANGED frames /\ UNCHANGED rx /\ ~Runs(t)
    <2>1. UNCHANGED frames /\ UNCHANGED rx
        BY DEF Wake, ports
    <2>2. CASE Grant(t)
        BY <2>1, <2>2 DEF Grant
    <2>3. CASE Timeout(t)
        BY <2>1, <2>3 DEF Timeout, Runs, Running
    <2>4. QED
        BY <2>2, <2>3 DEF Wake
<1>3. PICK b \in BOOLEAN : guards' = [guards EXCEPT ![t] = WithLocked(@, i, b)]
    BY <1>1 DEF Wake, Grant, Timeout
<1>4. /\ guards \in [Task -> Seq(Guard)] /\ guards[t] \in Seq(Guard)
      /\ i \in DOMAIN guards[t] /\ ~guards[t][i].is_locked
      /\ DOMAIN guards[t] = 1 .. Len(guards[t]) /\ DOMAIN frames[t] = DOMAIN guards[t]
    BY <1>1, <1>2, Shape DEF GuardInv, TypeOK, WaitsUnlocked, LockedOn, Locked
<1>5. PICK e : e = [guards[t][i] EXCEPT !.is_locked = b]
    OBVIOUS
<1>6. guards[t][i] \in Guard
    BY <1>4, ElementOfSeq
<1>7. e \in Guard /\ e.mutex = guards[t][i].mutex
    BY <1>5, <1>6 DEF Guard
<1>8. PICK hs : hs = [guards[t] EXCEPT ![i] = e]
    OBVIOUS
<1>9. /\ hs \in Seq(Guard) /\ Len(hs) = Len(guards[t])
      /\ \A j \in 1 .. Len(guards[t]) : hs[j] = IF j = i THEN e ELSE guards[t][j]
    BY <1>4, <1>7, <1>8, ExceptSeq
<1>10. \A u \in Task : guards'[u] = IF u = t THEN hs ELSE guards[u]
    BY <1>3, <1>4, <1>5, <1>8 DEF WithLocked
<1>11. Top(t)' = Top(t)
    BY <1>9, <1>10 DEF Top
<1>12. ASSUME NEW j \in DOMAIN frames'[t]
       PROVE  /\ j \in DOMAIN frames[t] /\ frames'[t][j] = frames[t][j]
              /\ guards'[t][j].mutex = guards[t][j].mutex
              /\ guards[t][j].is_locked => guards'[t][j].is_locked
              /\ j < Top(t)' => frames[t][j].op = "Locked"
    <2>1. j \in DOMAIN frames[t] /\ j \in 1 .. Len(guards[t]) /\ Whole(t, j)
        BY <1>2, <1>4, <1>12 DEF ReadInv
    <2>2. QED
        BY <1>2, <1>4, <1>7, <1>9, <1>10, <1>11, <2>1 DEF Whole
<1>13. QED
    BY <1>2, <1>10, <1>12, StacksRead

-----------------------------------------------------------------------------
(* At first no transaction is open. *)
THEOREM PortInvInit == PortInit => PortInv
<1> SUFFICES ASSUME PortInit
             PROVE  PortInv
    OBVIOUS
<1>1. GuardInv
    BY GuardInvInit DEF PortInit
<1>2. /\ \A t \in Task : frames[t] = <<>> /\ guards[t] = <<>>
      /\ frames = [t \in Task |-> <<>>] /\ <<>> \in Seq(Frame) /\ DOMAIN <<>> = {}
    BY DEF PortInit, Init
<1>3. FramesMatch
    BY <1>2 DEF FramesMatch
<1>4. BusAnswered
    BY GuardAssumption DEF PortInit, BusAnswered
<1>5. QED
    BY <1>1, <1>3, <1>4 DEF PortInv

(* No call, return, step on the hardware, grant or timeout opens a         *)
(* transaction that no guard answers for.                                  *)
THEOREM PortInvNext == PortInv /\ [PortNext]_portVars => PortInv'
<1> SUFFICES ASSUME PortInv, [PortNext]_portVars
             PROVE  PortInv'
    OBVIOUS
<1>1. GuardInv'
    BY GuardStep, GuardInvNext DEF PortInv
<1>2. GuardInv /\ FramesMatch /\ BusAnswered
    BY DEF PortInv
<1>3. ASSUME UNCHANGED portVars
      PROVE  FramesMatch' /\ BusAnswered'
    BY <1>2, <1>3 DEF portVars, ports, vars, FramesMatch, BusAnswered
<1>4. ASSUME NEW t \in Task, PortStep(t)
      PROVE  FramesMatch' /\ BusAnswered'
    <2>1. ASSUME NEW op \in Method, NEW wait \in Wait, Open(t, op, wait)
          PROVE  FramesMatch' /\ BusAnswered'
        BY <1>2, <2>1, OpenKeeps
    <2>2. CASE Talk(t)
        BY <1>2, <2>2, TalkKeeps
    <2>3. CASE Finish(t)
        BY <1>2, <2>3, FinishKeeps
    <2>4. CASE Address(t)
        BY <1>2, <2>4, AddressKeeps
    <2>5. CASE Request(t)
        BY <1>2, <2>5, RequestKeeps
    <2>6. CASE Read(t)
        BY <1>2, <2>6, ReadKeeps
    <2>7. CASE LockedPrint(t)
        BY <1>2, <2>7, LockedPrintKeeps
    <2>8. CASE Close(t)
        BY <1>2, <2>8, CloseKeeps
    <2>9. CASE Wake(t)
        BY <1>2, <2>9, WakeKeeps
    <2>10. QED
        BY <1>4, <2>1, <2>2, <2>3, <2>4, <2>5, <2>6, <2>7, <2>8, <2>9 DEF PortStep
<1>5. FramesMatch' /\ BusAnswered'
    BY <1>3, <1>4 DEF PortNext
<1>6. QED
    BY <1>1, <1>5 DEF PortInv

(* At first nothing is being read. *)
LEMMA ReadInvInit == PortInit => ReadInv
<1> SUFFICES ASSUME PortInit
             PROVE  ReadInv
    OBVIOUS
<1>1. rx \in [by : Task, n : 0 .. Quantity]
    BY PortAssumption DEF PortInit
<1>2. \A t \in Task : DOMAIN frames[t] = {}
    BY DEF PortInit
<1>3. QED
    BY <1>1, <1>2 DEF ReadInv

(* No step of any task takes a byte out of another's read. *)
LEMMA ReadInvNext == PortInv /\ ReadInv /\ [PortNext]_portVars => ReadInv'
<1> SUFFICES ASSUME PortInv, ReadInv, [PortNext]_portVars
             PROVE  ReadInv'
    OBVIOUS
<1>1. GuardInv /\ FramesMatch /\ rx \in [by : Task, n : 0 .. Quantity]
    BY DEF PortInv, ReadInv
<1>2. CASE UNCHANGED portVars
    BY <1>2 DEF portVars, ports, vars, ReadInv, Whole, Top
<1>3. ASSUME NEW t \in Task, PortStep(t)
      PROVE  ReadInv'
    <2>1. ASSUME NEW op \in Method, NEW wait \in Wait, Open(t, op, wait)
          PROVE  ReadInv'
        BY <1>1, <2>1, OpenReads
    <2>2. CASE Talk(t)
        <3>1. /\ Talking(t) /\ UNCHANGED guards /\ UNCHANGED rx /\ Advance(t, 0)
              /\ NextStep(t) \notin {"read", "request"}
            BY <2>2 DEF Talk, vars
        <3>2. QED
            BY <1>1, <3>1, AdvanceReads
    <2>3. CASE Finish(t)
        <3>1. /\ Talking(t) /\ UNCHANGED guards /\ UNCHANGED rx
              /\ Advance(t, 0) \/ GiveUp(t)
              /\ NextStep(t) \notin {"read", "request"}
            BY <2>3 DEF Finish, vars
        <3>2. CASE Advance(t, 0)
            BY <1>1, <3>1, <3>2, AdvanceReads
        <3>3. CASE GiveUp(t)
            BY <1>1, <3>1, <3>3, GiveUpReads
        <3>4. QED
            BY <3>1, <3>2, <3>3
    <2>4. CASE Address(t)
        <3>1. /\ Talking(t) /\ UNCHANGED guards /\ UNCHANGED rx
              /\ Advance(t, 0) \/ GiveUp(t)
              /\ NextStep(t) \notin {"read", "request"}
            BY <2>4 DEF Address, vars
        <3>2. CASE Advance(t, 0)
            BY <1>1, <3>1, <3>2, AdvanceReads
        <3>3. CASE GiveUp(t)
            BY <1>1, <3>1, <3>3, GiveUpReads
        <3>4. QED
            BY <3>1, <3>2, <3>3
    <2>5. CASE Request(t)
        <3>1. PICK received \in 0 .. Quantity :
                 /\ rx' = [by |-> t, n |-> received]
                 /\ IF Enough(received) THEN Advance(t, 0) ELSE GiveUp(t)
            BY <2>5 DEF Request
        <3>2. Talking(t) /\ UNCHANGED guards /\ NextStep(t) = "request"
            BY <2>5 DEF Request, vars
        <3>3. CASE Enough(received)
            <4>1. rx' = [by |-> t, n |-> Quantity] /\ Advance(t, 0)
                BY <3>1, <3>3 DEF Enough
            <4>2. QED
                BY <1>1, <3>2, <4>1, AdvanceReads
        <3>4. CASE ~Enough(received)
            <4>1. rx' \in [by : Task, n : 0 .. Quantity] /\ GiveUp(t)
                BY <3>1, <3>4
            <4>2. QED
                BY <1>1, <3>2, <4>1, GiveUpReads
        <3>5. QED
            BY <3>3, <3>4
    <2>6. CASE Read(t)
        <3>1. /\ Talking(t) /\ UNCHANGED guards /\ NextStep(t) = "read"
              /\ rx' = [rx EXCEPT !.n = IF @ > 0 THEN @ - 1 ELSE 0]
              /\ Advance(t, IF rx.n > 0 /\ rx.by = t THEN 1 ELSE 0)
            BY <2>6 DEF Read, vars
        <3>2. rx.n > 0 /\ rx.by = t
            BY <1>1, <3>1, ReadsFromBuffer
        <3>3. rx' = [rx EXCEPT !.n = @ - 1] /\ Advance(t, 1)
            BY <3>1, <3>2
        <3>4. QED
            BY <1>1, <3>1, <3>3, AdvanceReads
    <2>7. CASE LockedPrint(t)
        BY <2>7 DEF LockedPrint, vars, ReadInv, Whole, Top
    <2>8. CASE Close(t)
        BY <1>1, <2>8, CloseReads
    <2>9. CASE Wake(t)
        BY <1>1, <2>9, WakeReads
    <2>10. QED
        BY <1>3, <2>1, <2>2, <2>3, <2>4, <2>5, <2>6, <2>7, <2>8, <2>9 DEF PortStep
<1>4. QED
    BY <1>2, <1>3 DEF PortNext

(* The reachable states. *)
THEOREM PortInvAlways == PortSpec => [](PortInv /\ ReadInv)
BY PortInvInit, PortInvNext, ReadInvInit, ReadInvNext, PTL DEF PortSpec

(* Every task has a method for each of its guards, and the hardware is in  *)
(* a state of its own.                                                     *)
THEOREM PortTypeCorrect == PortSpec => []PortTypeOK
<1>1. PortInv /\ ReadInv => PortTypeOK
    BY DEF PortInv, GuardInv, FramesMatch, BusAnswered, ReadInv, PortTypeOK
<1>2. QED
    BY <1>1, PortInvAlways, PTL

(* A read_register that returns true has filled its buffer with the bytes  *)
(* of its own request, for any Quantity, whatever the device sends and     *)
(* whatever the other tasks do with the port meanwhile.                    *)
THEOREM ReadsWhole == PortSpec => []ReadsAreWhole
<1>1. ReadInv => ReadsAreWhole
    BY DEF ReadInv, Whole, Counted, ReadsAreWhole
<1>2. QED
    BY <1>1, PortInvAlways, PTL

(* A line, a register access or a transfer is never mixed with another: as *)
(* long as it is open its task has the mutex of the port, for any number   *)
(* of tasks, of bytes and of nested calls.                                 *)
THEOREM NeverMixed == PortSpec => []TransactionsUnderLock
<1>1. PortInv => TransactionsUnderLock
    <2>1. SUFFICES ASSUME PortInv, NEW m \in AnyMutex, bus[m] \in Task
                   PROVE  holder[m] = bus[m]
        BY DEF TransactionsUnderLock
    <2>2. bus[m] \in Task /\ \E i : Answers(guards[bus[m]], frames[bus[m]], i, m)
        BY <2>1 DEF PortInv, BusAnswered
    <2>3. LockedOn(bus[m], m) # {}
        BY <2>2 DEF Answers, LockedOn, Locked
    <2>4. OwnsLockIsTrue
        BY <2>1 DEF PortInv, GuardInv, Agree
    <2>5. QED
        BY <2>2, <2>3, <2>4 DEF OwnsLockIsTrue
<1>2. QED
    BY <1>1, PortInvInit, PortInvNext, PTL DEF PortSpec
=============================================================================
