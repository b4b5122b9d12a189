------------------------ MODULE SoftwareTimersProofs ------------------------
(***************************************************************************)
(* What a software timer promises, for any number of tasks, interrupts and *)
(* calls, any queue length and any mix of timeouts, where one task starts  *)
(* it (and on_timer() may restart it).                                     *)
(*                                                                         *)
(* Why one: start() of two tasks that both find no handle would initialise *)
(* xBuffer twice, the second time perhaps while the timer runs.            *)
(***************************************************************************)
EXTENDS SoftwareTimers, TLAPS

OneStarter == \A c, d \in Starter \ {Daemon} : c = d

Runs(cmd) == cmd \in {"start", "change"}

-----------------------------------------------------------------------------
(* What is left of a call fits what it was.                                *)
Remaining(op) ==
    CASE op = "start"      -> {<<"create", "start">>, <<"change", "start">>, <<"start">>, <<>>}
      [] op = "stop"       -> {<<"stop">>, <<>>}
      [] op = "reset"      -> {<<"start">>, <<>>}
      [] op = "set_period" -> {<<"change">>, <<>>}
      [] op = "destroy"    -> {<<"stop", "delete">>, <<"delete">>, <<>>}
      [] op = "none"       -> {<<>>}

Orderly ==
    \A c \in Caller :
        /\ call[c].todo \in Remaining(call[c].op)
        /\ call[c].op = "none" => call[c] = Idle
        /\ call[c].op = "destroy" => c \in Task /\ call[c].wait = "forever"
        /\ c \in calm => call[c].op = "stop"

(* Nobody else uses the object when it is destroyed, except on_timer().    *)
Lifetime ==
    /\ object = "whole" => \A c \in Caller : call[c].op # "destroy"
    /\ object = "dead" => \A c \in Caller \ {Daemon} : call[c] = Idle
    /\ \A c, d \in Caller \ {Daemon} :
          object = "base" /\ call[c] # Idle /\ call[d] # Idle => c = d
    /\ \A c \in Caller \ {Daemon} : object = "base" /\ call[c] # Idle => call[c].op = "destroy"

(* Without a handle the kernel knows nothing of the timer: commands wait   *)
(* for the creation, which is under way at most once.                      *)
Creating(c) == call[c].todo = <<"create", "start">>

Unknown == ~active /\ Ours(queue) = {} /\ daemon # "callback"

Handled ==
    /\ \A c \in Caller : Creating(c) => c \in Starter \ {Daemon} /\ ~xHandle /\ object = "whole"
    /\ ~xHandle /\ object # "dead" =>
          Unknown /\ \A c \in Caller : call[c].todo = <<>> \/ Creating(c)

DaemonAtRest == daemon # "callback" => call[Daemon] = Idle

(* Nothing will make the timer run, unless somebody posts a command.       *)
Quiet ==
    /\ daemon # "callback"
    /\ \A i \in DOMAIN queue : ~Runs(queue[i])
    /\ active => \E i \in DOMAIN queue : queue[i] \in {"stop", "delete"}

Stopped(c) == c \in calm /\ call[c].todo = <<>> /\ call[c].ok

Destroyed(c) == call[c].op = "destroy" /\ call[c].todo = <<>>

Silence ==
    build.DaemonFirst =>
        /\ silent \/ object = "dead" \/ (\E c \in Caller : Stopped(c) \/ Destroyed(c)) => Quiet
        /\ object = "dead" => Unknown

TimerInv ==
    /\ TypeOK /\ Orderly /\ Lifetime /\ Handled /\ DaemonAtRest /\ Silence
    /\ LastCallWins /\ NeverRecreated
-----------------------------------------------------------------------------
(* The command queue.                                                      *)

Word == Command \cup {"other"}

(* A timer with active = a and the commands q to come will run.            *)
WillRunWith(a, q) ==
    \/ a /\ \A i \in DOMAIN q : q[i] = "other"
    \/ \E i \in DOMAIN q : Runs(q[i]) /\ \A j \in DOMAIN q : q[j] # "other" => j <= i

LEMMA WillRunIs == WillRun <=> WillRunWith(active, queue)
BY DEF WillRun, WillRunWith, Ours, After, Runs

LEMMA WillRunIsNext == WillRun' <=> WillRunWith(active', queue')
BY DEF WillRun, WillRunWith, Ours, After, Runs

(* The last command of this timer decides.                                 *)
LEMMA AppendDecides ==
    ASSUME NEW q \in Seq(Word), NEW a, NEW cmd \in Command
    PROVE  WillRunWith(a, Append(q, cmd)) <=> Runs(cmd)
<1> DEFINE p == Append(q, cmd)
<1> SUFFICES WillRunWith(a, p) <=> Runs(cmd)
    OBVIOUS
<1>1. DOMAIN p = 1 .. Len(q) + 1 /\ p[Len(q) + 1] = cmd /\ cmd # "other" /\ Len(q) \in Nat
    BY DEF Word, Command
<1> HIDE DEF p
<1>2. ASSUME Runs(cmd)
      PROVE  WillRunWith(a, p)
    <2>1. Runs(p[Len(q) + 1]) /\ \A j \in DOMAIN p : p[j] # "other" => j <= Len(q) + 1
        BY <1>1, <1>2
    <2>2. QED
        BY <1>1, <2>1 DEF WillRunWith
<1>3. ASSUME WillRunWith(a, p)
      PROVE  Runs(cmd)
    <2>1. PICK i \in DOMAIN p : Runs(p[i]) /\ \A j \in DOMAIN p : p[j] # "other" => j <= i
        BY <1>1, <1>3 DEF WillRunWith
    <2>2. i = Len(q) + 1
        BY <1>1, <2>1
    <2>3. QED
        BY <1>1, <2>1, <2>2
<1>4. QED
    BY <1>2, <1>3

(* A command to another timer decides nothing.                             *)
LEMMA OtherDecidesNothing ==
    ASSUME NEW q \in Seq(Word), NEW a
    PROVE  WillRunWith(a, Append(q, "other")) <=> WillRunWith(a, q)
<1> DEFINE p == Append(q, "other")
<1>1. /\ DOMAIN p = 1 .. Len(q) + 1 /\ DOMAIN q = 1 .. Len(q) /\ Len(q) \in Nat
      /\ p[Len(q) + 1] = "other" /\ \A i \in DOMAIN q : p[i] = q[i]
    OBVIOUS
<1> HIDE DEF p
<1>2. (\A i \in DOMAIN p : p[i] = "other") <=> (\A i \in DOMAIN q : q[i] = "other")
    BY <1>1
<1>3. ASSUME NEW i \in DOMAIN q
      PROVE  (\A j \in DOMAIN p : p[j] # "other" => j <= i)
             <=> (\A j \in DOMAIN q : q[j] # "other" => j <= i)
    BY <1>1
<1>4. ~Runs(p[Len(q) + 1])
    BY <1>1 DEF Runs
<1>5. (\E i \in DOMAIN p : Runs(p[i]) /\ \A j \in DOMAIN p : p[j] # "other" => j <= i)
      <=> (\E i \in DOMAIN q : Runs(q[i]) /\ \A j \in DOMAIN q : q[j] # "other" => j <= i)
    BY <1>1, <1>3, <1>4
<1>6. WillRunWith(a, p) <=> WillRunWith(a, q)
    BY <1>2, <1>5 DEF WillRunWith
<1>7. QED
    BY <1>6 DEF p

(* To carry out the first command changes nothing about the outcome.       *)
LEMMA HeadIsDecided ==
    ASSUME NEW q \in Seq(Word), q # <<>>, NEW a,
           NEW b, b <=> IF Head(q) = "other" THEN a ELSE Runs(Head(q))
    PROVE  WillRunWith(b, Tail(q)) <=> WillRunWith(a, q)
<1> DEFINE p == Tail(q)
<1>1. /\ Len(q) \in Nat \ {0} /\ DOMAIN q = 1 .. Len(q) /\ DOMAIN p = 1 .. Len(q) - 1
      /\ Head(q) = q[1]
      /\ \A i \in DOMAIN p : p[i] = q[i + 1]
    OBVIOUS
<1> HIDE DEF p
<1>2. CASE \A i \in DOMAIN p : p[i] = "other"
    <2>1. \A i \in DOMAIN q : i # 1 => q[i] = "other"
        <3>1. ASSUME NEW i \in DOMAIN q, i # 1
              PROVE  q[i] = "other"
            <4>1. i - 1 \in DOMAIN p /\ q[(i - 1) + 1] = q[i]
                BY <1>1, <3>1
            <4>2. QED
                BY <1>1, <1>2, <4>1
        <3>2. QED
            BY <3>1
    <2>2. ~\E i \in DOMAIN p : Runs(p[i])
        BY <1>2 DEF Runs
    <2>3. WillRunWith(b, p) <=> b
        BY <1>2, <2>2 DEF WillRunWith
    <2>4. CASE q[1] = "other"
        <3>1. \A i \in DOMAIN q : q[i] = "other"
            BY <2>1, <2>4
        <3>2. WillRunWith(a, q) <=> a
            BY <3>1 DEF WillRunWith, Runs
        <3>3. QED
            BY <1>1, <2>3, <2>4, <3>2 DEF p
    <2>5. CASE q[1] # "other"
        <3>1. 1 \in DOMAIN q /\ \A j \in DOMAIN q : q[j] # "other" => j <= 1
            BY <1>1, <2>1
        <3>2. WillRunWith(a, q) <=> Runs(q[1])
            BY <2>1, <2>5, <3>1 DEF WillRunWith, Runs
        <3>3. QED
            BY <1>1, <2>3, <2>5, <3>2 DEF p
    <2>6. QED
        BY <2>4, <2>5
<1>3. CASE \E i \in DOMAIN p : p[i] # "other"
    <2>1. PICK k \in DOMAIN p : p[k] # "other"
        BY <1>3
    <2>2. k + 1 \in DOMAIN q /\ q[k + 1] # "other" /\ k + 1 > 1
        BY <1>1, <2>1
    <2>3. ASSUME NEW i \in DOMAIN p, Runs(p[i]), \A j \in DOMAIN p : p[j] # "other" => j <= i
          PROVE  WillRunWith(a, q)
        <3>1. i + 1 \in DOMAIN q /\ Runs(q[i + 1])
            BY <1>1, <2>3
        <3>2. ASSUME NEW j \in DOMAIN q, q[j] # "other"
              PROVE  j <= i + 1
            <4>1. CASE j = 1
                BY <1>1, <4>1
            <4>2. CASE j # 1
                <5>1. j - 1 \in DOMAIN p /\ q[(j - 1) + 1] = q[j]
                    BY <1>1, <4>2
                <5>2. j - 1 <= i
                    BY <1>1, <2>3, <3>2, <5>1
                <5>3. QED
                    BY <1>1, <5>2
            <4>3. QED
                BY <4>1, <4>2
        <3>3. QED
            BY <3>1, <3>2 DEF WillRunWith
    <2>4. ASSUME NEW i \in DOMAIN q, Runs(q[i]), \A j \in DOMAIN q : q[j] # "other" => j <= i
          PROVE  WillRunWith(b, p)
        <3>1. i - 1 \in DOMAIN p /\ q[(i - 1) + 1] = q[i]
            BY <1>1, <2>2, <2>4
        <3>2. Runs(p[i - 1])
            BY <1>1, <2>4, <3>1
        <3>3. \A j \in DOMAIN p : p[j] # "other" => j <= i - 1
            BY <1>1, <2>4
        <3>4. QED
            BY <3>1, <3>2, <3>3 DEF WillRunWith
    <2>5. WillRunWith(b, p) => WillRunWith(a, q)
        BY <2>1, <2>3 DEF WillRunWith
    <2>6. WillRunWith(a, q) => WillRunWith(b, p)
        BY <2>2, <2>4 DEF WillRunWith
    <2>7. QED
        BY <2>5, <2>6 DEF p
<1>4. QED
    BY <1>2, <1>3
-----------------------------------------------------------------------------
(* Types.                                                                  *)

(* The commands of each method.                                            *)
LEMMA CommandsOf ==
    /\ Commands("start") = IF xHandle THEN <<"change", "start">> ELSE <<"create", "start">>
    /\ Commands("stop") = IF xHandle THEN <<"stop">> ELSE <<>>
    /\ Commands("reset") = IF xHandle THEN <<"start">> ELSE <<>>
    /\ Commands("set_period") = IF xHandle THEN <<"change">> ELSE <<>>
    /\ Commands("destroy") = IF xHandle THEN <<"stop", "delete">> ELSE <<>>
BY DEF Commands, StartCommands, StopCommands, DeleteCommands

LEMMA CommandsFit ==
    ASSUME NEW op \in Operation \cup {"destroy"}
    PROVE  Commands(op) \in Remaining(op) /\ Commands(op) \in Seq(Command \cup {"create"})
<1>1. /\ <<>> \in Seq(Command \cup {"create"})
      /\ \A x \in Command \cup {"create"} : <<x>> \in Seq(Command \cup {"create"})
      /\ \A x, y \in Command \cup {"create"} : <<x, y>> \in Seq(Command \cup {"create"})
    OBVIOUS
<1>2. op \in {"start", "stop", "reset", "set_period", "destroy"}
    BY DEF Operation
<1>3. Commands(op) \in Remaining(op)
    BY <1>2, CommandsOf, Zenon DEF Remaining
<1>4. Commands(op) \in Seq(Command \cup {"create"})
    BY <1>1, <1>2, CommandsOf DEF Command
<1>5. QED
    BY <1>3, <1>4

Call == [op : Operation \cup {"destroy", "none"}, todo : Seq(Command \cup {"create"}),
         wait : {"none", "finite", "forever"}, ok : BOOLEAN]

(* A call that goes on or is given up stays a call.                        *)
LEMMA CallGoesOn ==
    ASSUME call \in [Caller -> Call], NEW c \in Caller, call[c].todo # <<>>,
           Advance(c) \/ Abandon(c)
    PROVE  call' \in [Caller -> Call]
<1>1. Tail(call[c].todo) \in Seq(Command \cup {"create"})
    BY DEF Call
<1>2. CASE Advance(c)
    BY <1>1, <1>2 DEF Advance, Call
<1>3. CASE Abandon(c)
    <2>1. <<>> \in Seq(Command \cup {"create"})
        OBVIOUS
    <2>2. [call[c] EXCEPT !.todo = <<>>, !.ok = FALSE] \in Call
        BY <2>1 DEF Call
    <2>3. call' = [call EXCEPT ![c] = [call[c] EXCEPT !.todo = <<>>, !.ok = FALSE]]
        BY <1>3 DEF Abandon
    <2>4. QED
        BY <2>2, <2>3
<1>4. QED
    BY <1>2, <1>3

LEMMA TimerTypeInit == Init => TypeOK
<1> SUFFICES ASSUME Init
             PROVE  TypeOK
    OBVIOUS
<1>1. Idle \in Call
    BY DEF Idle, Call
<1>2. call \in [Caller -> Call]
    BY <1>1 DEF Init
<1>3. calls \in [Caller -> Nat] /\ \A c \in Caller : calls[c] <= MaxCalls[c]
    BY TimerAssumption DEF Init
<1>4. queue \in Seq(Command \cup {"other"}) /\ Len(queue) <= QueueLength
    BY TimerAssumption DEF Init
<1>5. QED
    BY <1>2, <1>3, <1>4 DEF Init, TypeOK, Call

(* Whatever a caller asks for, and however long it is ready to wait.       *)
LEMMA AskBegins ==
    ASSUME NEW c \in Caller, Ask(c)
    PROVE  \E op \in Operation, wait \in {"none", "finite", "forever"} :
              /\ Begin(c, op, wait)
              /\ op = "stop" => c \notin Isr
              /\ op = "start" => c \in Starter
<1>1. \A timeout \in Wait[c] : Ticks(timeout) \in {"none", "finite", "forever"}
    <2>1. Wait[c] \subseteq Timeouts
        BY TimerAssumption
    <2>2. QED
        BY <2>1 DEF Timeouts, Ticks
<1>2. CASE c \notin Isr /\ \E op \in Operation, timeout \in Wait[c] :
                (op = "start" => c \in Starter) /\ Begin(c, op, Ticks(timeout))
    BY <1>1, <1>2
<1>3. CASE c \in Isr /\ Begin(c, "reset", "none")
    BY <1>3 DEF Operation
<1>4. QED
    BY <1>2, <1>3 DEF Ask

LEMMA TimerTypeNext == TypeOK /\ [Next]_vars => TypeOK'
<1> SUFFICES ASSUME TypeOK, [Next]_vars
             PROVE  TypeOK'
    OBVIOUS
<1>1. ASSUME NEW c \in Caller, Ask(c)
      PROVE  TypeOK'
    <2>1. PICK op \in Operation, wait \in {"none", "finite", "forever"} :
              Begin(c, op, wait) /\ (op = "stop" => c \notin Isr)
        BY <1>1, AskBegins
    <2>3. call' \in [Caller -> Call]
        BY <2>1, CommandsFit DEF Begin, TypeOK, Call
    <2>4. calls' = [calls EXCEPT ![c] = calls[c] + 1] /\ calls[c] < MaxCalls[c]
        BY <2>1 DEF Begin
    <2>5. calls' \in [Caller -> Nat] /\ \A d \in Caller : calls'[d] <= MaxCalls[d]
        <3>1. /\ calls \in [Caller -> Nat] /\ MaxCalls \in [Caller -> Nat]
              /\ \A d \in Caller : calls[d] <= MaxCalls[d]
            BY TimerAssumption DEF TypeOK
        <3>2. ASSUME NEW d \in Caller
              PROVE  calls'[d] <= MaxCalls[d]
            BY <2>4, <3>1
        <3>3. QED
            BY <2>4, <3>1, <3>2
    <2>6. calm' \subseteq Task
        BY <2>1 DEF Begin, TypeOK, Caller
    <2>7. QED
        BY <2>1, <2>3, <2>5, <2>6 DEF Begin, TypeOK, Call
<1>2. ASSUME NEW c \in Caller, Destroy(c)
      PROVE  TypeOK'
    <2>1. call' \in [Caller -> Call]
        BY <1>2, CommandsFit DEF Destroy, TypeOK, Call
    <2>2. QED
        BY <1>2, <2>1 DEF Destroy, TypeOK, Call
<1>3. ASSUME NEW c \in Caller, Create(c)
      PROVE  TypeOK'
    <2>1. call' \in [Caller -> Call]
        BY <1>3, CallGoesOn DEF Create, TypeOK, Call
    <2>2. QED
        BY <1>3, <2>1 DEF Create, TypeOK, Call
<1>4. ASSUME NEW c \in Caller, Post(c)
      PROVE  TypeOK'
    <2>1. call' \in [Caller -> Call]
        BY <1>4, CallGoesOn DEF Post, TypeOK, Call
    <2>2. Next_(c) \in Command
        BY <1>4 DEF Post, Next_, TypeOK
    <2>3. queue' \in Seq(Word) /\ Len(queue') <= QueueLength
        BY <1>4, <2>2, TimerAssumption DEF Post, TypeOK, Full, Word
    <2>4. Asked(c) \in {"run", "halt", "either"}
        BY DEF Asked
    <2>5. QED
        BY <1>4, <2>1, <2>3, <2>4 DEF Post, TypeOK, Call, Word
<1>5. ASSUME NEW c \in Caller, GiveUp(c)
      PROVE  TypeOK'
    <2>1. call' \in [Caller -> Call]
        BY <1>5, CallGoesOn DEF GiveUp, TypeOK, Call
    <2>2. QED
        BY <1>5, <2>1 DEF GiveUp, TypeOK, Call
<1>6. ASSUME NEW c \in Caller, Return(c)
      PROVE  TypeOK'
    <2>1. call' \in [Caller -> Call]
        BY <1>6 DEF Return, TypeOK, Call, Idle
    <2>2. QED
        BY <1>6, <2>1 DEF Return, TypeOK, Call
<1>7. CASE Expire \/ CallbackReturns \/ Drained
    BY <1>7, TimerAssumption DEF Expire, Fire, CallbackReturns, Drained, TypeOK, Build
<1>8. CASE Process
    <2>1. queue' \in Seq(Word) /\ Len(queue') <= QueueLength
        BY <1>8, TimerAssumption DEF Process, TypeOK, Word
    <2>2. active' \in BOOLEAN /\ daemon' \in {"drain", "callback"} /\ wish' \in {wish, "halt"}
        <3>1. active \in BOOLEAN /\ build.AutoReload \in BOOLEAN
            BY TimerAssumption DEF TypeOK, Build
        <3>2. After(Head(queue)) \in BOOLEAN
            <4>1. (Head(queue) \in {"start", "change"}) \in BOOLEAN
                OBVIOUS
            <4>2. QED
                BY <3>1, <4>1, Zenon DEF After
        <3>3. QED
            BY <1>8, <3>1, <3>2, Zenon DEF Process, Fire
    <2>3. QED
        BY <1>8, <2>1, <2>2 DEF Process, TypeOK, Word
<1>9. CASE PostOther
    <2>1. queue' \in Seq(Word) /\ Len(queue') <= QueueLength
        BY <1>9, TimerAssumption DEF PostOther, TypeOK, Full, Word
    <2>2. QED
        BY <1>9, <2>1 DEF PostOther, TypeOK, Word
<1>10. CASE UNCHANGED vars
    BY <1>10 DEF vars, TypeOK
<1>11. QED
    BY <1>1, <1>2, <1>3, <1>4, <1>5, <1>6, <1>7, <1>8, <1>9, <1>10
    DEF Next, Continue, DaemonStep

(* The queue never holds more commands than configTIMER_QUEUE_LENGTH, and  *)
(* every call stays one of the methods, whatever the callers do.           *)
THEOREM TimerTypeCorrect == Spec => []TypeOK
BY TimerTypeInit, TimerTypeNext, PTL DEF Spec
-----------------------------------------------------------------------------
(* The calls.                                                              *)

Op == Operation \cup {"destroy", "none"}

LEMMA TailRemains ==
    ASSUME NEW op \in Op, NEW todo \in Remaining(op), todo # <<>>
    PROVE  Tail(todo) \in Remaining(op) /\ <<>> \in Remaining(op)
<1>1. /\ \A x : Tail(<<x>>) = <<>>
      /\ \A x, y : Tail(<<x, y>>) = <<y>>
    OBVIOUS
<1>2. op \in {"start", "stop", "reset", "set_period", "destroy", "none"}
    BY DEF Op, Operation
<1>3. <<>> \in Remaining(op)
    BY <1>2, Zenon DEF Remaining
<1>4. CASE op = "start"
    BY <1>1, <1>4, ZenonT(30) DEF Remaining
<1>5. CASE op \in {"stop", "reset", "set_period"}
    BY <1>1, <1>5, ZenonT(30) DEF Remaining
<1>6. CASE op = "destroy"
    BY <1>1, <1>6, ZenonT(30) DEF Remaining
<1>7. CASE op = "none"
    BY <1>7, ZenonT(30) DEF Remaining
<1>8. QED
    BY <1>2, <1>3, <1>4, <1>5, <1>6, <1>7

(* What a call posts next, and what the success of its last command means. *)
LEMMA NextCommand ==
    ASSUME TypeOK, Orderly, NEW c \in Caller, call[c].todo # <<>>
    PROVE  /\ Next_(c) = "create" => Creating(c)
           /\ Next_(c) # "create" => ~Creating(c)
           /\ Next_(c) \in {"stop", "delete"} <=> Asked(c) = "halt"
           /\ Asked(c) = "halt" <=> call[c].op \in {"stop", "destroy"}
           /\ Asked(c) = "run" => Runs(Next_(c))
           /\ Asked(c) \in {"run", "halt", "either"}
<1> DEFINE todo == call[c].todo
           op == call[c].op
<1>1. /\ \A x : Head(<<x>>) = x /\ Len(<<x>>) = 1
      /\ \A x, y : Head(<<x, y>>) = x /\ Len(<<x, y>>) = 2
    OBVIOUS
<1>2. op \in {"start", "stop", "reset", "set_period", "destroy", "none"} /\ todo \in Remaining(op)
    BY DEF TypeOK, Orderly, Operation
<1>3. CASE op = "start"
    <2>1. todo \in {<<"create", "start">>, <<"change", "start">>, <<"start">>}
        BY <1>2, <1>3, Zenon DEF Remaining
    <2>2. Asked(c) \in {"run", "either"} /\ Asked(c) # "halt"
        BY <1>3 DEF Asked
    <2>3. CASE todo = <<"create", "start">>
        BY <1>1, <1>3, <2>2, <2>3 DEF Next_, Asked, Creating
    <2>4. CASE todo = <<"change", "start">>
        BY <1>1, <1>3, <2>2, <2>4 DEF Next_, Asked, Runs, Creating
    <2>5. CASE todo = <<"start">>
        BY <1>1, <1>3, <2>2, <2>5 DEF Next_, Asked, Runs, Creating
    <2>6. QED
        BY <2>1, <2>3, <2>4, <2>5
<1>4. CASE op = "stop"
    <2>1. todo = <<"stop">>
        BY <1>2, <1>4, Zenon DEF Remaining
    <2>2. QED
        BY <1>1, <1>4, <2>1 DEF Next_, Asked, Creating
<1>5. CASE op \in {"reset", "set_period"}
    <2>1. todo \in {<<"start">>, <<"change">>}
        BY <1>2, <1>5, Zenon DEF Remaining
    <2>2. Asked(c) = "run"
        BY <1>1, <1>5, <2>1 DEF Asked
    <2>3. QED
        BY <1>1, <1>5, <2>1, <2>2 DEF Next_, Runs, Creating
<1>6. CASE op = "destroy"
    <2>1. todo \in {<<"stop", "delete">>, <<"delete">>}
        BY <1>2, <1>6, Zenon DEF Remaining
    <2>2. QED
        BY <1>1, <1>6, <2>1 DEF Next_, Asked, Creating
<1>7. op # "none"
    BY <1>2, Zenon DEF Remaining
<1>8. QED
    BY <1>2, <1>3, <1>4, <1>5, <1>6, <1>7

(* A step of a call leaves the other calls alone.                          *)
LEMMA AdvanceStep ==
    ASSUME TypeOK, NEW c \in Caller, Advance(c)
    PROVE  /\ \A d \in Caller : d # c => call'[d] = call[d]
           /\ call'[c] = [call[c] EXCEPT !.todo = Tail(call[c].todo)]
           /\ call'[c].op = call[c].op /\ call'[c].wait = call[c].wait
           /\ call'[c].todo = Tail(call[c].todo) /\ call'[c].ok = call[c].ok
BY DEF TypeOK, Advance

LEMMA AbandonStep ==
    ASSUME TypeOK, NEW c \in Caller, Abandon(c)
    PROVE  /\ \A d \in Caller : d # c => call'[d] = call[d]
           /\ call'[c].op = call[c].op /\ call'[c].wait = call[c].wait
           /\ call'[c].todo = <<>> /\ call'[c].ok = FALSE
<1>1. call' = [call EXCEPT ![c] = [call[c] EXCEPT !.todo = <<>>, !.ok = FALSE]]
    BY DEF Abandon
<1>2. QED
    BY <1>1 DEF TypeOK

(* A call that begins.                                                     *)
LEMMA BeginStep ==
    ASSUME TypeOK, NEW c \in Caller, NEW op, NEW wait, Begin(c, op, wait)
    PROVE  /\ \A d \in Caller : d # c => call'[d] = call[d]
           /\ call[c] = Idle
           /\ call'[c].op = op /\ call'[c].wait = wait
           /\ call'[c].todo = Commands(op) /\ call'[c].ok = (Commands(op) # <<>>)
BY DEF TypeOK, Begin, InCall

(* The call that changes in a step, if one does.                           *)
LEMMA CallSteps ==
    ASSUME TypeOK, NEW c \in Caller, Continue(c)
    PROVE  \A d \in Caller : d # c => call'[d] = call[d]
<1>1. CASE Create(c)
    BY <1>1, AdvanceStep, AbandonStep DEF Create
<1>2. CASE Post(c)
    BY <1>2, AdvanceStep DEF Post
<1>3. CASE GiveUp(c)
    BY <1>3, AdvanceStep, AbandonStep DEF GiveUp
<1>4. CASE Return(c)
    BY <1>4 DEF Return, TypeOK
<1>5. QED
    BY <1>1, <1>2, <1>3, <1>4 DEF Continue

(* Every call posts what its method says, in that order.                   *)
LEMMA OrderlyNext == TypeOK /\ Orderly /\ [Next]_vars => Orderly'
<1> SUFFICES ASSUME TypeOK, Orderly, [Next]_vars
             PROVE  Orderly'
    OBVIOUS
<1>o. \A c \in Caller : call[c].op \in Op /\ call[c].todo \in Remaining(call[c].op)
    BY DEF TypeOK, Orderly, Op
<1>1. ASSUME NEW c \in Caller, Ask(c)
      PROVE  Orderly'
    <2>1. PICK op \in Operation, wait \in {"none", "finite", "forever"} : Begin(c, op, wait)
        BY <1>1, AskBegins
    <2>2. call'[c].todo \in Remaining(call'[c].op)
        BY <2>1, BeginStep, CommandsFit
    <2>3. op \notin {"none", "destroy"}
        BY DEF Operation
    <2>4. c \notin calm
        BY <2>1, BeginStep DEF Orderly, Idle
    <2>5. calm' = IF op = "stop" /\ c # Daemon THEN calm \cup {c} ELSE calm
        BY <2>1 DEF Begin
    <2>6. QED
        BY <2>1, <2>2, <2>3, <2>4, <2>5, BeginStep DEF Orderly
<1>2. ASSUME NEW c \in Caller, Destroy(c)
      PROVE  Orderly'
    <2>1. c \in Task /\ call[c] = Idle /\ calm' = calm
        BY <1>2, TimerAssumption DEF Destroy, InCall
    <2>2. c \notin calm
        BY <2>1 DEF Orderly, Idle
    <2>3. \A d \in Caller : d # c => call'[d] = call[d]
        BY <1>2 DEF Destroy, TypeOK
    <2>4. call'[c].op = "destroy" /\ call'[c].todo = Commands("destroy") /\ call'[c].wait = "forever"
        BY <1>2 DEF Destroy, TypeOK
    <2>5. QED
        BY <2>1, <2>2, <2>3, <2>4, CommandsFit DEF Orderly
<1>3. ASSUME NEW c \in Caller, Create(c) \/ Post(c) \/ GiveUp(c)
      PROVE  Orderly'
    <2>1. call[c].todo # <<>> /\ (Advance(c) \/ Abandon(c)) /\ calm' \subseteq calm
        BY <1>3 DEF Create, Post, GiveUp
    <2>2. call'[c].op = call[c].op /\ call'[c].wait = call[c].wait
        BY <2>1, AdvanceStep, AbandonStep
    <2>3. call'[c].todo \in {Tail(call[c].todo), <<>>}
        BY <2>1, AdvanceStep, AbandonStep
    <2>4. call'[c].todo \in Remaining(call[c].op)
        BY <1>o, <2>1, <2>3, TailRemains
    <2>5. call[c].op # "none"
        BY <2>1 DEF Orderly, Idle
    <2>6. \A d \in Caller : d # c => call'[d] = call[d]
        BY <1>3, CallSteps DEF Continue
    <2>7. QED
        BY <2>1, <2>2, <2>4, <2>5, <2>6 DEF Orderly
<1>4. ASSUME NEW c \in Caller, Return(c)
      PROVE  Orderly'
    <2>1. call' = [call EXCEPT ![c] = Idle] /\ calm' = calm \ {c}
        BY <1>4 DEF Return
    <2>2. Idle.op = "none" /\ Idle.todo = <<>> /\ <<>> \in Remaining("none")
        BY DEF Idle, Remaining
    <2>3. QED
        BY <2>1, <2>2 DEF Orderly, TypeOK
<1>5. CASE Expire \/ CallbackReturns \/ Process \/ Drained \/ PostOther \/ UNCHANGED vars
    BY <1>5 DEF Expire, CallbackReturns, Process, Drained, PostOther, vars, Orderly
<1>6. QED
    BY <1>1, <1>2, <1>3, <1>4, <1>5 DEF Next, Continue, DaemonStep

(* While the object is destroyed nobody else is in a call, and afterwards  *)
(* nobody at all, except perhaps on_timer().                               *)
LEMMA LifetimeNext == TypeOK /\ Orderly /\ Lifetime /\ [Next]_vars => Lifetime'
<1> SUFFICES ASSUME TypeOK, Orderly, Lifetime, [Next]_vars
             PROVE  Lifetime'
    OBVIOUS
<1>1. ASSUME NEW c \in Caller, Ask(c)
      PROVE  Lifetime'
    <2>1. PICK op \in Operation, wait \in {"none", "finite", "forever"} : Begin(c, op, wait)
        BY <1>1, AskBegins
    <2>2. object = "whole" /\ object' = "whole"
        BY <2>1 DEF Begin
    <2>3. op # "destroy"
        BY DEF Operation
    <2>4. QED
        BY <2>1, <2>2, <2>3, BeginStep DEF Lifetime
<1>2. ASSUME NEW c \in Caller, Destroy(c)
      PROVE  Lifetime'
    <2>1. object' = "base" /\ \A d \in Caller \ {Daemon} : call[d] = Idle
        BY <1>2 DEF Destroy, InCall, Caller
    <2>2. \A d \in Caller : d # c => call'[d] = call[d]
        BY <1>2 DEF Destroy, TypeOK
    <2>3. call'[c].op = "destroy"
        BY <1>2 DEF Destroy, TypeOK
    <2>4. QED
        BY <2>1, <2>2, <2>3 DEF Lifetime
<1>3. ASSUME NEW c \in Caller, Create(c) \/ Post(c) \/ GiveUp(c)
      PROVE  Lifetime'
    <2>1. call[c].todo # <<>> /\ (Advance(c) \/ Abandon(c)) /\ object' = object
        BY <1>3 DEF Create, Post, GiveUp
    <2>2. call'[c].op = call[c].op
        BY <2>1, AdvanceStep, AbandonStep
    <2>3. call[c] # Idle
        BY <2>1 DEF Idle
    <2>4. \A d \in Caller : d # c => call'[d] = call[d]
        BY <1>3, CallSteps DEF Continue
    <2>5. QED
        BY <2>1, <2>2, <2>3, <2>4 DEF Lifetime
<1>4. ASSUME NEW c \in Caller, Return(c)
      PROVE  Lifetime'
    <2>1. call'[c] = Idle /\ call[c] # Idle /\ \A d \in Caller : d # c => call'[d] = call[d]
        BY <1>4 DEF Return, InCall, TypeOK
    <2>2. Idle.op # "destroy"
        BY DEF Idle
    <2>3. CASE call[c].op = "destroy"
        <3>1. c # Daemon /\ object = "base" /\ object' = "dead"
            BY <1>4, <2>1, <2>3, TimerAssumption DEF Return, Lifetime, Orderly, TypeOK
        <3>2. QED
            BY <2>1, <3>1 DEF Lifetime
    <2>4. CASE call[c].op # "destroy"
        <3>1. object' = object
            BY <1>4, <2>4 DEF Return
        <3>2. QED
            BY <2>1, <2>2, <3>1 DEF Lifetime
    <2>5. QED
        BY <2>3, <2>4
<1>5. CASE Expire \/ CallbackReturns \/ Process \/ Drained \/ PostOther \/ UNCHANGED vars
    BY <1>5 DEF Expire, CallbackReturns, Process, Drained, PostOther, vars, Lifetime
<1>6. QED
    BY <1>1, <1>2, <1>3, <1>4, <1>5 DEF Next, Continue, DaemonStep
(* Outside on_timer() the daemon is in no call.                            *)
LEMMA DaemonAtRestNext == TypeOK /\ DaemonAtRest /\ [Next]_vars => DaemonAtRest'
<1> SUFFICES ASSUME TypeOK, DaemonAtRest, [Next]_vars
             PROVE  DaemonAtRest'
    OBVIOUS
<1>1. ASSUME NEW c \in Caller, Ask(c)
      PROVE  DaemonAtRest'
    <2>1. PICK op \in Operation, wait \in {"none", "finite", "forever"} : Begin(c, op, wait)
        BY <1>1, AskBegins
    <2>2. daemon' = daemon /\ (c = Daemon => daemon = "callback")
        BY <2>1 DEF Begin, Scheduled
    <2>3. QED
        BY <2>1, <2>2, BeginStep DEF DaemonAtRest, Caller
<1>2. ASSUME NEW c \in Caller, Destroy(c)
      PROVE  DaemonAtRest'
    BY <1>2, TimerAssumption DEF Destroy, DaemonAtRest, TypeOK
<1>3. ASSUME NEW c \in Caller, Continue(c)
      PROVE  DaemonAtRest'
    <2>1. call[c] # Idle
        BY <1>3 DEF Continue, Create, Post, GiveUp, Return, InCall, Idle
    <2>2. daemon' = daemon
        BY <1>3 DEF Continue, Create, Post, GiveUp, Return
    <2>3. QED
        BY <1>3, <2>1, <2>2, CallSteps DEF DaemonAtRest, Caller
<1>4. CASE Expire \/ CallbackReturns \/ Process \/ Drained \/ PostOther \/ UNCHANGED vars
    BY <1>4
    DEF Expire, CallbackReturns, Process, Drained, PostOther, vars, Fire, DaemonAtRest, InCall
<1>5. QED
    BY <1>1, <1>2, <1>3, <1>4 DEF Next, DaemonStep

(* The commands of other timers do not make this one known.                *)
LEMMA UnknownKept ==
    ASSUME TypeOK, Unknown, Process \/ PostOther
    PROVE  Unknown'
<1>1. queue \in Seq(Word) /\ \A i \in DOMAIN queue : queue[i] = "other"
    BY DEF TypeOK, Word, Unknown, Ours
<1>2. CASE Process
    <2>1. queue # <<>> /\ queue' = Tail(queue)
        BY <1>2 DEF Process
    <2>2. Head(queue) = "other" /\ \A i \in DOMAIN queue' : queue'[i] = "other"
        BY <1>1, <2>1
    <2>3. active' = active /\ daemon' = "drain"
        BY <1>2, <2>2 DEF Process, After
    <2>4. QED
        BY <2>2, <2>3 DEF Unknown, Ours
<1>3. CASE PostOther
    <2>1. \A i \in DOMAIN queue' : queue'[i] = "other"
        BY <1>1, <1>3 DEF PostOther
    <2>2. QED
        BY <1>3, <2>1 DEF PostOther, Unknown, Ours
<1>4. QED
    BY <1>2, <1>3

(* Without a handle there is nothing but the call that will create it.     *)
LEMMA HandledNext ==
    ASSUME OneStarter
    PROVE  TypeOK /\ Orderly /\ Lifetime /\ Handled /\ [Next]_vars => Handled'
<1> SUFFICES ASSUME TypeOK, Orderly, Lifetime, Handled, [Next]_vars
             PROVE  Handled'
    OBVIOUS
<1>i. \A c \in Caller : call[c] = Idle => ~Creating(c) /\ call[c].todo = <<>>
    BY DEF Idle, Creating
<1>e. <<"create", "start">> # <<>> /\ \A x : <<x>> # <<"create", "start">> /\ <<x>> # <<>>
    OBVIOUS
<1>t. (\A x : Tail(<<x>>) = <<>>) /\ (\A x, y : Tail(<<x, y>>) = <<y>>)
    OBVIOUS
<1>1. ASSUME NEW c \in Caller, Ask(c)
      PROVE  Handled'
    <2>1. PICK op \in Operation, wait \in {"none", "finite", "forever"} :
              Begin(c, op, wait) /\ (op = "start" => c \in Starter)
        BY <1>1, AskBegins
    <2>2. /\ UNCHANGED <<xHandle, object, queue, active, daemon>> /\ object = "whole"
          /\ c = Daemon => daemon = "callback"
        BY <2>1 DEF Begin, Scheduled
    <2>3. /\ call'[c].todo = Commands(op)
          /\ \A d \in Caller : d # c => call'[d] = call[d]
        BY <2>1, BeginStep
    <2>4. ~xHandle => Commands(op) = <<>> \/ Commands(op) = <<"create", "start">>
        BY CommandsOf DEF Operation
    <2>5. xHandle => Commands(op) # <<"create", "start">>
        BY CommandsOf DEF Operation
    <2>6. op # "start" => Commands(op) # <<"create", "start">>
        BY CommandsOf DEF Operation
    <2>7. Creating(c)' => c \in Starter \ {Daemon} /\ ~xHandle
        BY <2>1, <2>2, <2>3, <2>5, <2>6 DEF Creating, Handled, Unknown
    <2>8. QED
        BY <2>2, <2>3, <2>4, <2>7 DEF Handled, Creating, Unknown, Ours
<1>2. ASSUME NEW c \in Caller, Destroy(c)
      PROVE  Handled'
    <2>1. /\ UNCHANGED <<xHandle, queue, active, daemon>> /\ object = "whole" /\ object' = "base"
          /\ \A d \in Caller \ {Daemon} : call[d] = Idle
        BY <1>2 DEF Destroy, InCall, Caller
    <2>2. \A d \in Caller : d # c => call'[d] = call[d]
        BY <1>2 DEF Destroy, TypeOK
    <2>3. call'[c].todo = Commands("destroy")
        BY <1>2 DEF Destroy, TypeOK
    <2>4. \A d \in Caller : ~Creating(d)
        BY <1>i, <2>1 DEF Handled
    <2>5. Commands("destroy") # <<"create", "start">> /\ (~xHandle => Commands("destroy") = <<>>)
        BY CommandsOf
    <2>6. QED
        BY <2>1, <2>2, <2>3, <2>4, <2>5 DEF Handled, Creating, Unknown, Ours
<1>3. ASSUME NEW c \in Caller, Create(c)
      PROVE  Handled'
    <2>1. Creating(c)
        BY <1>3, NextCommand DEF Create
    <2>2. \A d \in Caller : d # c => ~Creating(d)
        BY <2>1, OneStarter DEF Handled, OneStarter
    <2>3. UNCHANGED <<object, queue, daemon>> /\ (Advance(c) \/ Abandon(c)) /\ call[c].todo # <<>>
        BY <1>3 DEF Create
    <2>4. call'[c].todo \in {<<"start">>, <<>>} /\ \A d \in Caller : d # c => call'[d] = call[d]
        <3>1. Tail(call[c].todo) = <<"start">>
            BY <1>t, <2>1 DEF Creating
        <3>2. QED
            BY <2>3, <3>1, AdvanceStep, AbandonStep
    <2>5. ~Creating(c)' /\ <<"start">> # <<>>
        BY <2>4 DEF Creating
    <2>6. CASE Advance(c) /\ xHandle'
        BY <2>2, <2>4, <2>5, <2>6 DEF Handled, Creating
    <2>7. CASE Abandon(c) /\ UNCHANGED <<xHandle, active>>
        <3>1. call'[c].todo = <<>>
            BY <2>7, AbandonStep
        <3>2. QED
            BY <2>2, <2>3, <2>4, <2>5, <2>7, <3>1 DEF Handled, Creating, Unknown, Ours
    <2>8. QED
        BY <1>3, <2>6, <2>7 DEF Create
<1>4. ASSUME NEW c \in Caller, Post(c) \/ GiveUp(c)
      PROVE  Handled'
    <2>1. /\ call[c].todo # <<>> /\ Next_(c) # "create" /\ UNCHANGED <<xHandle, object>>
          /\ Advance(c) \/ Abandon(c)
        BY <1>4 DEF Post, GiveUp
    <2>2. ~Creating(c) /\ (xHandle \/ object = "dead")
        BY <2>1, NextCommand DEF Handled
    <2>3. call'[c].todo \in {Tail(call[c].todo), <<>>}
        BY <2>1, AdvanceStep, AbandonStep
    <2>4. ~Creating(c)'
        <3>1. Tail(call[c].todo) # <<"create", "start">>
            <4>1. call[c].op \in Op /\ call[c].todo \in Remaining(call[c].op)
                BY DEF TypeOK, Op, Orderly
            <4>2. Tail(call[c].todo) \in Remaining(call[c].op) /\ call[c].todo \in Remaining(call[c].op)
                BY <2>1, <4>1, TailRemains
            <4>3. CASE call[c].op = "start"
                <5>1. call[c].todo \in {<<"change", "start">>, <<"start">>}
                    BY <2>1, <2>2, <4>1, <4>3, Zenon DEF Remaining, Creating
                <5>2. Tail(call[c].todo) \in {<<"start">>, <<>>}
                    BY <1>t, <5>1, Zenon
                <5>3. QED
                    BY <1>e, <5>2, Zenon
            <4>4. CASE call[c].op # "start"
                <5>1. call[c].op \in {"stop", "reset", "set_period", "destroy", "none"}
                    BY <4>1, <4>4 DEF Op, Operation
                <5>2. call[c].todo \in {<<"stop">>, <<"start">>, <<"change">>, <<"stop", "delete">>,
                                        <<"delete">>, <<>>}
                    BY <4>1, <5>1, Zenon DEF Remaining
                <5>3. Tail(call[c].todo) \in {<<"delete">>, <<>>}
                    BY <1>t, <2>1, <5>2, Zenon
                <5>4. QED
                    BY <1>e, <5>3, Zenon
            <4>5. QED
                BY <4>3, <4>4
        <3>2. QED
            BY <2>3, <3>1, <1>e DEF Creating
    <2>5. \A d \in Caller : d # c => call'[d] = call[d]
        BY <1>4, CallSteps DEF Continue
    <2>6. QED
        BY <2>1, <2>2, <2>4, <2>5 DEF Handled, Creating
<1>5. ASSUME NEW c \in Caller, Return(c)
      PROVE  Handled'
    <2>1. /\ call'[c] = Idle /\ \A d \in Caller : d # c => call'[d] = call[d]
          /\ UNCHANGED <<queue, active, daemon>>
        BY <1>5 DEF Return, TypeOK
    <2>2. ~Creating(c)' /\ call'[c].todo = <<>>
        BY <2>1 DEF Idle, Creating
    <2>3. CASE call[c].op = "destroy"
        <3>1. object = "base" /\ object' = "dead"
            <4>1. c \in Task /\ c # Daemon /\ call[c] # Idle
                BY <2>3, TimerAssumption DEF Orderly, Idle
            <4>2. QED
                BY <1>5, <2>3, <4>1 DEF Return, Lifetime, TypeOK
        <3>2. \A d \in Caller : ~Creating(d)
            BY <3>1 DEF Handled
        <3>3. QED
            BY <2>1, <2>2, <3>1, <3>2 DEF Handled, Creating
    <2>4. CASE call[c].op # "destroy"
        <3>1. UNCHANGED <<xHandle, object>>
            BY <1>5, <2>4 DEF Return
        <3>2. QED
            BY <2>1, <2>2, <3>1 DEF Handled, Creating, Unknown, Ours
    <2>5. QED
        BY <2>3, <2>4
<1>6. CASE Process \/ PostOther
    <2>1. Unknown => Unknown'
        BY <1>6, UnknownKept
    <2>2. UNCHANGED <<xHandle, object, call>>
        BY <1>6 DEF Process, PostOther
    <2>3. QED
        BY <2>1, <2>2 DEF Handled, Creating
<1>7. CASE Expire \/ CallbackReturns \/ Drained \/ UNCHANGED vars
    BY <1>7 DEF Expire, CallbackReturns, Drained, vars, Handled, Creating, Unknown, Ours
<1>8. QED
    BY <1>1, <1>2, <1>3, <1>4, <1>5, <1>6, <1>7 DEF Next, Continue, DaemonStep

(* Who creates the timer finds it unknown to the kernel.                   *)
LEMMA CreatedOnce ==
    ASSUME TypeOK, Orderly, Handled, NEW c \in Caller, Create(c)
    PROVE  Unknown
<1>1. Creating(c)
    BY NextCommand DEF Create
<1>2. QED
    BY <1>1 DEF Handled

LEMMA RecreatedNext ==
    TypeOK /\ Orderly /\ Handled /\ NeverRecreated /\ [Next]_vars => NeverRecreated'
<1> SUFFICES ASSUME TypeOK, Orderly, Handled, NeverRecreated, [Next]_vars
             PROVE  NeverRecreated'
    OBVIOUS
<1> USE DEF NeverRecreated
<1>1. ASSUME NEW c \in Caller, Ask(c) \/ Destroy(c) \/ Post(c) \/ GiveUp(c) \/ Return(c)
      PROVE  NeverRecreated'
    BY <1>1 DEF Ask, Begin, Destroy, Post, GiveUp, Return
<1>2. ASSUME NEW c \in Caller, Create(c)
      PROVE  NeverRecreated'
    BY <1>2, CreatedOnce DEF Create, Unknown
<1>3. CASE Expire \/ CallbackReturns \/ Process \/ Drained \/ PostOther \/ UNCHANGED vars
    BY <1>3 DEF Expire, CallbackReturns, Process, Drained, PostOther, vars
<1>4. QED
    BY <1>1, <1>2, <1>3 DEF Next, Continue, DaemonStep

(* What was asked for last is what will be.                                *)
LEMMA WinsNext == TypeOK /\ Orderly /\ Handled /\ LastCallWins /\ [Next]_vars => LastCallWins'
<1> SUFFICES ASSUME TypeOK, Orderly, Handled, LastCallWins, [Next]_vars
             PROVE  LastCallWins'
    OBVIOUS
<1>t. queue \in Seq(Word)
    BY DEF TypeOK, Word
<1>s. ASSUME WillRunWith(active', queue') <=> WillRunWith(active, queue), wish' = wish
      PROVE  LastCallWins'
    BY <1>s, WillRunIs, WillRunIsNext DEF LastCallWins
<1>1. ASSUME NEW c \in Caller, Ask(c) \/ Destroy(c) \/ GiveUp(c) \/ Return(c)
      PROVE  LastCallWins'
    <2>1. UNCHANGED <<active, queue, wish>>
        BY <1>1 DEF Ask, Begin, Destroy, GiveUp, Return
    <2>2. QED
        BY <1>s, <2>1
<1>2. ASSUME NEW c \in Caller, Create(c)
      PROVE  LastCallWins'
    <2>1. Unknown
        BY <1>2, CreatedOnce
    <2>2. active' <=> active
        BY <1>2, <2>1 DEF Create, Unknown
    <2>3. WillRunWith(active', queue') <=> WillRunWith(active, queue)
        BY <1>2, <2>2 DEF Create, WillRunWith
    <2>4. QED
        BY <1>2, <1>s, <2>3 DEF Create
<1>3. ASSUME NEW c \in Caller, Post(c)
      PROVE  LastCallWins'
    <2>1. Next_(c) \in Command
        BY <1>3 DEF Post, Next_, TypeOK
    <2>2. WillRunWith(active', queue') <=> Runs(Next_(c))
        BY <1>3, <1>t, <2>1, AppendDecides DEF Post
    <2>3. wish' = Asked(c)
        BY <1>3 DEF Post
    <2>4. Asked(c) = "halt" => ~Runs(Next_(c))
        BY <1>3, NextCommand DEF Post, Runs
    <2>5. Asked(c) = "run" => Runs(Next_(c))
        BY <1>3, NextCommand DEF Post
    <2>6. QED
        BY <2>2, <2>3, <2>4, <2>5, WillRunIsNext DEF LastCallWins
<1>4. CASE Expire
    <2>1. active /\ queue' = queue /\ active' = build.AutoReload
        BY <1>4 DEF Expire, Fire
    <2>2. build.AutoReload \in BOOLEAN
        BY TimerAssumption DEF TypeOK, Build
    <2>3. CASE build.AutoReload
        <3>1. wish' = wish
            BY <1>4, <2>3 DEF Expire, Fire
        <3>2. QED
            BY <1>s, <2>1, <2>3, <3>1 DEF WillRunWith
    <2>4. CASE ~build.AutoReload /\ Ours(queue) = {}
        <3>1. wish' = "halt"
            BY <1>4, <2>4 DEF Expire, Fire
        <3>2. ~WillRunWith(active', queue')
            BY <2>1, <2>4 DEF WillRunWith, Ours, Runs
        <3>3. QED
            BY <3>1, <3>2, WillRunIsNext DEF LastCallWins
    <2>5. CASE Ours(queue) # {}
        <3>1. wish' = wish
            BY <1>4, <2>5 DEF Expire, Fire
        <3>2. WillRunWith(active', queue') <=> WillRunWith(active, queue)
            BY <2>1, <2>5 DEF WillRunWith, Ours
        <3>3. QED
            BY <1>s, <3>1, <3>2
    <2>6. QED
        BY <2>2, <2>3, <2>4, <2>5
<1>5. CASE Process
    <2>1. queue # <<>> /\ queue' = Tail(queue) /\ Head(queue) \in Word
        BY <1>5, <1>t DEF Process
    <2>2. CASE active' = After(Head(queue)) /\ UNCHANGED wish
        <3>1. active' <=> IF Head(queue) = "other" THEN active ELSE Runs(Head(queue))
            BY <2>2, Zenon DEF After, Runs
        <3>2. WillRunWith(active', queue') <=> WillRunWith(active, queue)
            BY <1>t, <2>1, <3>1, HeadIsDecided
        <3>3. QED
            BY <1>s, <2>2, <3>2
    <2>3. CASE Head(queue) = "start" /\ Fire(Tail(queue))
        <3>1. active' = build.AutoReload /\ build.AutoReload \in BOOLEAN
            BY <2>3, TimerAssumption DEF Fire, TypeOK, Build
        <3>2. WillRunWith(TRUE, queue') <=> WillRunWith(active, queue)
            BY <1>t, <2>1, <2>3, HeadIsDecided DEF Runs
        <3>3. CASE build.AutoReload
            <4>1. wish' = wish
                BY <2>3, <3>3 DEF Fire
            <4>2. QED
                BY <1>s, <3>1, <3>2, <3>3, <4>1
        <3>4. CASE ~build.AutoReload /\ Ours(queue') = {}
            <4>1. wish' = "halt"
                BY <2>1, <2>3, <3>4 DEF Fire
            <4>2. ~WillRunWith(active', queue')
                BY <3>1, <3>4 DEF WillRunWith, Ours, Runs
            <4>3. QED
                BY <4>1, <4>2, WillRunIsNext DEF LastCallWins
        <3>5. CASE Ours(queue') # {}
            <4>1. wish' = wish
                BY <2>1, <2>3, <3>5 DEF Fire
            <4>2. WillRunWith(active', queue') <=> WillRunWith(TRUE, queue')
                BY <3>5 DEF WillRunWith, Ours
            <4>3. QED
                BY <1>s, <3>2, <4>1, <4>2
        <3>6. QED
            BY <3>1, <3>3, <3>4, <3>5
    <2>4. QED
        BY <1>5, <2>2, <2>3 DEF Process
<1>6. CASE PostOther
    <2>1. WillRunWith(active', queue') <=> WillRunWith(active, queue)
        BY <1>6, <1>t, OtherDecidesNothing DEF PostOther
    <2>2. QED
        BY <1>6, <1>s, <2>1 DEF PostOther
<1>7. CASE CallbackReturns \/ Drained \/ UNCHANGED vars
    <2>1. UNCHANGED <<active, queue, wish>>
        BY <1>7 DEF CallbackReturns, Drained, vars
    <2>2. QED
        BY <1>s, <2>1
<1>8. QED
    BY <1>1, <1>2, <1>3, <1>4, <1>5, <1>6, <1>7 DEF Next, Continue, DaemonStep
-----------------------------------------------------------------------------
(* A daemon of higher priority than its callers.                           *)

Silenced ==
    silent \/ object = "dead" \/ \E c \in Caller : Stopped(c) \/ Destroyed(c)

(* A quiet timer is known to wait for a stop or a delete at most.          *)
LEMMA UnknownIsQuiet == Unknown => Quiet
BY DEF Unknown, Quiet, Ours, Runs

LEMMA QuietAppend ==
    ASSUME TypeOK, Quiet, NEW cmd \in Word, ~Runs(cmd), queue' = Append(queue, cmd),
           active' = active, daemon' = daemon
    PROVE  Quiet'
<1>1. /\ DOMAIN queue = 1 .. Len(queue) /\ DOMAIN queue' = 1 .. Len(queue) + 1
      /\ Len(queue) \in Nat /\ queue'[Len(queue) + 1] = cmd
      /\ \A i \in DOMAIN queue : queue'[i] = queue[i]
    BY DEF TypeOK
<1>2. \A i \in DOMAIN queue' : ~Runs(queue'[i])
    BY <1>1 DEF Quiet
<1>3. active' => \E i \in DOMAIN queue' : queue'[i] \in {"stop", "delete"}
    BY <1>1 DEF Quiet
<1>4. QED
    BY <1>2, <1>3 DEF Quiet

LEMMA QuietProcess ==
    ASSUME TypeOK, Quiet, Process
    PROVE  Quiet'
<1>1. /\ queue # <<>> /\ queue' = Tail(queue)
      /\ Len(queue) \in Nat \ {0} /\ DOMAIN queue = 1 .. Len(queue)
      /\ DOMAIN queue' = 1 .. Len(queue) - 1
      /\ Head(queue) = queue[1] /\ \A i \in DOMAIN queue' : queue'[i] = queue[i + 1]
    BY DEF TypeOK, Process
<1>2. ~Runs(Head(queue))
    BY <1>1 DEF Quiet
<1>3. active' = After(Head(queue)) /\ daemon' = "drain"
    BY <1>2 DEF Process, Runs
<1>4. \A i \in DOMAIN queue' : ~Runs(queue'[i])
    BY <1>1 DEF Quiet
<1>5. ASSUME active'
      PROVE  \E i \in DOMAIN queue' : queue'[i] \in {"stop", "delete"}
    <2>1. Head(queue) = "other" /\ active
        BY <1>2, <1>3, <1>5 DEF After, Runs
    <2>2. PICK i \in DOMAIN queue : queue[i] \in {"stop", "delete"}
        BY <2>1 DEF Quiet
    <2>3. i - 1 \in DOMAIN queue' /\ queue'[i - 1] = queue[(i - 1) + 1]
        BY <1>1, <2>1, <2>2
    <2>4. QED
        BY <1>1, <2>2, <2>3
<1>6. QED
    BY <1>3, <1>4, <1>5 DEF Quiet

(* What is silenced was so before, or has just become quiet; what is dead  *)
(* is unknown.                                                             *)
LEMMA SilenceNext ==
    TypeOK /\ Orderly /\ Lifetime /\ Handled /\ DaemonAtRest /\ Silence /\ [Next]_vars => Silence'
<1> SUFFICES ASSUME TypeOK, Orderly, Lifetime, Handled, DaemonAtRest, Silence, [Next]_vars,
                    build'.DaemonFirst
             PROVE  (Silenced' => Quiet') /\ (object' = "dead" => Unknown')
    BY DEF Silence, Silenced, Stopped, Destroyed
<1>b. build.DaemonFirst
    BY DEF Next, Ask, Begin, Destroy, Continue, Create, Post, GiveUp, Return, Expire, DaemonStep,
           CallbackReturns, Process, Drained, PostOther, vars
<1>q. (Silenced => Quiet) /\ (object = "dead" => Unknown)
    BY <1>b DEF Silence, Silenced, Stopped, Destroyed
<1>d. Quiet => call[Daemon] = Idle /\ call[Daemon].todo = <<>>
    BY DEF Quiet, DaemonAtRest, Idle
<1>u. ASSUME UNCHANGED <<queue, active, daemon>>
      PROVE  (Quiet => Quiet') /\ (Unknown => Unknown')
    BY <1>u DEF Quiet, Unknown, Ours
<1>1. ASSUME NEW c \in Caller, Ask(c)
      PROVE  (Silenced' => Quiet') /\ (object' = "dead" => Unknown')
    <2>1. PICK op \in Operation, wait \in {"none", "finite", "forever"} : Begin(c, op, wait)
        BY <1>1, AskBegins
    <2>2. /\ UNCHANGED <<queue, active, daemon, silent, object>>
          /\ \A d \in Caller : d # c /\ d \in calm' => d \in calm
        BY <2>1 DEF Begin
    <2>3. ~Stopped(c)' /\ ~Destroyed(c)'
        BY <2>1, BeginStep DEF Stopped, Destroyed, Operation
    <2>4. Silenced' => Silenced
        BY <2>1, <2>2, <2>3, BeginStep DEF Silenced, Stopped, Destroyed
    <2>5. QED
        BY <1>q, <1>u, <2>2, <2>4
<1>2. ASSUME NEW c \in Caller, Destroy(c)
      PROVE  (Silenced' => Quiet') /\ (object' = "dead" => Unknown')
    <2>1. /\ UNCHANGED <<queue, active, daemon, silent, calm>> /\ object = "whole" /\ object' = "base"
          /\ c \in Task /\ call[c] = Idle
        BY <1>2, TimerAssumption DEF Destroy, InCall
    <2>2. \A d \in Caller : d # c => call'[d] = call[d]
        BY <1>2 DEF Destroy, TypeOK
    <2>3. call'[c].op = "destroy" /\ call'[c].todo = Commands("destroy")
        BY <1>2 DEF Destroy, TypeOK
    <2>4. ~Stopped(c)'
        BY <2>1 DEF Stopped, Orderly, Idle
    <2>5. Destroyed(c)' => Quiet
        <3>1. Destroyed(c)' => ~xHandle
            BY <2>3, CommandsOf DEF Destroyed
        <3>2. QED
            BY <2>1, <3>1, UnknownIsQuiet DEF Handled
    <2>6. Silenced' => Silenced \/ Quiet
        BY <2>1, <2>2, <2>4, <2>5 DEF Silenced, Stopped, Destroyed
    <2>7. QED
        BY <1>q, <1>u, <2>1, <2>6
<1>3. ASSUME NEW c \in Caller, Create(c)
      PROVE  (Silenced' => Quiet') /\ (object' = "dead" => Unknown')
    <2>1. Unknown
        BY <1>3, CreatedOnce
    <2>2. UNCHANGED <<queue, daemon>> /\ (active' => active)
        BY <1>3 DEF Create
    <2>3. Quiet'
        BY <2>1, <2>2, UnknownIsQuiet DEF Quiet, Unknown
    <2>4. Unknown'
        BY <2>1, <2>2 DEF Unknown, Ours
    <2>5. QED
        BY <2>3, <2>4
<1>4. ASSUME NEW c \in Caller, Post(c)
      PROVE  (Silenced' => Quiet') /\ (object' = "dead" => Unknown')
    <2>1. /\ call[c].todo # <<>> /\ Next_(c) # "create" /\ Scheduled(c) /\ ~Full /\ Advance(c)
          /\ UNCHANGED <<active, daemon, object>> /\ queue' = Append(queue, Next_(c))
          /\ calm' = IF Asked(c) = "halt" THEN calm ELSE {}
          /\ silent' = (silent /\ Asked(c) = "halt")
        BY <1>4 DEF Post
    <2>2. call[c] # Idle /\ Next_(c) \in Command
        BY <2>1 DEF Idle, Next_, TypeOK
    <2>3. Quiet => c # Daemon
        BY <1>d, <2>1
    <2>4. object # "dead"
        BY <1>q, <2>2, <2>3, UnknownIsQuiet DEF Lifetime
    <2>5. \A d \in Caller : d # c => call'[d] = call[d]
        BY <2>1, AdvanceStep
    <2>6. call'[c].op = call[c].op
        BY <2>1, AdvanceStep
    <2>7. CASE Asked(c) = "halt" /\ c \in Task
        <3>1. daemon = "wait" /\ queue = <<>>
            BY <1>b, <2>1, <2>7 DEF Scheduled, DaemonBlocked
        <3>2. Next_(c) \in {"stop", "delete"}
            BY <2>1, <2>7, NextCommand
        <3>3. DOMAIN queue' = {1} /\ queue'[1] = Next_(c)
            BY <2>1, <3>1
        <3>4. Quiet'
            BY <2>1, <3>1, <3>2, <3>3 DEF Quiet, Runs
        <3>5. QED
            BY <2>1, <2>4, <3>4
    <2>8. CASE Asked(c) = "halt" /\ c \notin Task
        <3>1. ~Stopped(c)' /\ ~Destroyed(c)'
            BY <2>1, <2>6, <2>8 DEF Stopped, Destroyed, Orderly, TypeOK
        <3>2. Silenced' => Silenced
            BY <2>1, <2>5, <2>8, <3>1 DEF Silenced, Stopped, Destroyed
        <3>3. Next_(c) \in Word /\ ~Runs(Next_(c))
            BY <2>1, <2>2, <2>8, NextCommand DEF Runs, Word
        <3>4. Quiet => Quiet'
            BY <2>1, <3>3, QuietAppend
        <3>5. QED
            BY <1>q, <2>1, <2>4, <3>2, <3>4
    <2>9. CASE Asked(c) # "halt"
        <3>1. call[c].op # "destroy"
            BY <2>1, <2>9, NextCommand
        <3>2. ~Stopped(c)' /\ silent' = FALSE /\ \A d \in Caller : ~Stopped(d)'
            BY <2>1, <2>9 DEF Stopped
        <3>3. ASSUME NEW d \in Caller, Destroyed(d)'
              PROVE  FALSE
            <4>1. d # c /\ Destroyed(d)
                BY <2>5, <2>6, <3>1, <3>3 DEF Destroyed
            <4>2. c # Daemon
                BY <1>q, <2>3, <4>1 DEF Silenced
            <4>3. d # Daemon /\ call[d] # Idle /\ object = "base"
                BY <2>4, <4>1, TimerAssumption DEF Destroyed, Orderly, Lifetime, TypeOK, Idle
            <4>4. QED
                BY <2>2, <4>1, <4>2, <4>3 DEF Lifetime
        <3>4. QED
            BY <2>1, <2>4, <3>2, <3>3 DEF Silenced
    <2>10. QED
        BY <2>7, <2>8, <2>9
<1>5. ASSUME NEW c \in Caller, GiveUp(c)
      PROVE  (Silenced' => Quiet') /\ (object' = "dead" => Unknown')
    <2>1. /\ call[c].todo # <<>> /\ Patience(c) # "forever"
          /\ UNCHANGED <<queue, active, daemon, silent, object, calm>>
          /\ IF call[c].op = "destroy" THEN Advance(c) ELSE Abandon(c)
        BY <1>5 DEF GiveUp
    <2>2. \A d \in Caller : d # c => call'[d] = call[d]
        BY <1>5, CallSteps DEF Continue
    <2>3. ~Stopped(c)'
        BY <2>1, AbandonStep DEF Stopped, Orderly
    <2>4. ASSUME Destroyed(c)'
          PROVE  FALSE
        <3>1. call[c].op = "destroy"
            BY <2>1, <2>4, AdvanceStep, AbandonStep DEF Destroyed
        <3>2. Advance(c) /\ Tail(call[c].todo) = <<>>
            BY <2>1, <2>4, <3>1, AdvanceStep DEF Destroyed
        <3>3. call[c].todo \in {<<"stop", "delete">>, <<"delete">>}
            BY <2>1, <3>1, Zenon DEF Orderly, Remaining
        <3>4. call[c].todo = <<"delete">>
            <4>1. Tail(<<"stop", "delete">>) # <<>>
                OBVIOUS
            <4>2. QED
                BY <3>2, <3>3, <4>1, Zenon
        <3>5. Next_(c) = "delete"
            BY <3>4 DEF Next_
        <3>6. QED
            BY <2>1, <3>1, <3>5 DEF Patience, Orderly
    <2>5. Silenced' => Silenced
        BY <2>1, <2>2, <2>3, <2>4 DEF Silenced, Stopped, Destroyed
    <2>6. QED
        BY <1>q, <1>u, <2>1, <2>5
<1>6. ASSUME NEW c \in Caller, Return(c)
      PROVE  (Silenced' => Quiet') /\ (object' = "dead" => Unknown')
    <2>1. /\ call[c].todo = <<>> /\ Scheduled(c)
          /\ UNCHANGED <<queue, active, daemon>>
          /\ silent' = (silent \/ (c \in calm /\ call[c].ok)) /\ calm' = calm \ {c}
          /\ object' \in {object, "dead"} /\ (object' # object => call[c].op = "destroy")
        BY <1>6 DEF Return
    <2>2. call'[c] = Idle /\ \A d \in Caller : d # c => call'[d] = call[d]
        BY <1>6 DEF Return, TypeOK
    <2>3. ~Stopped(c)' /\ ~Destroyed(c)'
        BY <2>1, <2>2 DEF Stopped, Destroyed, Idle
    <2>4. Silenced' => Silenced
        BY <2>1, <2>2, <2>3 DEF Silenced, Stopped, Destroyed
    <2>5. ASSUME object' = "dead"
          PROVE  Unknown
        <3>1. CASE object = "dead"
            BY <1>q, <3>1
        <3>2. CASE object # "dead"
            <4>1. Destroyed(c) /\ c \in Task
                BY <2>1, <2>5, <3>2 DEF Destroyed, Orderly
            <4>2. Quiet
                BY <1>q, <4>1 DEF Silenced
            <4>3. queue = <<>>
                BY <1>b, <1>d, <2>1, <4>1, <4>2 DEF Scheduled, DaemonBlocked
            <4>4. QED
                BY <4>2, <4>3 DEF Quiet, Unknown, Ours
        <3>3. QED
            BY <3>1, <3>2
    <2>6. QED
        BY <1>q, <1>u, <2>1, <2>4, <2>5
<1>s. ASSUME UNCHANGED <<silent, object, call, calm>>
      PROVE  Silenced' => Silenced
    BY <1>s DEF Silenced, Stopped, Destroyed
<1>7. CASE Expire \/ CallbackReturns
    <2>1. ~Quiet
        BY <1>7, <1>b DEF Expire, CallbackReturns, Quiet
    <2>2. UNCHANGED <<silent, object, call, calm>>
        BY <1>7 DEF Expire, CallbackReturns
    <2>3. QED
        BY <1>q, <1>s, <2>1, <2>2, UnknownIsQuiet
<1>8. CASE Process \/ PostOther
    <2>1. Quiet => Quiet'
        BY <1>8, QuietProcess, QuietAppend DEF PostOther, Word, Runs
    <2>2. UNCHANGED <<silent, object, call, calm>>
        BY <1>8 DEF Process, PostOther
    <2>3. QED
        BY <1>8, <1>q, <1>s, <2>1, <2>2, UnknownKept
<1>9. CASE Drained \/ UNCHANGED vars
    <2>1. UNCHANGED <<silent, object, call, calm, queue, active>> /\ (daemon' = daemon \/ daemon' = "wait")
        BY <1>9 DEF Drained, vars
    <2>2. (Quiet => Quiet') /\ (Unknown => Unknown')
        BY <2>1 DEF Quiet, Unknown, Ours
    <2>3. QED
        BY <1>q, <1>s, <2>1, <2>2
<1>10. QED
    BY <1>1, <1>2, <1>3, <1>4, <1>5, <1>6, <1>7, <1>8, <1>9 DEF Next, Continue, DaemonStep
-----------------------------------------------------------------------------
LEMMA TimerInvInit == Init => TimerInv
<1> SUFFICES ASSUME Init
             PROVE  TimerInv
    OBVIOUS
<1>1. \A c \in Caller : call[c] = Idle
    BY DEF Init
<1>2. Idle.op = "none" /\ Idle.todo = <<>> /\ <<>> \in Remaining("none")
    BY DEF Idle, Remaining
<1>3. Orderly
    BY <1>1, <1>2 DEF Init, Orderly
<1>4. Lifetime
    BY <1>1, <1>2 DEF Init, Lifetime
<1>5. Unknown
    BY DEF Init, Unknown, Ours
<1>6. Handled
    BY <1>1, <1>2, <1>5 DEF Handled, Creating
<1>7. DaemonAtRest
    BY <1>1 DEF DaemonAtRest, Caller
<1>8. Silence
    BY <1>5, UnknownIsQuiet DEF Silence
<1>9. LastCallWins
    BY DEF Init, LastCallWins, WillRun, Ours
<1>10. NeverRecreated
    BY DEF Init, NeverRecreated
<1>11. QED
    BY <1>3, <1>4, <1>6, <1>7, <1>8, <1>9, <1>10, TimerTypeInit DEF TimerInv

LEMMA TimerInvariance ==
    ASSUME OneStarter
    PROVE  Spec => []TimerInv
<1>1. TimerInv /\ [Next]_vars => TimerInv'
    BY TimerTypeNext, OrderlyNext, LifetimeNext, HandledNext, OneStarter, DaemonAtRestNext,
       SilenceNext, WinsNext, RecreatedNext
    DEF TimerInv
<1>2. QED
    BY <1>1, TimerInvInit, PTL DEF Spec

(* The last call that succeeded decides whether the timer will run when    *)
(* the daemon has caught up, however calls, rejections and expiries are    *)
(* interleaved.                                                            *)
THEOREM LastCallDecides ==
    ASSUME OneStarter
    PROVE  Spec => []LastCallWins
<1>1. TimerInv => LastCallWins
    BY DEF TimerInv
<1>2. QED
    BY <1>1, TimerInvariance, OneStarter, PTL

(* start() initialises xBuffer only while the kernel neither has the timer *)
(* in its list nor a command to it in its queue.                           *)
THEOREM CreationIsSafe ==
    ASSUME OneStarter
    PROVE  Spec => []NeverRecreated
<1>1. TimerInv => NeverRecreated
    BY DEF TimerInv
<1>2. QED
    BY <1>1, TimerInvariance, OneStarter, PTL

(* Where the daemon runs before its callers, no on_timer() is under way or *)
(* begins after stop() has returned true, until somebody starts the timer. *)
THEOREM StopIsSilent ==
    ASSUME OneStarter
    PROVE  Spec => []StoppedStaysSilent
<1>1. TimerInv => StoppedStaysSilent
    BY DEF TimerInv, Silence, Quiet, StoppedStaysSilent
<1>2. QED
    BY <1>1, TimerInvariance, OneStarter, PTL

(* There the kernel knows nothing of the timer when ~SoftwareTimer is over *)
(* and its memory is gone.                                                 *)
THEOREM DestructionIsComplete ==
    ASSUME OneStarter
    PROVE  Spec => []DeadIsForgotten
<1>1. TimerInv => DeadIsForgotten
    BY DEF TimerInv, Silence, Unknown, DeadIsForgotten
<1>2. QED
    BY <1>1, TimerInvariance, OneStarter, PTL
=============================================================================
