------------------------------- MODULE Ports -------------------------------
(***************************************************************************)
(* SafeSerial, SafeWire and SafeSPI: a port of the microcontroller and a   *)
(* mutex, over the guards of LockGuards.  Every method takes a UniqueLock, *)
(* talks to the hardware if it owns it, and returns; the guard is          *)
(* destroyed last.  A SafeSerial::Locked keeps its guard as long as it     *)
(* lives, and the program may call any method in its scope.                *)
(*                                                                         *)
(* A transaction on the hardware is what must not be mixed with another:   *)
(* what is printed under one lock, from beginTransmission to               *)
(* endTransmission or the end of requestFrom, while the chip select is low.*)
(***************************************************************************)
EXTENDS LockGuards

CONSTANTS Quantity,        (* the bytes a read_register asks for             *)
          Unstopped        (* stands for the user of a bus that a failed     *)
                           (* endTransmission(false) has left without a stop *)

(* The mutexes are those of the ports, named after their classes.          *)
ASSUME PortAssumption ==
    /\ Mutex \subseteq {"SafeSerial", "SafeWire", "SafeSPI"}
    /\ Kind = {"UniqueLock"}
    /\ Quantity \in Nat \ {0}
    /\ Unstopped \notin Task \cup {NoTask}

VARIABLES frames,          (* the method each guard of a task belongs to     *)
          bus,             (* whose transaction is open on a port: a task's, *)
                           (* NoTask's or nobody's any more (Unstopped)      *)
          rx               (* TwoWire's receive buffer: whose request filled *)
                           (* it, and the bytes not yet read                 *)

ports == <<frames, bus, rx>>

portVars == <<vars, ports>>

Method == {"Locked", "print", "write_register", "read_register", "transfer"}

PortOf(op) ==
    CASE op \in {"Locked", "print"} -> "SafeSerial"
      [] op \in {"write_register", "read_register"} -> "SafeWire"
      [] op = "transfer" -> "SafeSPI"

(* What a method does with the hardware, a step at a time.                 *)
Body(op) ==
    CASE op = "Locked"         -> <<>>
      [] op = "print"          -> <<"begin", "end">>
      [] op = "write_register" -> <<"begin", "put", "end">>
      [] op = "read_register"  -> <<"begin", "put", "address", "request">>
                                  \o [i \in 1 .. Quantity |-> "read"]
      [] op = "transfer"       -> <<"begin", "put", "end">>

Frame == [op : Method, todo : Seq({"begin", "put", "end", "address", "request", "read"}),
          got : Nat, ok : BOOLEAN]

Top(t) == Len(guards[t])

Guarding(t) == guards[t][Top(t)]

(* Mutant: the method does not ask whether it owns the lock.               *)
MayTalk_unasked(t) == TRUE

MayTalk(t) == Guarding(t).is_locked

-----------------------------------------------------------------------------
(* A method is called, at top level or in the scope of a Locked; it        *)
(* returns at once if there is no mutex.                                   *)
Open(t, op, wait) ==
    LET m == PortOf(op)
    IN  /\ m \in Mutex
        /\ op # "Locked" => m \in exists
        /\ guards[t] # <<>> => frames[t][Top(t)].op = "Locked"
        /\ Construct(t, "UniqueLock", m, wait)
        /\ frames' = [frames EXCEPT ![t] =
                         Append(@, [op |-> op, todo |-> Body(op), got |-> 0, ok |-> FALSE])]
        /\ UNCHANGED <<bus, rx>>

Talking(t) ==
    /\ Runs(t)
    /\ guards[t] # <<>>
    /\ frames[t][Top(t)].todo # <<>>
    /\ MayTalk(t)

NextStep(t) == Head(frames[t][Top(t)].todo)

(* The frame goes on; a method whose last step this was returns true.      *)
Advance(t, got) ==
    LET f == frames[t][Top(t)]
    IN  frames' = [frames EXCEPT ![t][Top(t)] =
                      [f EXCEPT !.todo = Tail(@), !.got = @ + got, !.ok = Tail(f.todo) = <<>>]]

(* It returns false.                                                       *)
GiveUp(t) == frames' = [frames EXCEPT ![t][Top(t)].todo = <<>>]

SetBus(t, user) == bus' = [bus EXCEPT ![Guarding(t).mutex] = user]

(* beginTransmission, write, transfer, the chip select goes low.           *)
Talk(t) ==
    /\ Talking(t)
    /\ NextStep(t) \in {"begin", "put"}
    /\ SetBus(t, t)
    /\ Advance(t, 0)
    /\ UNCHANGED <<vars, rx>>

(* endTransmission, which may fail; the chip select goes high.             *)
Finish(t) ==
    /\ Talking(t)
    /\ NextStep(t) = "end"
    /\ SetBus(t, NoTask)
    /\ Advance(t, 0) \/ (Guarding(t).mutex = "SafeWire" /\ GiveUp(t))
    /\ UNCHANGED <<vars, rx>>

(* endTransmission(false) keeps the bus.  If the device does not answer    *)
(* the method returns at once; whether the bus gets its stop is up to the  *)
(* core's TwoWire.                                                         *)
Address(t) ==
    /\ Talking(t)
    /\ NextStep(t) = "address"
    /\ \/ SetBus(t, t) /\ Advance(t, 0)
       \/ (\E left \in {NoTask, Unstopped} : SetBus(t, left)) /\ GiveUp(t)
    /\ UNCHANGED <<vars, rx>>

(* Mutant: bytes_received is not looked at.                                *)
Enough_any(received) == TRUE

Enough(received) == received = Quantity

(* requestFrom: the device may send less.                                  *)
Request(t) ==
    /\ Talking(t)
    /\ NextStep(t) = "request"
    /\ SetBus(t, NoTask)
    /\ \E received \in 0 .. Quantity :
          /\ rx' = [by |-> t, n |-> received]
          /\ IF Enough(received) THEN Advance(t, 0) ELSE GiveUp(t)
    /\ UNCHANGED vars

(* A byte is read if there is one.                                         *)
Read(t) ==
    /\ Talking(t)
    /\ NextStep(t) = "read"
    /\ rx' = [rx EXCEPT !.n = IF @ > 0 THEN @ - 1 ELSE 0]
    /\ Advance(t, IF rx.n > 0 /\ rx.by = t THEN 1 ELSE 0)
    /\ UNCHANGED <<vars, bus>>

(* print, println and << of a Locked.                                      *)
LockedPrint(t) ==
    /\ Runs(t)
    /\ guards[t] # <<>>
    /\ frames[t][Top(t)].op = "Locked"
    /\ MayTalk(t)
    /\ SetBus(t, t)
    /\ UNCHANGED <<vars, frames, rx>>

(* The method returns, or the Locked goes out of scope: what it printed is *)
(* complete.                                                               *)
Close(t) ==
    /\ guards[t] # <<>>
    /\ MayTalk(t) => frames[t][Top(t)].todo = <<>>
    /\ Destroy(t)
    /\ frames' = [frames EXCEPT ![t] = SubSeq(@, 1, Len(@) - 1)]
    /\ \/ frames[t][Top(t)].op = "Locked" /\ Guarding(t).is_locked /\ SetBus(t, NoTask)
       \/ ~(frames[t][Top(t)].op = "Locked" /\ Guarding(t).is_locked) /\ UNCHANGED bus
    /\ UNCHANGED rx

Wake(t) == (Grant(t) \/ Timeout(t)) /\ UNCHANGED ports

-----------------------------------------------------------------------------
PortInit ==
    /\ Init
    /\ frames = [t \in Task |-> <<>>]
    /\ bus = [m \in AnyMutex |-> NoTask]
    /\ rx \in [by : Task, n : {0}]

PortStep(t) ==
    \/ \E op \in Method, wait \in Wait : Open(t, op, wait)
    \/ Talk(t) \/ Finish(t) \/ Address(t) \/ Request(t) \/ Read(t)
    \/ LockedPrint(t)
    \/ Close(t)
    \/ Wake(t)

PortNext == \E t \in Task : PortStep(t)

PortSpec == PortInit /\ [][PortNext]_portVars

-----------------------------------------------------------------------------
PortTypeOK ==
    /\ TypeOK
    /\ frames \in [Task -> Seq(Frame)]
    /\ \A t \in Task : Len(frames[t]) = Len(guards[t])
    /\ bus \in [AnyMutex -> Task \cup {NoTask, Unstopped}]
    /\ rx \in [by : Task, n : 0 .. Quantity]

(* A line, a register access or a transfer is never mixed with another     *)
(* one: while it is open its task has the port's mutex, whoever times out, *)
(* whatever is called in the scope of a Locked, and however the method     *)
(* returns (SafeWire.cpp:45-72).  It does not say that the bus has had its *)
(* stop when the mutex is free: after SafeWire.cpp:55-56 it may not have.  *)
TransactionsUnderLock ==
    \A m \in AnyMutex : bus[m] \in Task => holder[m] = bus[m]

(* A read_register that returns true has filled its buffer, with bytes     *)
(* that its own request has brought (SafeWire.cpp:58-69).                  *)
ReadsAreWhole ==
    \A t \in Task : \A i \in DOMAIN frames[t] :
        frames[t][i].op = "read_register" /\ frames[t][i].ok => frames[t][i].got = Quantity
=============================================================================
