---------------------------- MODULE EventGroups ----------------------------
(***************************************************************************)
(* EventGroup (EventGroups.cpp).  Setting bits releases every task whose   *)
(* condition they meet, and then clears what the released tasks asked to   *)
(* have cleared; a released task returns with the bits of that moment.     *)
(* What an interrupt sets or clears is posted to the timer daemon, which   *)
(* does it later.                                                          *)
(***************************************************************************)
EXTENDS Scheduler

CONSTANTS Bit,
          GroupCalls,      (* the calls considered, of each task             *)
          IsrBits,         (* what interrupts set and clear                  *)
          PendedLength     (* the daemon's queue; 0 on AVR, where the        *)
                           (* _from_isr forms always fail                    *)

GroupOp == {"set", "clear", "wait_any", "wait_all", "sync"}

(* The kernel clears the bits of a completed rendezvous unasked.           *)
ASSUME GroupAssumption ==
    /\ \A t \in Task : \A c \in GroupCalls[t] :
          /\ c \in AnyCall /\ c.op \in GroupOp
          /\ c.set \subseteq Bit /\ c.want \subseteq Bit
          /\ c.op = "sync" => c.clear
    /\ IsrBits \subseteq SUBSET Bit
    /\ PendedLength \in Nat

VARIABLES bits,            (* the event bits                                 *)
          pended,          (* what interrupts have posted to the daemon      *)
          arrived,         (* history: the bits set since a task's last      *)
                           (* rendezvous                                     *)
          ghosts           (* history: the tasks that have met with somebody *)
                           (* who had not come again                         *)

group == <<bits, pended, arrived, ghosts>>

GroupInit ==
    /\ bits = {}
    /\ pended = <<>>
    /\ arrived = [t \in Task |-> {}]
    /\ ghosts = {}

Waits == {"wait_any", "wait_all", "sync"}

Satisfied(c, b) == IF c.op = "wait_any" THEN c.want \cap b # {} ELSE c.want \subseteq b

(* The waiting tasks that setting b releases, and the bits it leaves.      *)
Released(b) == {t \in Waiting(Waits) : Satisfied(call[t], bits \cup b)}

Left(b) == (bits \cup b) \ UNION {call[t].want : t \in {u \in Released(b) : call[u].clear}}

(* b is set, and the tasks ts complete a rendezvous by it.                 *)
Arrive(b, ts) ==
    LET Seen(t) == arrived[t] \cup b
    IN  /\ ghosts' = ghosts \cup {t \in ts : ~(call[t].want \subseteq Seen(t))}
        /\ arrived' = [t \in Task |-> IF t \in ts THEN {} ELSE Seen(t)]

Syncing(ts) == {t \in ts : call[t].op = "sync"}

-----------------------------------------------------------------------------
set(t) ==
    LET b == call[t].set
    IN  /\ Tries(t, {"set"})
        /\ bits' = Left(b)
        /\ Arrive(b, Syncing(Released(b)))
        /\ Return(t, Released(b))
        /\ UNCHANGED pended

clear(t) ==
    /\ Tries(t, {"clear"})
    /\ bits' = bits \ call[t].set
    /\ Return(t, {})
    /\ UNCHANGED <<pended, arrived, ghosts>>

(* wait_any, wait_all: a released task has its answer, the others look.    *)
wait(t) ==
    /\ Tries(t, {"wait_any", "wait_all"})
    /\ \/ /\ call[t].phase = "woken"
          /\ Return(t, {})
          /\ UNCHANGED bits
       \/ /\ call[t].phase # "woken" /\ Satisfied(call[t], bits)
          /\ bits' = IF call[t].clear THEN bits \ call[t].want ELSE bits
          /\ Return(t, {})
       \/ /\ call[t].phase # "woken" /\ ~Satisfied(call[t], bits)
          /\ BlockOrRefuse(t, {})
          /\ UNCHANGED bits
    /\ UNCHANGED <<pended, arrived, ghosts>>

(* Mutant: sync is a set followed by a wait_all that clears nothing.       *)
AfterRendezvous_kept(b, want) == b

(* Who completes a rendezvous clears its bits.                             *)
AfterRendezvous(b, want) == b \ want

(* The first try sets the bits, whatever becomes of the call.              *)
sync(t) ==
    LET b == call[t].set
        ts == Released(b)
        want == call[t].want
    IN  /\ Tries(t, {"sync"})
        /\ \/ /\ call[t].phase = "trying" /\ want \subseteq bits \cup b
              /\ bits' = AfterRendezvous(Left(b), want)
              /\ Arrive(b, Syncing(ts) \cup {t})
              /\ Return(t, ts)
           \/ /\ call[t].phase = "trying" /\ ~(want \subseteq bits \cup b)
              /\ bits' = Left(b)
              /\ Arrive(b, Syncing(ts))
              /\ BlockOrRefuse(t, ts)
           \/ /\ call[t].phase = "late" /\ want \subseteq bits
              /\ bits' = AfterRendezvous(bits, want)
              /\ Arrive({}, {t})
              /\ Return(t, {})
           \/ /\ call[t].phase = "late" /\ ~(want \subseteq bits)
              /\ Refuse(t, {})
              /\ UNCHANGED <<bits, arrived, ghosts>>
           \/ /\ call[t].phase = "woken"
              /\ Return(t, {})
              /\ UNCHANGED <<bits, arrived, ghosts>>
        /\ UNCHANGED pended

-----------------------------------------------------------------------------
Post(op, b) ==
    /\ Len(pended) < PendedLength
    /\ pended' = Append(pended, [op |-> op, set |-> b])
    /\ UNCHANGED <<bits, arrived, ghosts>>

set_from_isr(b, flagged) == Post("set", b) /\ IsrCall(Waiting({"serve"}), flagged)

(* It has nobody to report to: the daemon runs when somebody else switches.*)
clear_from_isr(b) == Post("clear", b) /\ IsrWakes(Waiting({"serve"})) /\ UNCHANGED isr

(* The daemon carries out what was posted, in its order.                   *)
Serve ==
    /\ Tries(Daemon, {"serve"})
    /\ \/ /\ pended = <<>>
          /\ Block(Daemon, {})
          /\ UNCHANGED group
       \/ /\ pended # <<>>
          /\ LET cmd == Head(pended)
                 b == IF cmd.op = "set" THEN cmd.set ELSE {}
                 ts == IF cmd.op = "set" THEN Released(b) ELSE {}
             IN  /\ bits' = IF cmd.op = "set" THEN Left(b) ELSE bits \ cmd.set
                 /\ Arrive(b, Syncing(ts))
                 /\ Reschedule(Woken(call, ts))
          /\ pended' = Tail(pended)
          /\ UNCHANGED <<exists, suspended, isr, refused>>

GroupStep ==
    \/ \E t \in Task : set(t) \/ clear(t) \/ wait(t) \/ sync(t)
    \/ \E b \in IsrBits : clear_from_isr(b) \/ \E flagged \in BOOLEAN : set_from_isr(b, flagged)
    \/ Serve

-----------------------------------------------------------------------------
GroupTypeOK ==
    /\ bits \subseteq Bit
    /\ pended \in Seq([op : {"set", "clear"}, set : SUBSET Bit]) /\ Len(pended) <= PendedLength
    /\ arrived \in [Task -> SUBSET Bit]
    /\ ghosts \subseteq Task

(* A set is a broadcast: nobody is left waiting for bits that are there.   *)
SatisfiedAreReleased == \A t \in Waiting(Waits) : ~Satisfied(call[t], bits)

(* An arrival counts for one rendezvous: nobody completes sync() twice on  *)
(* the same bit of a partner, neither when partners give up and come again *)
(* nor when the bits that one who gave up has left behind are still there. *)
ArrivalsCountOnce == ghosts = {}
=============================================================================
