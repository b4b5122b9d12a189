------------------------------- MODULE Deque -------------------------------
(***************************************************************************)
(* What a SafeRingBuffer promises its callers, free of slots and indices:  *)
(* a bounded double-ended sequence of values.  Every operation either      *)
(* succeeds at once or fails at once (SafeRingBuffer.hpp:33-36), and what  *)
(* the caller gets back is kept in ret, so that the promise covers results *)
(* as well as contents.                                                    *)
(***************************************************************************)
EXTENDS Integers, Sequences

CONSTANTS Capacity,  (* how many elements fit                     *)
          Value      (* the values of the element type T          *)

VARIABLES items,     (* the elements, front first                 *)
          ret        (* what the last operation gave its caller   *)

vars == <<items, ret>>

Policy == {"None", "Front", "Back"}

Result == [ok : BOOLEAN, out : Seq(Value)]

-----------------------------------------------------------------------------
(* An operation answers with the new contents and the values handed out.   *)

Succeed(newItems, out) ==
    /\ items' = newItems
    /\ ret' = [ok |-> TRUE, out |-> out]

Fail ==
    /\ ret' = [ok |-> FALSE, out |-> <<>>]
    /\ UNCHANGED items

DropFirst(s) == SubSeq(s, 2, Len(s))
DropLast(s) == SubSeq(s, 1, Len(s) - 1)

HasRoom(policy) == Len(items) < Capacity \/ policy # "None"

(* The contents once the policy has made room for one more element.        *)
Evicted(policy) ==
    CASE Len(items) < Capacity                      -> items
      [] Len(items) >= Capacity /\ policy = "Front" -> DropFirst(items)
      [] Len(items) >= Capacity /\ policy = "Back"  -> DropLast(items)

(* s with v between its first k elements and the rest; s without the       *)
(* element that follows the first k.                                       *)
Inserted(s, k, v) ==
    [n \in 1 .. Len(s) + 1 |->
        IF n <= k THEN s[n] ELSE IF n = k + 1 THEN v ELSE s[n - 1]]

Removed(s, k) ==
    [n \in 1 .. Len(s) - 1 |-> IF n <= k THEN s[n] ELSE s[n + 1]]

-----------------------------------------------------------------------------
push_back(v, policy) ==
    \/ /\ HasRoom(policy)
       /\ Succeed(Append(Evicted(policy), v), <<>>)
    \/ ~HasRoom(policy) /\ Fail

push_front(v, policy) ==
    \/ /\ HasRoom(policy)
       /\ Succeed(<<v>> \o Evicted(policy), <<>>)
    \/ ~HasRoom(policy) /\ Fail

pop_back ==
    \/ /\ items # <<>>
       /\ Succeed(DropLast(items), <<items[Len(items)]>>)
    \/ items = <<>> /\ Fail

pop_front ==
    \/ /\ items # <<>>
       /\ Succeed(DropFirst(items), <<items[1]>>)
    \/ items = <<>> /\ Fail

(* The index addresses the contents left by the eviction, and an index     *)
(* past their end means the end.                                           *)
insert(i, v, policy) ==
    \/ /\ i <= Len(items)
       /\ HasRoom(policy)
       /\ LET room == Evicted(policy)
              k == IF i <= Len(room) THEN i ELSE Len(room)
          IN  Succeed(Inserted(room, k, v), <<>>)
    \/ (i > Len(items) \/ ~HasRoom(policy)) /\ Fail

remove(i, wanted) ==
    \/ /\ i < Len(items)
       /\ Succeed(Removed(items, i), IF wanted THEN <<items[i + 1]>> ELSE <<>>)
    \/ i >= Len(items) /\ Fail

get(i) ==
    \/ /\ i < Len(items)
       /\ Succeed(items, <<items[i + 1]>>)
    \/ i >= Len(items) /\ Fail

back ==
    \/ /\ items # <<>>
       /\ Succeed(items, <<items[Len(items)]>>)
    \/ items = <<>> /\ Fail

(* The callback f sees the elements in order, may rewrite each one, and    *)
(* stops the traversal at the stop-th call at the latest.                  *)
for_each_until(f, stop) ==
    LET seen == IF stop <= Len(items) THEN stop ELSE Len(items)
    IN  Succeed([n \in 1 .. Len(items) |->
                    IF n <= seen THEN f[items[n]] ELSE items[n]],
                SubSeq(items, 1, seen))

clear == Succeed(<<>>, <<>>)

-----------------------------------------------------------------------------
Init ==
    /\ items = <<>>
    /\ ret = [ok |-> FALSE, out |-> <<>>]

Next ==
    \/ \E v \in Value, policy \in Policy :
          \/ push_back(v, policy)
          \/ push_front(v, policy)
          \/ \E i \in 0 .. Capacity + 1 : insert(i, v, policy)
    \/ pop_back
    \/ pop_front
    \/ \E i \in 0 .. Capacity, wanted \in BOOLEAN : remove(i, wanted)
    \/ \E i \in 0 .. Capacity : get(i)
    \/ back
    \/ \E f \in [Value -> Value], stop \in 1 .. Capacity :
          for_each_until(f, stop)
    \/ clear

Spec == Init /\ [][Next]_vars
=============================================================================
