---------------------------- MODULE BoundedQueue ----------------------------
(***************************************************************************)
(* What a struct sbi_fifo promises its users: a queue of at most Capacity  *)
(* items that returns them in the order they were put in, whose items may  *)
(* be edited in place by a callback and whose oldest item a forced enqueue *)
(* pushes out.                                                             *)
(***************************************************************************)
EXTENDS Naturals, Sequences

CONSTANTS Data, Capacity, Verdict(_, _), Merge(_, _)

VARIABLES
  items,      \* the queue, oldest first
  ret         \* what the last call returned

vars == <<items, ret>>

Init == items = << >> /\ ret = <<"none">>

Put(v) ==
  /\ Len(items) < Capacity
  /\ items' = Append(items, v)
  /\ ret' = <<"OK">>

Refuse == Len(items) = Capacity /\ ret' = <<"ENOSPC">> /\ UNCHANGED items

PushOut(v) ==
  /\ Len(items) = Capacity
  /\ items' = Append(Tail(items), v)
  /\ ret' = <<"OK">>

Get ==
  \/ items # << >> /\ ret' = <<"data", Head(items)>> /\ items' = Tail(items)
  \/ items = << >> /\ ret' = <<"ENOENT">> /\ UNCHANGED items

\* The first item the callback has a verdict on is the one it edits.
Edit(v) ==
  \/ \E i \in 1..Len(items) :
       /\ Verdict(v, items[i]) # "UNCHANGED"
       /\ \A j \in 1..(i - 1) : Verdict(v, items[j]) = "UNCHANGED"
       /\ items' = [items EXCEPT ![i] = Merge(v, @)]
       /\ ret' = <<Verdict(v, items[i])>>
  \/ /\ \A i \in 1..Len(items) : Verdict(v, items[i]) = "UNCHANGED"
     /\ ret' = <<"UNCHANGED">>
     /\ UNCHANGED items

Clear == items' = << >> /\ ret' = <<"OK">>

Look ==
  /\ ret' \in {<<"avail", Len(items)>>, <<"full", Len(items) = Capacity>>,
               <<"empty", Len(items) = 0>>}
  /\ UNCHANGED items

Next ==
  \/ \E v \in Data : Put(v) \/ PushOut(v) \/ Edit(v)
  \/ Refuse \/ Get \/ Clear \/ Look

Spec == Init /\ [][Next]_vars
=============================================================================
