------------------------------ MODULE FifoLock ------------------------------
(***************************************************************************)
(* What spin_lock(), spin_trylock() and spin_unlock() promise: harts are   *)
(* admitted one at a time, in the order in which they asked.               *)
(***************************************************************************)
EXTENDS Sequences, Naturals

CONSTANT Harts

VARIABLES
  queue,    \* the harts that asked and have not left, in order of arrival
  inside    \* the harts in the critical section

vars == <<queue, inside>>

Init == queue = <<>> /\ inside = {}

Waiting(h) == \E i \in 1 .. Len(queue) : queue[i] = h

\* Queue up behind the others.
Ask(h) ==
  /\ ~Waiting(h)
  /\ queue' = Append(queue, h)
  /\ UNCHANGED inside

\* Find nobody in the queue and walk in.
WalkIn(h) ==
  /\ queue = <<>>
  /\ queue' = <<h>>
  /\ inside' = {h}

\* The head of the queue is admitted once the lock is empty.
Admit(h) ==
  /\ queue # <<>>
  /\ h = queue[1]
  /\ inside = {}
  /\ inside' = {h}
  /\ UNCHANGED queue

\* The hart inside, which heads the queue, leaves.
Leave(h) ==
  /\ inside = {h}
  /\ h = queue[1]
  /\ queue' = Tail(queue)
  /\ inside' = {}

Next == \E h \in Harts : Ask(h) \/ WalkIn(h) \/ Admit(h) \/ Leave(h)

Spec == Init /\ [][Next]_vars
=============================================================================
