---------------------------- MODULE MCPrimitives ----------------------------
(***************************************************************************)
(* TLC instance of the four primitives everything else stands on: the      *)
(* ticket lock, the ring buffer, the heap and the IPIs.  They share no     *)
(* state, so a behaviour works on one of them: "part" says on which.       *)
(***************************************************************************)
EXTENDS TicketLock, Fifo, Heap, Ipi

VARIABLE part

prim_vars == <<part, lock_vars, fifo_vars, heap_vars, ipi_vars>>

\* A callback in the manner of tlb_update_cb(): a larger request replaces a smaller
\* one, an equal one is skipped.
MCVerdict(v, e) == IF v = e + 1 THEN "UPDATED" ELSE IF v = e THEN "SKIP" ELSE "UNCHANGED"
MCMerge(v, e) == v

CONSTANTS h1, h2, h3

\* Two harts send, the second to itself and it stops or suspends itself; the third
\* starts it again and resets.
MCCalls == (h1 :> {"send"}) @@ (h2 :> {"send", "stop", "suspend"}) @@ (h3 :> {"start", "reset"})

PrimInit ==
  /\ part \in {"lock", "fifo", "heap", "ipi"}
  /\ LockInit /\ FifoInit /\ HeapInit /\ IpiAtBoot

PrimNext ==
  /\ UNCHANGED part
  /\ \/ part = "lock" /\ LockNext /\ UNCHANGED <<fifo_vars, heap_vars, ipi_vars>>
     \/ part = "fifo" /\ FifoNext /\ UNCHANGED <<lock_vars, heap_vars, ipi_vars>>
     \/ part = "heap" /\ HeapNext /\ UNCHANGED <<lock_vars, fifo_vars, ipi_vars>>
     \/ part = "ipi" /\ IpiNext /\ UNCHANGED <<lock_vars, fifo_vars, heap_vars>>

\* The fair steps of a part at rest are disabled, so its fairness asks nothing of it.
PrimSpec ==
  /\ PrimInit /\ [][PrimNext]_prim_vars
  /\ LockFair /\ IpiFair
=============================================================================
