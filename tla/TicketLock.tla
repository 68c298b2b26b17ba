----------------------------- MODULE TicketLock -----------------------------
(***************************************************************************)
(* The ticket spinlock of OpenSBI (lib/sbi/riscv_locks.c).                 *)
(*                                                                         *)
(* A lock is one 32-bit word made of two u16 counters: "next", the ticket  *)
(* the next arrival will draw, and "owner", the ticket being served.  The  *)
(* counters wrap: TicketMod stands for 2^16 and is a parameter so that TLC *)
(* can reach the wrap.  Every step below is one access to the lock word.   *)
(***************************************************************************)
EXTENDS Integers, FiniteSets

CONSTANTS
  LockHarts,      \* the harts that may contend for the lock
  TicketMod   \* number of ticket values, 2^TICKET_SHIFT in the code

\* Fewer harts than tickets: SBI_HARTMASK_MAX_BITS is 128, TicketMod is 65536.
ASSUME TicketAssumption ==
  /\ IsFiniteSet(LockHarts)
  /\ TicketMod \in Nat
  /\ Cardinality(LockHarts) < TicketMod

VARIABLES
  owner,     \* u16, the ticket being served
  next,      \* u16, the next ticket to hand out
  ticket,    \* per hart, the ticket register of spin_lock()
  lock_pc,        \* per hart: "out", "spin", "reserved" (between lr.w and sc.w),
             \* "retry" (sc.w failed) or "held"
  reserved   \* the harts whose lr.w reservation on the lock word is still valid

lock_vars == <<owner, next, ticket, lock_pc, reserved>>

Tickets == 0 .. TicketMod - 1

\* u16 increment.
Succ(t) == IF t + 1 = TicketMod THEN 0 ELSE t + 1

LockTypeOK ==
  /\ owner \in Tickets
  /\ next \in Tickets
  /\ ticket \in [LockHarts -> Tickets]
  /\ lock_pc \in [LockHarts -> {"out", "spin", "reserved", "retry", "held"}]
  /\ reserved \in SUBSET LockHarts

LockInit ==
  /\ owner = 0
  /\ next = 0
  /\ ticket = [h \in LockHarts |-> 0]
  /\ lock_pc = [h \in LockHarts |-> "out"]
  /\ reserved = {}

\* spin_lock_unlocked()
Unlocked == owner = next

\* spin_lock(): amoadd draws a ticket and returns the word, so the first
\* comparison with owner is made on the very value the ticket came from.
SpinLock(h) ==
  /\ lock_pc[h] = "out"
  /\ ticket' = [ticket EXCEPT ![h] = next]
  /\ next' = Succ(next)
  /\ lock_pc' = [lock_pc EXCEPT ![h] = IF Unlocked THEN "held" ELSE "spin"]
  /\ reserved' = {}
  /\ UNCHANGED owner

\* Bug: the spin loop waits for its ticket to be passed, not served.
SpinReloadLate(h) ==
  /\ lock_pc[h] = "spin"
  /\ Succ(ticket[h]) = owner
  /\ lock_pc' = [lock_pc EXCEPT ![h] = "held"]
  /\ UNCHANGED <<owner, next, ticket, reserved>>

\* Bug: the spin loop takes any hand-over for its own.
SpinReloadAny(h) ==
  /\ lock_pc[h] = "spin"
  /\ \A g \in LockHarts : lock_pc[g] # "held"
  /\ lock_pc' = [lock_pc EXCEPT ![h] = "held"]
  /\ UNCHANGED <<owner, next, ticket, reserved>>

\* spin_lock(), the lw of the spin loop that finds its ticket served.
SpinReload(h) ==
  /\ lock_pc[h] = "spin"
  /\ ticket[h] = owner
  /\ lock_pc' = [lock_pc EXCEPT ![h] = "held"]
  /\ UNCHANGED <<owner, next, ticket, reserved>>

\* spin_trylock(): lr.w of a free lock.
TryLoadReserved(h) ==
  /\ lock_pc[h] \in {"out", "retry"}
  /\ Unlocked
  /\ lock_pc' = [lock_pc EXCEPT ![h] = "reserved"]
  /\ ticket' = [ticket EXCEPT ![h] = next]
  /\ reserved' = reserved \cup {h}
  /\ UNCHANGED <<owner, next>>

\* Bug: an sc.w that succeeds although the word was written since the lr.w.
TryStoreUnconditional(h) ==
  /\ lock_pc[h] = "reserved"
  /\ owner' = ticket[h]
  /\ next' = Succ(ticket[h])
  /\ lock_pc' = [lock_pc EXCEPT ![h] = "held"]
  /\ reserved' = {}
  /\ UNCHANGED ticket

\* spin_trylock(): sc.w of the whole word, owner half unchanged, on a valid
\* reservation; every other reservation is lost.
TryStoreConditional(h) ==
  /\ lock_pc[h] = "reserved"
  /\ h \in reserved
  /\ owner' = ticket[h]
  /\ next' = Succ(ticket[h])
  /\ lock_pc' = [lock_pc EXCEPT ![h] = "held"]
  /\ reserved' = {}
  /\ UNCHANGED ticket

\* spin_trylock(): sc.w fails (reservation lost, or spuriously), branch to lr.w.
TryRetry(h) ==
  /\ lock_pc[h] = "reserved"
  /\ lock_pc' = [lock_pc EXCEPT ![h] = "retry"]
  /\ reserved' = reserved \ {h}
  /\ UNCHANGED <<owner, next, ticket>>

\* spin_trylock(): lr.w of a taken lock, return false.  (The first lr.w of a call
\* that fails this way changes nothing and is a stuttering step.)
TryFail(h) ==
  /\ lock_pc[h] = "retry"
  /\ ~Unlocked
  /\ lock_pc' = [lock_pc EXCEPT ![h] = "out"]
  /\ UNCHANGED <<owner, next, ticket, reserved>>

\* spin_unlock(): a u16 store of owner + 1; a store to the word ends reservations.
SpinUnlock(h) ==
  /\ lock_pc[h] = "held"
  /\ owner' = Succ(owner)
  /\ lock_pc' = [lock_pc EXCEPT ![h] = "out"]
  /\ reserved' = {}
  /\ UNCHANGED <<next, ticket>>

LockNext ==
  \E h \in LockHarts :
    \/ SpinLock(h)
    \/ SpinReload(h)
    \/ TryLoadReserved(h)
    \/ TryStoreConditional(h)
    \/ TryRetry(h)
    \/ TryFail(h)
    \/ SpinUnlock(h)

LockSpec == LockInit /\ [][LockNext]_lock_vars

\* Fairness: a hart that spins keeps executing its loop and a critical
\* section ends.  M-mode runs both with interrupts disabled and every lock region is
\* straight-line code.
LockFair ==
  \A h \in LockHarts :
    /\ WF_lock_vars(SpinReload(h))
    /\ WF_lock_vars(SpinUnlock(h))

-----------------------------------------------------------------------------
\* How many tickets must be served before ticket t, counting modulo TicketMod.
Distance(t) == IF t >= owner THEN t - owner ELSE t - owner + TicketMod

\* The harts that have drawn a ticket and not been served to the end.
Contenders == {h \in LockHarts : lock_pc[h] \in {"spin", "held"}}

\* Safety: at most one hart is between spin_lock()/spin_trylock() and
\* spin_unlock(), whatever the counters have wrapped to.
MutualExclusion ==
  \A g, h \in LockHarts : lock_pc[g] = "held" /\ lock_pc[h] = "held" => g = h

\* The tickets in use are exactly the ones from owner to next - 1, each drawn by
\* one hart: no ticket is skipped (the lock would never be handed on) and none
\* is shared after a wrap.  With LockHarts below TicketMod this is what makes
\* "owner = next" mean "free" in spin_lock_unlocked().
TicketsOutstanding ==
  /\ \A h \in Contenders : Distance(ticket[h]) < Distance(next)
  /\ \A g, h \in Contenders : ticket[g] = ticket[h] => g = h
  /\ \A t \in Tickets :
       Distance(t) < Distance(next) => \E h \in Contenders : ticket[h] = t

\* A hart inside is the one being served, and a live reservation still holds the
\* value lr.w read: the word was free then and nobody has written it since.
ServedAndReserved ==
  /\ \A h \in LockHarts : lock_pc[h] = "held" => ticket[h] = owner
  /\ \A h \in reserved : lock_pc[h] = "reserved" /\ ticket[h] = next /\ Unlocked

\* The inductive invariant behind MutualExclusion.
TicketInv == LockTypeOK /\ TicketsOutstanding /\ ServedAndReserved

\* Liveness: a hart spinning in spin_lock() is eventually served.
SpinnerServed ==
  \A h \in LockHarts : lock_pc[h] = "spin" ~> lock_pc[h] = "held"

\* The abstract lock: the queue is the contenders in the order of their tickets.
Queue ==
  [i \in 1 .. Cardinality(Contenders) |->
     CHOOSE h \in Contenders : Distance(ticket[h]) = i - 1]

Abstract == INSTANCE FifoLock WITH
  Harts <- LockHarts,
  queue <- Queue,
  inside <- {h \in LockHarts : lock_pc[h] = "held"}

\* Refinement: the ticket word implements a first-come first-served lock.
ImplementsFifoLock == Abstract!Spec
=============================================================================
