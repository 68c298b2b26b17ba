-------------------------------- MODULE Fifo --------------------------------
(***************************************************************************)
(* The ring buffer of lib/sbi/sbi_fifo.c, behind the TLB request queues,   *)
(* the SSE inject queues and the early console.  Every function runs under *)
(* fifo->qlock, so each is one step.  tail is the index of the oldest      *)
(* entry; the next free one is found from tail and avail.                  *)
(***************************************************************************)
EXTENDS Naturals, Sequences

CONSTANTS
  Data,             \* what callers put in
  Zero,             \* an entry after sbi_memset()
  NumEntries,
  U16,              \* 2^16: tail and avail are u16
  Verdict(_, _),    \* fptr(in, entry): what a callback returns ...
  Merge(_, _)       \* ... and what it makes of the entry

ASSUME FifoAssumption ==
  /\ NumEntries \in Nat \ {0}
  /\ U16 \in Nat
  /\ NumEntries < U16
  /\ \A v, e \in Data : Verdict(v, e) \in {"SKIP", "UPDATED", "UNCHANGED"}
  /\ \A v, e \in Data : Merge(v, e) \in Data

VARIABLES queue, avail, tail,
  ret               \* what the last call returned

fifo_vars == <<queue, avail, tail, ret>>

Entries == Data \cup {Zero}

Cleared == [i \in 0..(NumEntries - 1) |-> Zero]

\* sbi_fifo_init()
FifoInit ==
  /\ queue = Cleared
  /\ avail = 0
  /\ tail = 0
  /\ ret = <<"none">>
-----------------------------------------------------------------------------
IsFull == avail = NumEntries
IsEmpty == avail = 0

\* Bug: the sum is kept in a u16, like its operands.
SlotU16(i) ==
  LET index == (tail + i) % U16
  IN  IF index >= NumEntries THEN index - NumEntries ELSE index

\* The ring position of the i-th entry (from 0); for i = avail the first free one.
Slot(i) ==
  LET index == tail + i
  IN  IF index >= NumEntries THEN index - NumEntries ELSE index

\* __sbi_fifo_dequeue(): tail after dropping the oldest entry.
Advance == IF tail + 1 >= NumEntries THEN 0 ELSE tail + 1

\* sbi_fifo_enqueue().  A full queue refuses, or with force loses its oldest entry;
\* the free slot is then the one just given up, which Slot(avail) already is.
Enqueue(data, force) ==
  \/ /\ IsFull /\ ~force
     /\ ret' = <<"ENOSPC">>
     /\ UNCHANGED <<queue, avail, tail>>
  \/ /\ IsFull /\ force
     /\ queue' = [queue EXCEPT ![tail] = data]
     /\ tail' = Advance
     /\ ret' = <<"OK">>
     /\ UNCHANGED avail
  \/ /\ ~IsFull
     /\ queue' = [queue EXCEPT ![Slot(avail)] = data]
     /\ avail' = avail + 1
     /\ ret' = <<"OK">>
     /\ UNCHANGED tail

\* sbi_fifo_dequeue()
Dequeue ==
  \/ /\ IsEmpty
     /\ ret' = <<"ENOENT">>
     /\ UNCHANGED <<queue, avail, tail>>
  \/ /\ ~IsEmpty
     /\ ret' = <<"data", queue[tail]>>
     /\ avail' = avail - 1
     /\ tail' = Advance
     /\ UNCHANGED queue

\* sbi_fifo_inplace_update(): the callback sees the entries oldest first and stops
\* the walk at its first SKIP or UPDATED.
InplaceUpdate(in) ==
  \/ \E i \in 0..(avail - 1) :
       /\ Verdict(in, queue[Slot(i)]) # "UNCHANGED"
       /\ \A j \in 0..(i - 1) : Verdict(in, queue[Slot(j)]) = "UNCHANGED"
       /\ queue' = [queue EXCEPT ![Slot(i)] = Merge(in, @)]
       /\ ret' = <<Verdict(in, queue[Slot(i)])>>
       /\ UNCHANGED <<avail, tail>>
  \/ /\ \A i \in 0..(avail - 1) : Verdict(in, queue[Slot(i)]) = "UNCHANGED"
     /\ ret' = <<"UNCHANGED">>
     /\ UNCHANGED <<queue, avail, tail>>

\* sbi_fifo_reset()
Reset ==
  /\ queue' = Cleared
  /\ avail' = 0
  /\ tail' = 0
  /\ ret' = <<"OK">>

\* sbi_fifo_avail(), sbi_fifo_is_full(), sbi_fifo_is_empty()
Query ==
  /\ ret' \in {<<"avail", avail>>, <<"full", IsFull>>, <<"empty", IsEmpty>>}
  /\ UNCHANGED <<queue, avail, tail>>

FifoNext ==
  \/ \E data \in Data, force \in BOOLEAN : Enqueue(data, force)
  \/ \E in \in Data : InplaceUpdate(in)
  \/ Dequeue \/ Reset \/ Query

FifoSpec == FifoInit /\ [][FifoNext]_fifo_vars
-----------------------------------------------------------------------------
\* The indices stay inside the ring, so that no access leaves queue_mem, and every
\* entry between tail and the free slot is one a caller put there.
FifoTypeOK ==
  /\ queue \in [0..(NumEntries - 1) -> Entries]
  /\ avail \in 0..NumEntries
  /\ tail \in 0..(NumEntries - 1)
  /\ \A i \in 0..(avail - 1) : queue[Slot(i)] \in Data

\* The queue the ring stands for: avail entries from tail on, oldest first.
Contents == [i \in 1..avail |-> queue[Slot(i - 1)]]

Q == INSTANCE BoundedQueue WITH items <- Contents, Capacity <- NumEntries

\* The ring is a bounded queue: wrapping, forcing an entry out, editing in place and
\* returning all act on the entries in the order they were put in.
ImplementsBoundedQueue == Q!Spec
=============================================================================
