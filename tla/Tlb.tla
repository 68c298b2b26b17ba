-------------------------------- MODULE Tlb --------------------------------
(***************************************************************************)
(* Remote fences (lib/sbi/sbi_tlb.c) over the IPI layer (lib/sbi/sbi_ipi.c)*)
(* and the request queues (lib/sbi/sbi_fifo.c).                            *)
(*                                                                         *)
(* A hart puts its request in the queue of every target, or merges it into *)
(* a request already there, counts the target in its own tlb_sync, raises  *)
(* an IPI, and waits until the targets have counted tlb_sync back down,    *)
(* serving its own queue meanwhile.  Each access to shared memory is one   *)
(* step; a queue operation, under its lock, is one step too (module Fifo). *)
(***************************************************************************)
EXTENDS Integers, Sequences, FiniteSets, FiniteSetsExt

CONSTANTS
  Harts,        \* hart indices
  Loads,        \* what S-mode may do, see IsLoad
  Asids, Vmids,
  HasH,         \* the hypervisor extension is there (misa.H)
  XLen,         \* 2^xlen in pages: addresses and sizes wrap here
  FlushLimit,   \* tlb_range_flush_limit, in pages
  NumEntries    \* capacity of a request queue

HTypes == {"HFENCE_GVMA", "HFENCE_GVMA_VMID", "HFENCE_VVMA", "HFENCE_VVMA_ASID"}
Types == {"FENCE_I", "SFENCE_VMA", "SFENCE_VMA_ASID"} \cup HTypes

\* A request, its range in whole pages.  A hart's HGATP gives a VVMA fence its vmid.
RequestType == [type : Types, start : 0..(XLen - 1), size : 0..(XLen - 1),
                asid : Asids, vmid : Vmids]

(***************************************************************************)
(* What S-mode decides:                                                    *)
(*   senders   the harts that ask for remote fences                        *)
(*   requests  what they ask for                                           *)
(*   masks     the hart masks they pass                                    *)
(*   stops     whether harts stop                                          *)
(***************************************************************************)
IsLoad(l) ==
  /\ l.senders \subseteq Harts
  /\ l.requests # {} /\ l.requests \subseteq RequestType
  /\ l.masks \subseteq SUBSET Harts
  /\ l.stops \in BOOLEAN

ASSUME TlbAssumption ==
  /\ Harts \subseteq Nat
  /\ \A l \in Loads : IsLoad(l)
  /\ NumEntries \in Nat \ {0}
  /\ XLen \in Nat \ {0}
  /\ FlushLimit \in Nat
  /\ HasH \in BOOLEAN

FLUSH_ALL == XLen - 1

VARIABLES
  load,         \* chosen once
  quiet,        \* S-mode makes no more requests
  running,      \* the hart is STARTED, or suspended: then it resumes to take an IPI
  fifo,         \* tlb_fifo: requests waiting for the hart
  tlb_sync,     \* targets that have not served the hart's request
  ipi_type,     \* the TLB event is pending
  msip,
  pc,
  tinfo,        \* the request the hart is making
  todo,         \* targets left in this round
  retry,        \* targets whose queue was full in this round
  dest,         \* the target in hand
  smask,        \* harts to notify of the entry just served
  stale,        \* history: what each target has not flushed for the hart's request
  bent          \* history: requests compared by a wrapped end, as <<sender, target>>

ipi == <<ipi_type, msip>>
sender == <<tinfo, todo, retry, dest>>
hist == <<stale, bent>>
vars == <<load, quiet, running, fifo, tlb_sync, ipi, pc, sender, smask, hist>>

Goto(h, label) == pc' = [pc EXCEPT ![h] = label]
-----------------------------------------------------------------------------
\* Ranges

Pages == 0..(XLen - 1)

\* Both spellings of "everything" that the local fence functions know.
IsFlushAll(r) == (r.start = 0 /\ r.size = 0) \/ r.size = FLUSH_ALL

RangeOf(r) ==
  IF IsFlushAll(r) THEN Pages ELSE {(r.start + i) % XLen : i \in 0..(r.size - 1)}

\* What tlb_entry_local_process() makes the hart forget: cached instructions, or the
\* translations of a range: for one address space or for all, of the host, of a guest,
\* or of the guest physical addresses of one guest or of all.
Flushed(r) ==
  LET pages == RangeOf(r) IN
  CASE r.type = "FENCE_I"          -> {<<"insn">>}
    [] r.type = "SFENCE_VMA"       -> {<<"vma", a, p>> : a \in Asids, p \in pages}
    [] r.type = "SFENCE_VMA_ASID"  -> {<<"vma", r.asid, p>> : p \in pages}
    [] r.type = "HFENCE_VVMA"      -> {<<"vvma", r.vmid, a, p>> : a \in Asids, p \in pages}
    [] r.type = "HFENCE_VVMA_ASID" -> {<<"vvma", r.vmid, r.asid, p>> : p \in pages}
    [] r.type = "HFENCE_GVMA"      -> {<<"gvma", v, p>> : v \in Vmids, p \in pages}
    [] r.type = "HFENCE_GVMA_VMID" -> {<<"gvma", r.vmid, p>> : p \in pages}

\* sbi_tlb_request(): too large a range becomes a full flush.
Upgrade(r) ==
  IF r.size > FlushLimit THEN [r EXCEPT !.start = 0, !.size = FLUSH_ALL] ELSE r

\* The end of a range that reaches the top of the address space wraps.
EndOf(r) == (r.start + r.size) % XLen
Wraps(r) == r.start + r.size >= XLen

\* Bug: a request that overlaps the queued one is taken to lie within it.
RangeCheckOverlap(curr, next) ==
  IF next.start <= curr.start /\ EndOf(next) > EndOf(curr) THEN "UPDATED"
  ELSE IF next.start >= curr.start THEN "SKIP" ELSE "UNCHANGED"

\* tlb_range_check(): next contains curr, or lies within it.
RangeCheck(curr, next) ==
  IF next.start <= curr.start /\ EndOf(next) > EndOf(curr) THEN "UPDATED"
  ELSE IF next.start >= curr.start /\ EndOf(next) <= EndOf(curr) THEN "SKIP"
  ELSE "UNCHANGED"

\* tlb_update_cb(): only fences of one kind, and of one address space, merge.
Verdict(next, curr) ==
  IF \/ next.type = "SFENCE_VMA" /\ curr.type = "SFENCE_VMA"
     \/ /\ next.type = "SFENCE_VMA_ASID" /\ curr.type = "SFENCE_VMA_ASID"
        /\ next.asid = curr.asid
  THEN RangeCheck(curr, next)
  ELSE "UNCHANGED"

\* Bug: the merged entry notifies the new sender only.
MergeDrop(next, curr) ==
  IF Verdict(next, curr) = "UPDATED" THEN next ELSE [curr EXCEPT !.smask = next.smask]

\* What becomes of the queued entry: the larger range, and both senders to notify.
Merge(next, curr) ==
  LET base == IF Verdict(next, curr) = "UPDATED" THEN next ELSE curr
  IN  [base EXCEPT !.smask = curr.smask \cup next.smask]
-----------------------------------------------------------------------------
NoRequest == CHOOSE r \in load.requests : TRUE

\* sbi_tlb_init(), with the harts up and running.
Init ==
  /\ load \in Loads
  /\ quiet = FALSE
  /\ running = [h \in Harts |-> TRUE]
  /\ fifo = [h \in Harts |-> << >>]
  /\ tlb_sync = [h \in Harts |-> 0]
  /\ ipi_type = [h \in Harts |-> FALSE]
  /\ msip = [h \in Harts |-> FALSE]
  /\ pc = [h \in Harts |-> "S"]
  /\ tinfo = [h \in Harts |-> NoRequest]
  /\ todo = [h \in Harts |-> {}]
  /\ retry = [h \in Harts |-> {}]
  /\ dest = [h \in Harts |-> h]
  /\ smask = [h \in Harts |-> {}]
  /\ stale = [h \in Harts |-> [t \in Harts |-> {}]]
  /\ bent = {}

\* The hart executes the fence of r: nobody waits for it to forget these any more.
LocalProcess(h, r) ==
  /\ stale' = [s \in Harts |-> [stale[s] EXCEPT ![h] = @ \ Flushed(r)]]
  /\ UNCHANGED bent
-----------------------------------------------------------------------------
\* The sender: sbi_tlb_request() and sbi_ipi_send_many()

Interruptible == {t \in Harts : running[t]}

\* The ecall: the request, its targets, and the first round.  The calls for guests
\* return SBI_ENOTSUPP without the hypervisor extension.
TlbRequest(h) ==
  /\ ~quiet
  /\ h \in load.senders
  /\ pc[h] = "S"
  /\ \E r \in load.requests, mask \in load.masks :
       LET targets == mask \cap Interruptible IN
       /\ r.type \in HTypes => HasH
       /\ tinfo' = [tinfo EXCEPT ![h] = Upgrade(r)]
       /\ todo' = [todo EXCEPT ![h] = targets]
       /\ stale' = [stale EXCEPT ![h] =
                      [t \in Harts |-> IF t \in targets THEN Flushed(r) ELSE {}]]
       /\ bent' = {b \in bent : b[1] # h}
  /\ Goto(h, "send")
  /\ UNCHANGED <<quiet, running, fifo, tlb_sync, ipi, retry, dest, smask>>

\* tlb_update() for the hart itself: flush now (SBI_IPI_UPDATE_BREAK).
SendSelf(h) ==
  /\ pc[h] = "send"
  /\ todo[h] # {} /\ Min(todo[h]) = h
  /\ LocalProcess(h, tinfo[h])
  /\ todo' = [todo EXCEPT ![h] = @ \ {h}]
  /\ UNCHANGED <<quiet, running, fifo, tlb_sync, ipi, pc, tinfo, retry, dest, smask>>

\* The entry the sender queues: SBI_TLB_INFO_INIT() puts the sender alone in smask.
Entry(h) == [type |-> tinfo[h].type, start |-> tinfo[h].start, size |-> tinfo[h].size,
             asid |-> tinfo[h].asid, vmid |-> tinfo[h].vmid, smask |-> {h}]

\* The comparison of two ranges went by a wrapped end.  It tells nothing about them,
\* unless they are the same or one is FLUSH_ALL.
Bent(next, curr) ==
  /\ Wraps(next) \/ Wraps(curr)
  /\ <<next.start, next.size>> # <<curr.start, curr.size>>
  /\ FLUSH_ALL \notin {next.size, curr.size}

\* tlb_update() for another hart, first half: sbi_fifo_inplace_update().
InplaceUpdate(h) ==
  /\ pc[h] = "send"
  /\ todo[h] # {} /\ Min(todo[h]) # h
  /\ LET t    == Min(todo[h])
         q    == fifo[t]
         hits == {i \in DOMAIN q : Verdict(Entry(h), q[i]) # "UNCHANGED"}
     IN  /\ dest' = [dest EXCEPT ![h] = t]
         /\ IF hits = {}
            THEN Goto(h, "enqueue") /\ UNCHANGED <<fifo, bent>>
            ELSE /\ bent' = IF Bent(Entry(h), q[Min(hits)])
                            THEN bent \cup ((q[Min(hits)].smask \cup {h}) \X {t})
                            ELSE bent
                 /\ fifo' = [fifo EXCEPT ![t][Min(hits)] = Merge(Entry(h), @)]
                 /\ Goto(h, "count")
  /\ UNCHANGED <<quiet, running, tlb_sync, ipi, tinfo, todo, retry, smask, stale>>

\* Bug: the queue takes one entry more than it has room for.
EnqueueOver(h) ==
  /\ pc[h] = "enqueue"
  /\ LET t == dest[h] IN
       IF Len(fifo[t]) <= NumEntries
       THEN /\ fifo' = [fifo EXCEPT ![t] = Append(@, Entry(h))]
            /\ Goto(h, "count")
       ELSE Goto(h, "full") /\ UNCHANGED fifo
  /\ UNCHANGED <<quiet, running, tlb_sync, ipi, sender, smask, hist>>

\* tlb_update(), second half: sbi_fifo_enqueue().  A full queue makes the sender
\* serve its own queue once and try this target again in the next round.
Enqueue(h) ==
  /\ pc[h] = "enqueue"
  /\ LET t == dest[h] IN
       IF Len(fifo[t]) < NumEntries
       THEN /\ fifo' = [fifo EXCEPT ![t] = Append(@, Entry(h))]
            /\ Goto(h, "count")
       ELSE Goto(h, "full") /\ UNCHANGED fifo
  /\ UNCHANGED <<quiet, running, tlb_sync, ipi, sender, smask, hist>>

\* atomic_add_return(tlb_sync, 1), after the entry is already visible.
Count(h) ==
  /\ pc[h] = "count"
  /\ tlb_sync' = [tlb_sync EXCEPT ![h] = @ + 1]
  /\ Goto(h, "or")
  /\ UNCHANGED <<quiet, running, fifo, ipi, sender, smask, hist>>

\* __atomic_fetch_or(): the first to set the bit raises the interrupt.
FetchOr(h) ==
  /\ pc[h] = "or"
  /\ ipi_type' = [ipi_type EXCEPT ![dest[h]] = TRUE]
  /\ IF ipi_type[dest[h]]
     THEN /\ Goto(h, "send")
          /\ todo' = [todo EXCEPT ![h] = @ \ {dest[h]}]
     ELSE Goto(h, "raw_send") /\ UNCHANGED todo
  /\ UNCHANGED <<quiet, running, fifo, tlb_sync, msip, tinfo, retry, dest, smask, hist>>

\* sbi_ipi_raw_send()
RawSend(h) ==
  /\ pc[h] = "raw_send"
  /\ msip' = [msip EXCEPT ![dest[h]] = TRUE]
  /\ todo' = [todo EXCEPT ![h] = @ \ {dest[h]}]
  /\ Goto(h, "send")
  /\ UNCHANGED <<quiet, running, fifo, tlb_sync, ipi_type, tinfo, retry, dest, smask, hist>>

\* The round is over: another one for the targets to retry, or tlb_sync().
RoundEnd(h) ==
  /\ pc[h] = "send"
  /\ todo[h] = {}
  /\ IF retry[h] # {}
     THEN /\ todo' = [todo EXCEPT ![h] = retry[h]]
          /\ retry' = [retry EXCEPT ![h] = {}]
          /\ UNCHANGED pc
     ELSE Goto(h, "sync") /\ UNCHANGED <<todo, retry>>
  /\ UNCHANGED <<quiet, running, fifo, tlb_sync, ipi, tinfo, dest, smask, hist>>

\* Bug: a hart that waits does not serve its own queue.
SyncSpin(h) ==
  /\ pc[h] = "sync"
  /\ tlb_sync[h] <= 0
  /\ tinfo' = [tinfo EXCEPT ![h] = NoRequest]
  /\ dest' = [dest EXCEPT ![h] = h]
  /\ Goto(h, "S")
  /\ UNCHANGED <<quiet, running, fifo, tlb_sync, ipi, todo, retry, smask, hist>>

\* tlb_sync(): wait, serving the own queue; then the ecall returns.
Sync(h) ==
  /\ pc[h] = "sync"
  /\ IF tlb_sync[h] > 0
     THEN Goto(h, "serve") /\ UNCHANGED <<tinfo, dest>>
     ELSE /\ Goto(h, "S")
          /\ tinfo' = [tinfo EXCEPT ![h] = NoRequest]
          /\ dest' = [dest EXCEPT ![h] = h]
  /\ UNCHANGED <<quiet, running, fifo, tlb_sync, ipi, todo, retry, smask, hist>>
-----------------------------------------------------------------------------
\* Serving the queue: tlb_process_once(), called on a full queue, while waiting in
\* tlb_sync(), and in a loop from the IPI (tlb_process()).

ProcessingOnce(h) == pc[h] \in {"full", "serve", "process", "exit_process"}

\* Where the hart goes on after one entry, or after finding the queue empty.
Resume(h, empty) ==
  CASE pc[h] = "full" ->
         /\ Goto(h, "send")
         /\ todo' = [todo EXCEPT ![h] = @ \ {dest[h]}]
         /\ retry' = [retry EXCEPT ![h] = @ \cup {dest[h]}]
         /\ UNCHANGED running
    [] pc[h] = "serve" ->
         Goto(h, "sync") /\ UNCHANGED <<todo, retry, running>>
    [] pc[h] = "process" ->
         /\ IF empty THEN Goto(h, "S") ELSE UNCHANGED pc
         /\ UNCHANGED <<todo, retry, running>>
    [] pc[h] = "exit_process" ->
         /\ IF empty THEN Goto(h, "stopped") ELSE UNCHANGED pc
         /\ UNCHANGED <<todo, retry, running>>

\* sbi_fifo_dequeue() and tlb_entry_local_process()
Dequeue(h) ==
  /\ ProcessingOnce(h)
  /\ smask[h] = {}
  /\ fifo[h] # << >>
  /\ LocalProcess(h, Head(fifo[h]))
  /\ smask' = [smask EXCEPT ![h] = Head(fifo[h]).smask]
  /\ fifo' = [fifo EXCEPT ![h] = Tail(@)]
  /\ UNCHANGED <<quiet, running, tlb_sync, ipi, pc, sender>>

\* tlb_entry_process(): one sender after the other is counted down.
Notify(h) ==
  /\ \E s \in smask[h] :
       /\ tlb_sync' = [tlb_sync EXCEPT ![s] = @ - 1]
       /\ smask' = [smask EXCEPT ![h] = @ \ {s}]
       /\ IF smask[h] = {s}
          THEN Resume(h, FALSE)
          ELSE UNCHANGED <<pc, todo, retry, running>>
  /\ UNCHANGED <<quiet, fifo, ipi, tinfo, dest, hist>>

\* Nothing in the queue.
DequeueEmpty(h) ==
  /\ ProcessingOnce(h)
  /\ smask[h] = {}
  /\ fifo[h] = << >>
  /\ Resume(h, TRUE)
  /\ UNCHANGED <<quiet, fifo, tlb_sync, ipi, tinfo, dest, smask, hist>>
-----------------------------------------------------------------------------
\* The interrupt, and a hart that stops

\* sbi_ipi_process(): clear the interrupt ...
TakeIpi(h) ==
  /\ pc[h] = "S"
  /\ msip[h]
  /\ msip' = [msip EXCEPT ![h] = FALSE]
  /\ Goto(h, "xchg")
  /\ UNCHANGED <<quiet, running, fifo, tlb_sync, ipi_type, sender, smask, hist>>

\* ... then take the pending events, and call tlb_process() if the TLB bit is set.
Xchg(h) ==
  /\ pc[h] \in {"xchg", "exit_xchg"}
  /\ ipi_type' = [ipi_type EXCEPT ![h] = FALSE]
  /\ Goto(h, CASE pc[h] = "xchg"      -> (IF ipi_type[h] THEN "process" ELSE "S")
               [] pc[h] = "exit_xchg" -> (IF ipi_type[h] THEN "exit_process" ELSE "stopped"))
  /\ UNCHANGED <<quiet, running, fifo, tlb_sync, msip, sender, smask, hist>>

\* The hart stop call: no longer interruptible, then sbi_ipi_exit().
HartStop(h) ==
  /\ load.stops
  /\ pc[h] = "S"
  /\ running' = [running EXCEPT ![h] = FALSE]
  /\ msip' = [msip EXCEPT ![h] = FALSE]
  /\ Goto(h, "exit_xchg")
  /\ UNCHANGED <<quiet, fifo, tlb_sync, ipi_type, sender, smask, hist>>
-----------------------------------------------------------------------------
\* S-mode falls silent.
Quiesce ==
  /\ ~quiet
  /\ quiet' = TRUE
  /\ UNCHANGED <<running, fifo, tlb_sync, ipi, pc, sender, smask, hist>>

SendStep(h) ==
  \/ SendSelf(h) \/ InplaceUpdate(h) \/ Enqueue(h) \/ Count(h) \/ FetchOr(h)
  \/ RawSend(h) \/ RoundEnd(h) \/ Sync(h)

ServeStep(h) == Dequeue(h) \/ Notify(h) \/ DequeueEmpty(h) \/ Xchg(h)

Next ==
  /\ \/ Quiesce
     \/ \E h \in Harts :
          TlbRequest(h) \/ SendStep(h) \/ ServeStep(h) \/ TakeIpi(h) \/ HartStop(h)
  /\ UNCHANGED load

Spec == Init /\ [][Next]_vars

\* M-mode code keeps running, and a raised software interrupt is taken although
\* S-mode keeps making requests: the hart looks for one on every mret.
Fairness ==
  \A h \in Harts :
    /\ WF_vars((SendStep(h) \/ ServeStep(h)) /\ UNCHANGED load)
    /\ SF_vars(TakeIpi(h) /\ UNCHANGED load)

FairSpec == Spec /\ Fairness
-----------------------------------------------------------------------------
\* Types and bounds: no queue outgrows its memory, and tlb_sync stays between one
\* early answer and one answer per target.
TypeOK ==
  /\ quiet \in BOOLEAN /\ running \in [Harts -> BOOLEAN]
  /\ \A h \in Harts : Len(fifo[h]) <= NumEntries
  /\ \A h \in Harts : tlb_sync[h] \in -1..Cardinality(Harts)
  /\ \A h \in Harts : retry[h] \subseteq Harts /\ todo[h] \subseteq Harts

\* Targets that still have to count h down: its entry is queued there, or the target
\* has taken it and has not reached h in smask.
Outstanding(h) ==
  {t \in Harts : h \in smask[t] \/ \E i \in DOMAIN fifo[t] : h \in fifo[t][i].smask}

\* tlb_sync counts exactly the targets that will count it down, but for the moment
\* between the entry becoming visible and the atomic add, when it may be one short
\* (and even negative).  One too few and the fence returns early, one too many and the
\* hart waits for ever.
SyncCounts ==
  \A h \in Harts :
    tlb_sync[h] = Cardinality(Outstanding(h)) - (IF pc[h] = "count" THEN 1 ELSE 0)

\* When the remote fence returns, every target has flushed everything asked for since
\* the call was made, also when the request was merged with another hart's.  Exempt is
\* a merge decided by the end of a range that reaches the top of the address space:
\* start + size wraps in tlb_range_check(), and the last pages may be dropped.
FlushedOnReturn ==
  \A h \in Harts :
    pc[h] = "S" => \A t \in Harts : stale[h][t] = {} \/ <<h, t>> \in bent

\* No deadlock: once S-mode makes no more requests, every remote fence under way
\* returns; neither full queues nor harts that wait for each other keep it (the reason
\* tlb_sync() and tlb_update() serve the own queue).  A hart that stops may leave a
\* request in its queue that nobody serves, so the promise ends when one stops.
RequestReturns ==
  \A h \in Harts :
    quiet /\ pc[h] = "send" ~> pc[h] = "S" \/ \E t \in Harts : ~running[t]

\* What the run checks at every step of a remote fence: the counting of
\* tlb_sync by sender and targets, and the flushes done when it returns.
TlbInv == TypeOK /\ SyncCounts /\ FlushedOnReturn
=============================================================================
