-------------------------------- MODULE Sse --------------------------------
(***************************************************************************)
(* Supervisor software events, lib/sbi/sbi_sse.c: S-mode registers and     *)
(* enables event handlers, any hart injects events, and on every return    *)
(* from a trap the firmware diverts S-mode into the handler of the most    *)
(* urgent pending event.                                                   *)
(*                                                                         *)
(* An event is <<id>> when it is global (one instance for all harts, with  *)
(* a lock of its own) and <<id, h>> when it is the instance of a local     *)
(* event that belongs to hart h.  An ecall runs in M-mode and is not       *)
(* interrupted; between its steps other harts run.  A critical section     *)
(* that acquires one free lock and releases it without waiting for another *)
(* is one step.                                                            *)
(***************************************************************************)
EXTENDS Naturals, Sequences, FiniteSets, SequencesExt

CONSTANTS Harts,     \* hart ids
          BootHart,  \* the hart that ran sse_global_init()
          Setups     \* the machines and the software it may run on, see IsSetup

(***************************************************************************)
(* What the machine and the software on it decide:                         *)
(*   up        the harts that are used; the others are never started       *)
(*   globals, locals  ids of the supported events                          *)
(*   prios     values S-mode writes to SBI_SSE_ATTR_PRIO                   *)
(*   configs   values of the ONESHOT bit it writes to SBI_SSE_ATTR_CONFIG  *)
(*   moves     when it writes SBI_SSE_ATTR_PREFERRED_HART: "never", "any"  *)
(*             or "quiet" (while no injection of the event is under way)   *)
(*   stops     whether harts stop and are started again                    *)
(***************************************************************************)
IsSetup(s) ==
  /\ BootHart \in s.up /\ s.up \subseteq Harts
  /\ s.globals \cup s.locals \subseteq Nat
  /\ s.globals \cap s.locals = {}
  /\ s.prios \subseteq Nat
  /\ s.configs \subseteq BOOLEAN
  /\ s.moves \in {"never", "quiet", "any"}
  /\ s.stops \in BOOLEAN

ASSUME SseAssumption == \A s \in Setups : IsSetup(s)

VARIABLES setup,    \* chosen once
          state,    \* state[e]: the state bits of attrs.status
          pending,  \* pending[e]: the PENDING bit of attrs.status
          prio,     \* prio[e]: attrs.prio
          oneshot,  \* oneshot[e]: the ONESHOT bit of attrs.config
          hart,     \* hart[e]: attrs.hartid, the hart that runs the handler
          list,     \* list[h]: enabled_event_list of hart h
          masked,   \* masked[h]
          fifo,     \* fifo[h]: event ids queued in sse_inject_fifo of hart h
          ipi,      \* ipi[h]: the SSE inject event is raised at hart h
          pc,       \* pc[h]: where hart h is
          held,     \* held[h]: the event whose ecall on h holds its locks
          arg,      \* arg[h]: what the next step of h works on
          handlers  \* handlers[h]: history, the handlers S-mode of h is in,
                    \* innermost first

attrs == <<state, pending, prio, oneshot, hart>>
vars  == <<setup, state, pending, prio, oneshot, hart, list, masked, fifo, ipi, pc,
           held, arg, handlers>>

Globals == setup.globals
Locals  == setup.locals

Events == {<<g>> : g \in Globals} \cup {<<l, h>> : l \in Locals, h \in Harts}

None == <<>>

Unused     == 0
Registered == 1
Enabled    == 2
Running    == 3

Id(e)       == e[1]
IsGlobal(e) == Len(e) = 1

(* sse_event_get(): the instance that id names on hart h. *)
EventOf(id, h) == IF id \in Globals THEN <<id>> ELSE <<id, h>>

(* Events hart h can name in an ecall. *)
Visible(h) == {EventOf(id, h) : id \in Globals \cup Locals}

(* The lock of global event e is held between two steps of some hart. *)
EventLocked(e) ==
  /\ IsGlobal(e)
  /\ \E k \in Harts : held[k] = e \/ (pc[k] = "store" /\ arg[k].e = e)

(* The enabled_event_lock of hart h is held between two steps: by an       *)
(* sse_event_enable() that is inside sbi_ipi_send_many() to itself.        *)
ListLocked(h) ==
  \E k \in Harts : /\ held[k] # None
                   /\ pc[k] \in {"process", "set_pending", "store"}
                   /\ hart[held[k]] = h

Goto(h, label) == pc' = [pc EXCEPT ![h] = label]

Init ==
  /\ setup \in Setups
  /\ state = [e \in Events |-> Unused]
  /\ pending = [e \in Events |-> FALSE]
  /\ prio = [e \in Events |-> 0]
  /\ oneshot = [e \in Events |-> FALSE]
  /\ hart = [e \in Events |-> IF IsGlobal(e) THEN BootHart ELSE e[2]]
  /\ list = [h \in Harts |-> <<>>]
  /\ masked = [h \in Harts |-> TRUE]
  /\ fifo = [h \in Harts |-> <<>>]
  /\ ipi = [h \in Harts |-> FALSE]
  /\ pc = [h \in Harts |-> IF h \in setup.up THEN "S" ELSE "stopped"]
  /\ held = [h \in Harts |-> None]
  /\ arg = [h \in Harts |-> None]
  /\ handlers = [h \in Harts |-> <<>>]

-----------------------------------------------------------------------------
(* The ecalls that only need the lock of the event. *)

Register(h, e) ==
  /\ pc[h] = "S"
  /\ ~EventLocked(e)
  /\ state[e] = Unused
  /\ state' = [state EXCEPT ![e] = Registered]
  /\ Goto(h, "exit")
  /\ UNCHANGED <<pending, prio, oneshot, hart, list, masked, fifo, ipi, held, arg, handlers>>

Unregister(h, e) ==
  /\ pc[h] = "S"
  /\ ~EventLocked(e)
  /\ state[e] = Registered
  /\ state' = [state EXCEPT ![e] = Unused]
  /\ Goto(h, "exit")
  /\ UNCHANGED <<pending, prio, oneshot, hart, list, masked, fifo, ipi, held, arg, handlers>>

(* sse_event_set_attr_check() of the attributes that steer delivery. *)
SetAttrCheck(e) == state[e] < Enabled

(* An injection of e is under way: read by a sender, queued, or taken out. *)
Underway(e) ==
  \E k \in Harts :
    \/ pc[k] \in {"enqueue", "send"} /\ arg[k].id = Id(e)
    \/ pc[k] \in {"set_pending", "store"} /\ arg[k].e = e
    \/ Id(e) \in ToSet(fifo[k])

MayMove(e) == setup.moves = "any" \/ (setup.moves = "quiet" /\ ~Underway(e))

WriteAttrs(h, e) ==
  /\ pc[h] = "S"
  /\ ~EventLocked(e)
  /\ SetAttrCheck(e)
  /\ \/ /\ \E p \in setup.prios : prio' = [prio EXCEPT ![e] = p]
        /\ UNCHANGED <<oneshot, hart>>
     \/ /\ \E c \in setup.configs : oneshot' = [oneshot EXCEPT ![e] = c]
        /\ UNCHANGED <<prio, hart>>
     \/ /\ IsGlobal(e) /\ MayMove(e)
        /\ \E k \in Harts : pc[k] # "stopped" /\ hart' = [hart EXCEPT ![e] = k]
        /\ UNCHANGED <<prio, oneshot>>
  /\ Goto(h, "exit")
  /\ UNCHANGED <<state, pending, list, masked, fifo, ipi, held, arg, handlers>>

-----------------------------------------------------------------------------
(* Enable and disable take the lock of the event, then that of the list. *)

GetEvent(h, e, call) ==
  /\ pc[h] = "S"
  /\ ~EventLocked(e)
  /\ held' = [held EXCEPT ![h] = e]
  /\ Goto(h, call)
  /\ UNCHANGED <<attrs, list, masked, fifo, ipi, arg, handlers>>

(* Event e comes before event f in an enabled_event_list. *)
Before(e, f) ==
  \/ prio[e] < prio[f]
  \/ prio[e] = prio[f] /\ Id(e) < Id(f)

\* Bug: events of equal priority are kept in the order they came.
AddToListByPrio(e, l) ==
  LET later == {i \in 1..Len(l) : prio[e] < prio[l[i]]}
      place == IF later = {} THEN Len(l) + 1 ELSE Min(later)
  IN  InsertAt(l, place, e)

(* sse_event_add_to_list() *)
AddToList(e, l) ==
  LET later == {i \in 1..Len(l) : Before(e, l[i])}
      place == IF later = {} THEN Len(l) + 1 ELSE Min(later)
  IN  InsertAt(l, place, e)

\* Bug: a pending event is enabled without telling its hart.
EnableSilent(h) ==
  LET e == held[h]
  IN  /\ pc[h] = "enable"
      /\ ~ListLocked(hart[e])
      /\ held' = [held EXCEPT ![h] = None]
      /\ Goto(h, "exit")
      /\ IF state[e] # Registered
           THEN UNCHANGED <<state, list>>
           ELSE /\ state' = [state EXCEPT ![e] = Enabled]
                /\ list' = [list EXCEPT ![hart[e]] = AddToList(e, @)]
      /\ UNCHANGED <<pending, prio, oneshot, hart, masked, fifo, ipi, arg, handlers>>

(* sse_event_enable().  A pending global event is announced to its hart by *)
(* an IPI while both locks are held; an IPI to the calling hart itself     *)
(* runs sse_ipi_inject_process() on the spot.                              *)
Enable(h) ==
  LET e == held[h]
      owner == hart[e]
      announce == state[e] = Registered /\ IsGlobal(e) /\ pending[e]
      myself == announce /\ owner = h
  IN  /\ pc[h] = "enable"
      /\ ~ListLocked(owner)
      /\ IF state[e] # Registered
           THEN UNCHANGED <<state, list>>
           ELSE /\ state' = [state EXCEPT ![e] = Enabled]
                /\ list' = [list EXCEPT ![owner] = AddToList(e, @)]
      /\ ipi' = [ipi EXCEPT ![owner] = @ \/ (announce /\ ~myself /\ pc[owner] # "stopped")]
      /\ held' = [held EXCEPT ![h] = IF myself THEN e ELSE None]
      /\ Goto(h, IF myself THEN "process" ELSE "exit")
      /\ UNCHANGED <<pending, prio, oneshot, hart, masked, fifo, arg, handlers>>

Disable(h) ==
  LET e == held[h]
  IN  /\ pc[h] = "disable"
      /\ ~ListLocked(hart[e])
      /\ IF state[e] # Enabled
           THEN UNCHANGED <<state, list>>
           ELSE /\ state' = [state EXCEPT ![e] = Registered]
                /\ list' = [list EXCEPT ![hart[e]] = Remove(@, e)]
      /\ held' = [held EXCEPT ![h] = None]
      /\ Goto(h, "exit")
      /\ UNCHANGED <<pending, prio, oneshot, hart, masked, fifo, ipi, arg, handlers>>

-----------------------------------------------------------------------------
(* Injection. *)

(* sse_event_set_pending() by the hart that runs the handler. *)
CanPend(s) == s \in {Enabled, Running}

(* sse_inject_event() on hart h; S-mode names hart k, which a global event *)
(* ignores.                                                                *)
InjectEvent(h, e, k) ==
  LET target == IF IsGlobal(e) THEN hart[e] ELSE k
  IN  /\ pc[h] = "S"
      /\ ~EventLocked(e)
      /\ IF target = h
           THEN /\ pending' = [pending EXCEPT ![e] = @ \/ CanPend(state[e])]
                /\ Goto(h, "exit")
                /\ UNCHANGED arg
           ELSE /\ arg' = [arg EXCEPT ![h] = [to |-> target, id |-> Id(e)]]
                /\ Goto(h, "enqueue")
                /\ UNCHANGED pending
      /\ UNCHANGED <<state, prio, oneshot, hart, list, masked, fifo, ipi, held, handlers>>

\* Bug: the queue takes one entry more than it has room for.
FifoFullLate(k) == Len(fifo[k]) > Cardinality(Globals) + Cardinality(Locals)

(* sse_ipi_inject_send(): the queue holds one entry per supported event. *)
FifoFull(k) == Len(fifo[k]) >= Cardinality(Globals) + Cardinality(Locals)

\* Bug: the error check after the enqueue is inverted.
InjectEnqueueReturns(h) ==
  /\ pc[h] = "enqueue"
  /\ fifo' = [fifo EXCEPT ![arg[h].to] = IF FifoFull(arg[h].to) THEN @ ELSE Append(@, arg[h].id)]
  /\ Goto(h, IF FifoFull(arg[h].to) THEN "send" ELSE "exit")
  /\ UNCHANGED <<attrs, list, masked, ipi, held, arg, handlers>>

InjectEnqueue(h) ==
  /\ pc[h] = "enqueue"
  /\ IF FifoFull(arg[h].to)
       THEN /\ arg' = [arg EXCEPT ![h] = None]
            /\ Goto(h, "exit")
            /\ UNCHANGED fifo
       ELSE /\ fifo' = [fifo EXCEPT ![arg[h].to] = Append(@, arg[h].id)]
            /\ Goto(h, "send")
            /\ UNCHANGED arg
  /\ UNCHANGED <<attrs, list, masked, ipi, held, handlers>>

InjectSend(h) ==
  /\ pc[h] = "send"
  /\ ipi' = [ipi EXCEPT ![arg[h].to] = @ \/ pc[arg[h].to] # "stopped"]
  /\ arg' = [arg EXCEPT ![h] = None]
  /\ Goto(h, "exit")
  /\ UNCHANGED <<attrs, list, masked, fifo, held, handlers>>

(* The interrupt of the inject event; it reaches a hart in S-mode. *)
TakeIpi(h) ==
  /\ pc[h] = "S"
  /\ ipi[h]
  /\ ipi' = [ipi EXCEPT ![h] = FALSE]
  /\ Goto(h, "process")
  /\ UNCHANGED <<attrs, list, masked, fifo, held, arg, handlers>>

(* sse_ipi_inject_process(): one turn of its loop is Dequeue, then         *)
(* SetPending under the lock of the event, then the store.                 *)
Dequeue(h) ==
  /\ pc[h] = "process"
  /\ fifo[h] # <<>>
  /\ fifo' = [fifo EXCEPT ![h] = Tail(@)]
  /\ arg' = [arg EXCEPT ![h] = [e |-> EventOf(Head(fifo[h]), h)]]
  /\ Goto(h, "set_pending")
  /\ UNCHANGED <<attrs, list, masked, ipi, held, handlers>>

ProcessDone(h) ==
  /\ pc[h] = "process"
  /\ fifo[h] = <<>>
  /\ held' = [held EXCEPT ![h] = None]
  /\ Goto(h, "exit")
  /\ UNCHANGED <<attrs, list, masked, fifo, ipi, arg, handlers>>

SetPending(h) ==
  LET e == arg[h].e
  IN  /\ pc[h] = "set_pending"
      /\ ~EventLocked(e)
      /\ IF CanPend(state[e])
           THEN /\ arg' = [arg EXCEPT ![h] = [e |-> e, seen |-> state[e]]]
                /\ Goto(h, "store")
           ELSE /\ arg' = [arg EXCEPT ![h] = None]
                /\ Goto(h, "process")
      /\ UNCHANGED <<attrs, list, masked, fifo, ipi, held, handlers>>

(* attrs.status |= PENDING writes back the state bits it has read. *)
StorePending(h) ==
  LET e == arg[h].e
  IN  /\ pc[h] = "store"
      /\ state' = [state EXCEPT ![e] = arg[h].seen]
      /\ pending' = [pending EXCEPT ![e] = TRUE]
      /\ arg' = [arg EXCEPT ![h] = None]
      /\ Goto(h, "process")
      /\ UNCHANGED <<prio, oneshot, hart, list, masked, fifo, ipi, held, handlers>>

-----------------------------------------------------------------------------
(* Delivery and completion. *)

(* sse_event_is_ready() on hart h. *)
IsReady(e, h) == pending[e] /\ state[e] = Enabled /\ hart[e] = h

\* Bug: the scan runs past a running handler.
ScanStopsReady(l, h) ==
  {i \in 1..Len(l) : IsReady(l[i], h)}

(* The positions of l where the scan of sbi_sse_process_pending_events()   *)
(* stops: a running handler, or an event to inject.                        *)
ScanStops(l, h) ==
  {i \in 1..Len(l) : state[l[i]] = Running \/ IsReady(l[i], h)}

(* sbi_sse_process_pending_events() on the way back to S-mode. *)
ProcessPendingEvents(h) ==
  LET stops == ScanStops(list[h], h)
      e == list[h][Min(stops)]
  IN  /\ pc[h] = "exit"
      /\ IF masked[h]
           THEN UNCHANGED <<state, pending, handlers>>
           ELSE /\ ~ListLocked(h)
                /\ IF stops # {} /\ IsReady(e, h)
                     THEN /\ state' = [state EXCEPT ![e] = Running]
                          /\ pending' = [pending EXCEPT ![e] = FALSE]
                          /\ handlers' = [handlers EXCEPT ![h] = <<e>> \o @]
                     ELSE UNCHANGED <<state, pending, handlers>>
      /\ Goto(h, "S")
      /\ UNCHANGED <<prio, oneshot, hart, list, masked, fifo, ipi, held, arg>>

(* sbi_sse_complete(): the first running event of the list is completed    *)
(* and S-mode returns to what its handler interrupted.                     *)
Complete(h) ==
  LET running == {i \in 1..Len(list[h]) : state[list[h][i]] = Running}
      e == list[h][Min(running)]
  IN  /\ pc[h] = "S"
      /\ ~ListLocked(h)
      /\ running # {} /\ hart[e] = h
      /\ state' = [state EXCEPT ![e] = IF oneshot[e] THEN Registered ELSE Enabled]
      /\ list' = [list EXCEPT ![h] = IF oneshot[e] THEN Remove(@, e) ELSE @]
      /\ handlers' = [handlers EXCEPT ![h] = IF @ = <<>> THEN @ ELSE Tail(@)]
      /\ Goto(h, "exit")
      /\ UNCHANGED <<pending, prio, oneshot, hart, masked, fifo, ipi, held, arg>>

HartMask(h) ==
  /\ pc[h] = "S"
  /\ ~masked[h]
  /\ masked' = [masked EXCEPT ![h] = TRUE]
  /\ Goto(h, "exit")
  /\ UNCHANGED <<attrs, list, fifo, ipi, held, arg, handlers>>

HartUnmask(h) ==
  /\ pc[h] = "S"
  /\ masked[h]
  /\ masked' = [masked EXCEPT ![h] = FALSE]
  /\ Goto(h, "exit")
  /\ UNCHANGED <<attrs, list, fifo, ipi, held, arg, handlers>>

-----------------------------------------------------------------------------
(* A hart that stops runs sbi_sse_exit() and, when it is started again,    *)
(* sbi_sse_init().                                                         *)

SseExit(h) ==
  LET mine == {e \in Visible(h) : hart[e] = h /\ state[e] > Registered}
  IN  /\ setup.stops
      /\ pc[h] = "S"
      /\ \A e \in Visible(h) : ~EventLocked(e)
      /\ state' = [e \in Events |-> IF e \in mine THEN Unused ELSE state[e]]
      /\ handlers' = [handlers EXCEPT ![h] = <<>>]
      /\ Goto(h, "stopped")
      /\ UNCHANGED <<pending, prio, oneshot, hart, list, masked, fifo, ipi, held, arg>>

SseInit(h) ==
  /\ pc[h] = "stopped"
  /\ list' = [list EXCEPT ![h] = <<>>]
  /\ fifo' = [fifo EXCEPT ![h] = <<>>]
  /\ ipi' = [ipi EXCEPT ![h] = FALSE]
  /\ hart' = [e \in Events |-> IF e \in Visible(h) /\ ~IsGlobal(e) THEN h ELSE hart[e]]
  /\ Goto(h, "S")
  /\ UNCHANGED <<state, pending, prio, oneshot, masked, held, arg, handlers>>

-----------------------------------------------------------------------------
(* What the firmware does of itself, and what S-mode asks for. *)
Handler(h) ==
  \/ Enable(h) \/ Disable(h) \/ InjectEnqueue(h) \/ InjectSend(h)
  \/ Dequeue(h) \/ ProcessDone(h) \/ SetPending(h) \/ StorePending(h)
  \/ ProcessPendingEvents(h)

Ecall(h) ==
  \/ \E e \in Visible(h) :
       \/ Register(h, e) \/ Unregister(h, e) \/ WriteAttrs(h, e)
       \/ GetEvent(h, e, "enable") \/ GetEvent(h, e, "disable")
       \/ \E k \in setup.up : InjectEvent(h, e, k)
  \/ Complete(h) \/ HartMask(h) \/ HartUnmask(h)

Next ==
  /\ \E h \in setup.up :
       Ecall(h) \/ Handler(h) \/ TakeIpi(h) \/ SseExit(h) \/ SseInit(h)
  /\ UNCHANGED setup

Spec == Init /\ [][Next]_vars

(* A handler in M-mode runs on, a ticket lock serves its waiters in turn,  *)
(* and a raised inter-processor interrupt is taken however many ecalls     *)
(* S-mode makes in between.                                                *)
FairSpec ==
  Spec /\ \A h \in Harts : /\ SF_vars(Handler(h) /\ UNCHANGED setup)
                           /\ SF_vars(TakeIpi(h) /\ UNCHANGED setup)

-----------------------------------------------------------------------------
(* Every variable keeps its type; a queue never exceeds its size           *)
(* (sbi_sse_init() gives it one entry per supported event).                *)
TypeOK ==
  /\ setup \in Setups
  /\ state \in [Events -> {Unused, Registered, Enabled, Running}]
  /\ pending \in [Events -> BOOLEAN]
  /\ prio \in [Events -> {0} \cup setup.prios]
  /\ oneshot \in [Events -> {FALSE} \cup setup.configs]
  /\ hart \in [Events -> Harts]
  /\ \A h \in Harts :
       /\ ToSet(list[h]) \subseteq Events
       /\ ToSet(fifo[h]) \subseteq Globals \cup Locals
       /\ Len(fifo[h]) <= Cardinality(Globals) + Cardinality(Locals)
       /\ masked[h] \in BOOLEAN /\ ipi[h] \in BOOLEAN
       /\ held[h] \in Events \cup {None}

(* The comment on sse_hart_state: enabled_event_list is the "priority      *)
(* sorted list of enabled events (global and local in >= ENABLED state)".  *)
(* The list of a hart that is not stopped holds each event that is enabled *)
(* or running there, once, most urgent first, and nothing else.            *)
ListIsEnabledEvents ==
  \A h \in {k \in Harts : pc[k] # "stopped"} :
    LET l == list[h]
    IN  /\ ToSet(l) = {e \in Events : hart[e] = h /\ state[e] >= Enabled}
        /\ \A i, j \in 1..Len(l) : i < j => Before(l[i], l[j])

(* Handlers nest: the running events of a hart, in list order, are the     *)
(* handlers S-mode is in, innermost first.  sbi_sse_complete(), which      *)
(* completes the first running event of the list, so restores the context  *)
(* that this very handler interrupted.                                     *)
HandlersNest ==
  \A h \in Harts :
    SelectSeq(list[h], LAMBDA e : state[e] = Running) = handlers[h]

(* While an unmasked hart executes S-mode code with no inject interrupt    *)
(* raised, no deliverable event waits: whichever is pending and enabled    *)
(* there is kept back by a running handler of higher urgency.  Every trap  *)
(* return scans the list, and whatever makes an event deliverable from     *)
(* another hart raises the interrupt.                                      *)
NoEventMissed ==
  \A h \in Harts :
    pc[h] = "S" /\ ~masked[h] /\ ~ipi[h] =>
      \A i \in 1..Len(list[h]) :
        IsReady(list[h][i], h) => \E j \in 1..i : state[list[h][j]] = Running

(* "Mark all queued events as pending": a queue that holds an event is     *)
(* served, and sse_ipi_inject_process() gets past every event it takes out *)
(* of the queue.                                                           *)
QueueIsServed ==
  \A h \in Harts :
    /\ fifo[h] # <<>> ~> pc[h] \in {"set_pending", "stopped"}
    /\ pc[h] = "set_pending" ~> pc[h] # "set_pending"

(* The event list of every hart agrees with the states of the events.      *)
ListSound == TypeOK /\ ListIsEnabledEvents
=============================================================================
