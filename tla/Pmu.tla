-------------------------------- MODULE Pmu --------------------------------
(***************************************************************************)
(* The performance monitoring extension of one hart (sbi_pmu.c): the table *)
(* of event ranges built at boot, the counters handed out by               *)
(* sbi_pmu_ctr_cfg_match(), started and stopped by S-mode, the firmware    *)
(* counters, and the overflow interrupt with its software event.           *)
(*                                                                         *)
(* An event index is type * 16 + code, as the code's type << 16 | code.    *)
(* Counter values, privilege filters and mhpmevent selectors are left out: *)
(* a counter is what it is assigned to, whether it counts, and whether its *)
(* overflow bit is set.  No platform of the repository offers firmware     *)
(* event callbacks, so SBI_PMU_FW_PLATFORM is refused by                   *)
(* pmu_event_validate() and its branches do not occur.                     *)
(***************************************************************************)
EXTENDS SbiDefs, Sequences, FiniteSets, FiniteSetsExt, SequencesExt

CONSTANTS
    NumHw,          \* num_hw_ctrs
    NumFw,          \* SBI_PMU_FW_CTR_MAX
    MapMax,         \* SBI_PMU_HW_EVENT_MAX
    PmuPlatforms,   \* the platforms considered, records (see PmuInit)
    PmuEvents,      \* event indices S-mode asks for
    PmuMasks,       \* sets of counter offsets S-mode asks for
    PmuBases,       \* counter_idx_base values S-mode uses
    PmuData,        \* event_data of raw events
    PmuFlags,       \* sets of flags of sbi_pmu_ctr_cfg_match()
    FwCountMax      \* bound on the firmware counters

VARIABLES
    pmu_plat,       \* the platform of this behaviour
    hw_event_map,   \* the table of event ranges, a sequence
    active_events,  \* counter -> event index or NO_EVENT
    fw_started,     \* fw_counters_started: counters of the bitmap
    fw_data,        \* fw_counters_data
    inhibit,        \* counters whose mcountinhibit bit is set
    overflow,       \* counters whose overflow bit (OF) is set
    inten,          \* counters enabled in the device's interrupt register
    ovf_irq,        \* [mie, mip, deleg]: the overflow interrupt's CSR bits
    pmu_sse,        \* the local PMU software event: enabled? pending? running?
    sse_enabled,    \* phs->sse_enabled
    pmu_up,         \* the hart runs S-mode
    pmu_fault,      \* a store outside fw_counters_data has stopped the hart
    misplaced       \* history: hardware counters used as firmware counters

pmu_vars == <<pmu_plat, hw_event_map, active_events, fw_started, fw_data,
              inhibit, overflow, inten, ovf_irq, pmu_sse, sse_enabled,
              pmu_up, pmu_fault, misplaced>>

PmuCounters == 0 .. NumHw + NumFw - 1
FixedCtrs == {0, 1, 2}
Programmable == 3 .. NumHw - 1

\* Event indices and the limits of their codes.
NO_EVENT == -1      \* SBI_PMU_EVENT_IDX_INVALID
TypeHW == 0
TypeCACHE == 1
TypeRAW == 2
TypeRAWV2 == 3
TypeFW == 15
EventType(e) == e \div 16
EventCode(e) == e % 16
IsRaw(e) == EventType(e) \in {TypeRAW, TypeRAWV2}
RAW_IDX == 32
RAW_V2_IDX == 48
CYCLES == 1
INSTRUCTIONS == 2
HW_GENERAL_MAX == 4
FW_MAX == 3
CACHE_OP_MAX == 3

(***************************************************************************)
(* The event map.                                                          *)
(***************************************************************************)
\* Bug: a range that starts inside another one is accepted.
RangeOverlapFirst(a, b) == a.first = b.first

RangeOverlap(a, b) ==
    ~ \/ a.last < b.first /\ a.last < b.last
      \/ a.first > b.first /\ a.first > b.last

SelectOverlap(a, b) == a.select = b.select /\ a.smask = b.smask

\* pmu_add_hw_event_map(): the entry to append, or a refusal.
MapAccepts(map, ev) ==
    /\ ~(ev.first > INSTRUCTIONS /\ ev.ctrs \cap FixedCtrs # {})
    /\ Len(map) < MapMax - 1
    /\ \A i \in DOMAIN map :
          IF ev.first \in {RAW_IDX, RAW_V2_IDX} THEN ~SelectOverlap(map[i], ev)
                                                ELSE ~RangeOverlap(map[i], ev)

\* sbi_pmu_add_hw_event_counter_map(): what it refuses before the table.
MapRequestValid(ev) ==
    \/ ev.first = RAW_IDX /\ ev.last = RAW_V2_IDX
    \/ ev.first =< ev.last /\ ev.first < RAW_IDX /\ ev.last < RAW_IDX

\* The selector of a raw event matches when the bits outside the event's own
\* bits agree: data & select_mask is what smask maps data to.
SelectMatches(ev, data) == ev.select = ev.smask[data]

\* fdt_pmu_setup(): the entries of the device tree in order, up to the first
\* that is refused; only counters the hart has are kept.
PmuSetup(entries, avail) ==
    LET Add(acc, ev) ==
            IF acc.failed THEN acc
            ELSE IF MapRequestValid(ev) /\ MapAccepts(acc.map, ev)
                 THEN [acc EXCEPT !.map = Append(@, [ev EXCEPT !.ctrs = @ \cap (avail \cup FixedCtrs)])]
                 ELSE [acc EXCEPT !.failed = TRUE]
    IN  FoldLeft(Add, [map |-> <<>>, failed |-> FALSE], entries).map

\* pmu_event_validate(): the type of a valid event index.
EventValid(e) ==
    LET code == EventCode(e)
    IN  CASE EventType(e) = TypeHW    -> code < HW_GENERAL_MAX
          [] EventType(e) = TypeFW    -> code < FW_MAX
          [] EventType(e) = TypeCACHE -> (code \div 2) % 4 < CACHE_OP_MAX
          [] IsRaw(e)                 -> code < 1
          [] OTHER                    -> FALSE

\* pmu_ctr_validate(): the counter has an event.
CtrValid(c) == c \in PmuCounters /\ active_events[c] # NO_EVENT
CtrIsFw(c) == EventType(active_events[c]) = TypeFW

\* sbi_pmu_irq_bit(): the overflow interrupt this firmware handles.  Andes
\* delegates its own through another register.
HasIrqBit == pmu_plat.irq \in {"sscofpmf", "thead"}

\* Bug: a pending interrupt does not keep the overflow bit.
StartOverflowAlways(of, cs) == of \ cs

\* pmu_ctr_enable_irq_hw() and the devices' hw_counter_enable_irq() for the
\* counters that start: the overflow bit is cleared only while no interrupt
\* is pending, so that S-mode finds the counter that raised it.  C9xx always
\* clears it.
StartOverflow(of, cs) ==
    CASE pmu_plat.irq = "sscofpmf" /\ ~ovf_irq.mip -> of \ (cs \ FixedCtrs)
      [] pmu_plat.irq = "andes" /\ ~ovf_irq.mip    -> of \ cs
      [] pmu_plat.irq = "thead"                    -> of \ cs
      [] OTHER                                     -> of
StartInten(ie, cs) == IF pmu_plat.irq \in {"thead", "andes"} THEN ie \cup cs ELSE ie

\* pmu_ctr_start_hw() starts these counters.  Without mcountinhibit it only
\* sets their value.
StartsHw(c) == pmu_plat.inhibit /\ c < NumHw /\ c # 1 /\ c \in inhibit

\* Bug: the last hardware counter is not stopped.
StopsHwShort(c) == pmu_plat.inhibit /\ c < NumHw - 1 /\ c # 1 /\ c \notin inhibit

\* pmu_ctr_stop_hw() stops these.
StopsHw(c) == pmu_plat.inhibit /\ c < NumHw /\ c # 1 /\ c \notin inhibit

\* The counters asked for, and the range check of every call.
Asked(base, mask) == {base + i : i \in mask}
InRange(base, mask) == base + Max(mask \cup {0}) < NumHw + NumFw

(***************************************************************************)
(* sbi_pmu_ctr_cfg_match().                                                *)
(***************************************************************************)
FixedCtr(e) == CASE e = CYCLES -> {0} [] e = INSTRUCTIONS -> {2} [] OTHER -> {}

EntryMatches(ev, e, data) ==
    /\ ev.first =< e /\ e =< ev.last
    /\ e \in {RAW_IDX, RAW_V2_IDX} => SelectMatches(ev, data)

\* Bug: a stopped counter counts as free.
CtrFreeStopped(c) == pmu_plat.inhibit => c \in inhibit

CtrFree(c) ==
    /\ active_events[c] = NO_EVENT
    /\ pmu_plat.inhibit => c \in inhibit

\* The loop of pmu_ctr_find_hw() over the event map: the scan of the first
\* entry that matches moves cbase past the last counter, so later entries
\* find nothing.  Of its free counters the last one is kept.
FreeHw(base, mask, e, data) ==
    LET hits == {i \in DOMAIN hw_event_map : EntryMatches(hw_event_map[i], e, data)}
    IN  IF hits = {} THEN {}
        ELSE {c \in (hw_event_map[Min(hits)].ctrs \cap Asked(base, mask)) \ FixedCtrs : CtrFree(c)}

\* pmu_ctr_find_hw(): the counter found, if any.
FindHw(base, mask, e, data) ==
    LET free == FreeHw(base, mask, e, data)
    IN  CASE base >= NumHw -> {}
          [] base < NumHw /\ FixedCtr(e) # {} /\ pmu_plat.irq # "sscofpmf" -> FixedCtr(e)
          [] base < NumHw /\ free = {} -> FixedCtr(e)
          [] OTHER -> IF e \in pmu_plat.xlate THEN {Max(free)} ELSE {}

\* Bug: the range of firmware counters is not tested.
FindFwAny(base, mask) ==
    LET free == {i \in mask : active_events[i] = NO_EVENT}
    IN  IF free = {} THEN {} ELSE {Min(free)}

\* pmu_ctr_find_fw(): the loop tests and returns the offset i, not i + cbase,
\* which for another base than 0 is the index of another counter.
FindFw(base, mask) ==
    LET free == {i \in mask : /\ base + i \in NumHw .. NumHw + NumFw - 1
                              /\ active_events[i] = NO_EVENT}
    IN  IF free = {} THEN {} ELSE {Min(free)}

FindCtr(base, mask, flags, e, data) ==
    IF "skip" \in flags
    THEN {c \in {base + Min(mask)} : active_events[c] # NO_EVENT}
    ELSE IF EventType(e) = TypeFW THEN FindFw(base, mask) ELSE FindHw(base, mask, e, data)

\* pmu_update_hw_mhpmevent(): the overflow bit starts set and the device's
\* interrupt disabled; fixed counters are left alone.
Programs(c, flags, e) == "skip" \notin flags /\ EventType(e) # TypeFW /\ c > 2

\* A firmware event on a hardware counter: fw_counters_data is indexed by
\* cidx - num_hw_ctrs, a negative number in 32 unsigned bits.  The store goes far
\* behind the array: it traps, or it hits memory that is not the PMU's.
OutOfBounds(cs) == cs \cap (0 .. NumHw - 1) # {}
StrayStore(cs) ==
    /\ OutOfBounds(cs) => pmu_fault' \in BOOLEAN
    /\ ~OutOfBounds(cs) => UNCHANGED pmu_fault

\* AUTO_START starts counters of type HW and FW only.  With SKIP_MATCH the counter
\* named keeps its event, which need not be of the type of e; BIT() of a negative
\* number is a high bit of fw_counters_started, kept here as the counter itself.
CtrCfgMatch(base, mask, flags, e, data) ==
    /\ pmu_up /\ mask # {}
    /\ LET found == IF InRange(base, mask) /\ EventValid(e)
                    THEN FindCtr(base, mask, flags, e, data) ELSE {}
           hw == {c \in found : EventType(e) = TypeHW /\ "auto" \in flags /\ StartsHw(c)}
           new == {c \in found : Programs(c, flags, e)}
           fw == {c \in found : EventType(e) = TypeFW}
       IN  /\ active_events' = IF "skip" \in flags THEN active_events
                               ELSE [c \in PmuCounters |-> IF c \in found THEN e ELSE active_events[c]]
           /\ inhibit' = inhibit \ hw
           /\ overflow' = StartOverflow(IF pmu_plat.irq = "sscofpmf" THEN overflow \cup new
                                       ELSE overflow, hw)
           /\ inten' = StartInten(inten \ new, hw)
           /\ fw_data' = [c \in DOMAIN fw_data |-> IF c \in fw /\ "clear" \in flags THEN 0 ELSE fw_data[c]]
           /\ StrayStore(IF "clear" \in flags THEN fw ELSE {})
           /\ fw_started' = IF "auto" \in flags THEN fw_started \cup fw ELSE fw_started
           /\ misplaced' = misplaced \cup {c \in fw : c < NumHw /\ (base # 0 \/ "skip" \in flags)}
    /\ UNCHANGED <<pmu_plat, hw_event_map, ovf_irq, pmu_sse, sse_enabled, pmu_up>>

(***************************************************************************)
(* Starting, stopping and reading counters.                                *)
(***************************************************************************)
\* sbi_pmu_ctr_start(): init is the value to set, if any.
CtrStart(base, mask, init) ==
    LET valid == {c \in Asked(base, mask) : CtrValid(c)}
        fw == {c \in valid : CtrIsFw(c)}
        hw == {c \in valid \ fw : StartsHw(c)}
    IN  /\ pmu_up /\ mask # {} /\ InRange(base, mask)
        /\ fw_started' = fw_started \cup fw
        /\ fw_data' = [c \in DOMAIN fw_data |-> IF c \in fw /\ init # {} THEN CHOOSE v \in init : TRUE
                                                                       ELSE fw_data[c]]
        /\ StrayStore(IF init # {} THEN fw ELSE {})
        /\ inhibit' = inhibit \ hw
        /\ overflow' = StartOverflow(overflow, hw)
        /\ inten' = StartInten(inten, hw)
        /\ UNCHANGED <<pmu_plat, hw_event_map, active_events, ovf_irq, pmu_sse, sse_enabled, pmu_up,
                       misplaced>>

\* sbi_pmu_ctr_stop(): with RESET a programmable counter loses its event and
\* its mhpmevent, overflow bit included.
CtrStop(base, mask, reset) ==
    LET valid == {c \in Asked(base, mask) : CtrValid(c)}
        fw == {c \in valid : CtrIsFw(c)}
        hw == {c \in valid \ fw : StopsHw(c)}
        freed == IF reset THEN valid \ FixedCtrs ELSE {}
    IN  /\ pmu_up /\ mask # {} /\ InRange(base, mask)
        /\ fw_started' = fw_started \ fw
        /\ inhibit' = inhibit \cup hw
        /\ inten' = inten \ hw
        /\ active_events' = [c \in PmuCounters |-> IF c \in freed THEN NO_EVENT ELSE active_events[c]]
        /\ overflow' = overflow \ freed
        /\ ovf_irq' = IF sse_enabled /\ HasIrqBit THEN [ovf_irq EXCEPT !.mip = FALSE] ELSE ovf_irq
        /\ UNCHANGED <<pmu_plat, hw_event_map, fw_data, pmu_sse, sse_enabled, pmu_up, pmu_fault, misplaced>>

\* sbi_pmu_ctr_incr_fw(): an event of the firmware is counted by the first
\* started counter assigned to it.
CtrIncrFw(code) ==
    LET cs == {c \in fw_started : c >= NumHw /\ EventCode(active_events[c]) = code}
    IN  /\ pmu_up /\ cs # {}
        /\ fw_data[Min(cs)] < FwCountMax
        /\ fw_data' = [fw_data EXCEPT ![Min(cs)] = @ + 1]
        /\ UNCHANGED <<pmu_plat, hw_event_map, active_events, fw_started, inhibit, overflow,
                       inten, ovf_irq, pmu_sse, sse_enabled, pmu_up, pmu_fault, misplaced>>

\* sbi_pmu_event_get_info(): whether an event is reported as countable.
EventSupported(e, data) ==
    /\ EventValid(e)
    /\ \E i \in DOMAIN hw_event_map :
          LET ev == hw_event_map[i]
          IN  IF e \in {RAW_IDX, RAW_V2_IDX} THEN SelectMatches(ev, data)
                                             ELSE ev.first =< e /\ e =< ev.last

(***************************************************************************)
(* The overflow interrupt, and the software event it raises.               *)
(***************************************************************************)
\* Hardware: a counting counter whose overflow interrupt is armed overflows.
CtrOverflow(c) ==
    /\ pmu_plat.irq # "none" /\ c \notin inhibit /\ c \notin overflow
    /\ pmu_plat.irq \in {"thead", "andes"} => c \in inten
    /\ overflow' = overflow \cup {c}
    /\ ovf_irq' = [ovf_irq EXCEPT !.mip = TRUE]
    /\ UNCHANGED <<pmu_plat, hw_event_map, active_events, fw_started, fw_data, inhibit,
                   inten, pmu_sse, sse_enabled, pmu_up, pmu_fault, misplaced>>

PmuIrqStep == UNCHANGED <<pmu_plat, hw_event_map, active_events, fw_started, fw_data, inhibit,
                          overflow, inten, pmu_up, pmu_fault, misplaced>>

\* sbi_pmu_ovf_irq(): M-mode takes the interrupt and injects the event.
OvfIrq ==
    /\ pmu_up /\ HasIrqBit
    /\ ovf_irq.mip /\ ovf_irq.mie /\ ~ovf_irq.deleg
    /\ ovf_irq' = [ovf_irq EXCEPT !.mie = FALSE]
    /\ pmu_sse' = [pmu_sse EXCEPT !.pending = TRUE]
    /\ PmuIrqStep /\ UNCHANGED sse_enabled

\* pmu_sse_enable(), called when S-mode enables the registered event.
SseEnable ==
    /\ pmu_up /\ HasIrqBit /\ pmu_sse.state = "registered"
    /\ pmu_sse' = [pmu_sse EXCEPT !.state = "enabled"]
    /\ sse_enabled' = TRUE
    /\ ovf_irq' = [mie |-> TRUE, mip |-> FALSE, deleg |-> FALSE]
    /\ PmuIrqStep

\* Bug: the interrupt is not handed back to S-mode.
DisabledIrqKept == [mie |-> FALSE, mip |-> FALSE, deleg |-> FALSE]

\* pmu_sse_disable(): what S-mode's disable and the completion of a one-shot
\* event do.
DisabledIrq == [mie |-> FALSE, mip |-> FALSE, deleg |-> TRUE]
SseDisable ==
    /\ pmu_up /\ pmu_sse.state = "enabled"
    /\ pmu_sse' = [pmu_sse EXCEPT !.state = "registered"]
    /\ sse_enabled' = FALSE
    /\ ovf_irq' = DisabledIrq
    /\ PmuIrqStep

\* The event is delivered to S-mode (sbi_sse.c).
SseDeliver ==
    /\ pmu_up /\ pmu_sse.state = "enabled" /\ pmu_sse.pending
    /\ pmu_sse' = [pmu_sse EXCEPT !.state = "running", !.pending = FALSE]
    /\ PmuIrqStep /\ UNCHANGED <<ovf_irq, sse_enabled>>

\* S-mode completes it: a one-shot event is disabled first, then
\* pmu_sse_complete() unmasks the interrupt.
SseComplete(oneshot) ==
    /\ pmu_up /\ pmu_sse.state = "running"
    /\ pmu_sse' = [pmu_sse EXCEPT !.state = IF oneshot THEN "registered" ELSE "enabled"]
    /\ sse_enabled' = (sse_enabled /\ ~oneshot)
    /\ ovf_irq' = [(IF oneshot THEN DisabledIrq ELSE ovf_irq) EXCEPT !.mie = TRUE]
    /\ PmuIrqStep

\* S-mode owns a delegated interrupt: it masks, unmasks and acknowledges it.
SModeIrq(mie, mip) ==
    /\ pmu_up /\ ovf_irq.deleg /\ (mip => ovf_irq.mip)
    /\ ovf_irq' = [ovf_irq EXCEPT !.mie = mie, !.mip = mip]
    /\ PmuIrqStep /\ UNCHANGED <<pmu_sse, sse_enabled>>

(***************************************************************************)
(* Boot, stop, start and resume of the hart.                               *)
(***************************************************************************)
\* pmu_reset_event_map() and, with init, the fixed counters.
ResetEvents(init) ==
    [c \in PmuCounters |-> CASE c > 2 -> NO_EVENT
                             [] c = 0 /\ init -> CYCLES
                             [] c = 1 /\ init -> NO_EVENT
                             [] c = 2 /\ init -> INSTRUCTIONS
                             [] OTHER -> active_events[c]]

\* mstatus_init() sets the overflow bit of every counter.
BootOverflow(plat) == IF plat.irq = "sscofpmf" THEN Programmable \cap plat.avail ELSE {}

PmuInit ==
    /\ pmu_plat \in PmuPlatforms
    /\ hw_event_map = PmuSetup(pmu_plat.entries, pmu_plat.avail)
    /\ active_events = [c \in PmuCounters |-> CASE c = 0 -> CYCLES [] c = 2 -> INSTRUCTIONS
                                                [] OTHER -> NO_EVENT]
    /\ fw_started = {}
    /\ fw_data = [c \in NumHw .. NumHw + NumFw - 1 |-> 0]
    /\ inhibit = IF pmu_plat.inhibit THEN Programmable ELSE {}
    /\ overflow = BootOverflow(pmu_plat)
    /\ inten = {}
    /\ ovf_irq = [mie |-> FALSE, mip |-> FALSE, deleg |-> HasIrqBit]
    /\ pmu_sse = [state |-> "registered", pending |-> FALSE]
    /\ sse_enabled = FALSE
    /\ pmu_up = TRUE
    /\ pmu_fault = FALSE
    /\ misplaced = {}

\* sbi_exit(): sbi_sse_exit() drops the event without its disable callback,
\* then sbi_pmu_exit().
PmuExit ==
    /\ pmu_up /\ pmu_up' = FALSE
    /\ pmu_sse' = [pmu_sse EXCEPT !.state = "registered"]
    /\ inhibit' = IF pmu_plat.inhibit THEN Programmable ELSE {}
    /\ active_events' = ResetEvents(FALSE)
    /\ fw_data' = [c \in DOMAIN fw_data |-> 0]
    /\ fw_started' = {}
    /\ sse_enabled' = FALSE
    /\ UNCHANGED <<pmu_plat, hw_event_map, overflow, inten, ovf_irq, pmu_fault, misplaced>>

\* The warm boot of a hart that was stopped: sbi_hart_init(), sbi_pmu_init().
PmuWarmInit ==
    /\ ~pmu_up /\ pmu_up' = TRUE
    /\ inhibit' = IF pmu_plat.inhibit THEN Programmable ELSE {}
    /\ overflow' = overflow \cup BootOverflow(pmu_plat)
    /\ ovf_irq' = [mie |-> FALSE, mip |-> FALSE, deleg |-> HasIrqBit]
    /\ active_events' = ResetEvents(TRUE)
    /\ fw_data' = [c \in DOMAIN fw_data |-> 0]
    /\ fw_started' = {}
    /\ sse_enabled' = FALSE
    /\ misplaced' = {}
    /\ UNCHANGED <<pmu_plat, hw_event_map, inten, pmu_sse, pmu_fault>>

\* Non-retentive suspend and resume: sbi_hart_reinit() writes the boot values,
\* then mie is restored from the copy taken before; mideleg is not saved.
PmuResume ==
    /\ pmu_up
    /\ inhibit' = IF pmu_plat.inhibit THEN Programmable ELSE {}
    /\ overflow' = overflow \cup BootOverflow(pmu_plat)
    /\ ovf_irq' = [ovf_irq EXCEPT !.deleg = HasIrqBit]
    /\ UNCHANGED <<pmu_plat, hw_event_map, active_events, fw_started, fw_data, inten,
                   pmu_sse, sse_enabled, pmu_up, pmu_fault, misplaced>>

\* What S-mode asks for: on platforms with asks = "any" sets of counters at any
\* base, initial values, and with SKIP_MATCH any event for any counter; with asks =
\* "hw" hardware events only.
Bases == IF pmu_plat.asks = "any" THEN PmuBases ELSE {0}
Inits == IF pmu_plat.asks = "any" THEN {{}, {1}} ELSE {{}}
AskedFor(base, mask, flags, e) ==
    /\ pmu_plat.asks = "hw" => EventType(e) # TypeFW
    /\ \/ pmu_plat.asks = "any"
       \/ "skip" \notin flags
       \/ EventType(e) = EventType(active_events[base + Min(mask)])

PmuStep ==
    \/ \E base \in Bases, mask \in PmuMasks, flags \in PmuFlags, e \in PmuEvents, d \in PmuData :
          /\ IsRaw(e) \/ d = Min(PmuData)
          /\ AskedFor(base, mask, flags, e)
          /\ CtrCfgMatch(base, mask, flags, e, d)
    \/ \E base \in Bases, mask \in PmuMasks :
          \/ \E init \in Inits : CtrStart(base, mask, init)
          \/ \E reset \in BOOLEAN : CtrStop(base, mask, reset)
    \/ \E code \in 0 .. FW_MAX - 1 : CtrIncrFw(code)
    \/ \E c \in Programmable : CtrOverflow(c)
    \/ OvfIrq \/ SseEnable \/ SseDisable \/ SseDeliver
    \/ \E oneshot \in BOOLEAN : SseComplete(oneshot)
    \/ \E mie, mip \in BOOLEAN : SModeIrq(mie, mip)
    \/ PmuExit \/ PmuWarmInit \/ PmuResume

\* sbi_trap_error(): a hart that trapped in the firmware stays in sbi_hart_hang().
PmuHung == pmu_fault /\ UNCHANGED pmu_vars

PmuNext == (~pmu_fault /\ PmuStep) \/ PmuHung

(***************************************************************************)
(* Properties.                                                             *)
(***************************************************************************)
PmuTypeOK ==
    /\ active_events \in [PmuCounters -> Int]
    /\ fw_started \subseteq PmuCounters
    /\ inhibit \subseteq Programmable \cup FixedCtrs
    /\ overflow \cup inten \subseteq Programmable \cup FixedCtrs
    /\ ovf_irq \in [mie : BOOLEAN, mip : BOOLEAN, deleg : BOOLEAN]
    /\ pmu_sse \in [state : {"registered", "enabled", "running"}, pending : BOOLEAN]
    /\ sse_enabled \in BOOLEAN /\ pmu_up \in BOOLEAN /\ pmu_fault \in BOOLEAN
    /\ misplaced \subseteq 0 .. NumHw - 1

\* No counter runs without an owner: after any sequence of configure, start,
\* stop, reset, hart stop and resume, a started firmware counter still has a
\* firmware event and a programmable counter that is not inhibited has an
\* event, so it can be found and stopped again (sbi_pmu_ctr_stop() skips
\* counters without an event).  The misplaced counters are excepted: their bits
\* in fw_counters_started belong to no counter, and one that SKIP_MATCH also started
\* as hardware is released as firmware and goes on counting.
PmuNoOrphanCounter ==
    /\ \A c \in fw_started \ misplaced : CtrValid(c) /\ CtrIsFw(c)
    /\ pmu_plat.inhibit => \A c \in Programmable \ (inhibit \cup misplaced) : CtrValid(c)

\* Firmware events are counted by firmware counters and hardware events by
\* hardware counters ("Any firmware counter can map to any firmware event",
\* pmu_ctr_find_fw()).  The exception is a counter that the code has handed out as a
\* firmware counter although it is none: pmu_ctr_find_fw() does when the set of
\* counters does not begin at 0, SKIP_MATCH when the caller names a counter of another
\* type.  A store outside fw_counters_data has no other cause.
PmuEventsPlaced ==
    /\ \A c \in PmuCounters \ misplaced : CtrValid(c) => (CtrIsFw(c) <=> c >= NumHw)
    /\ pmu_fault => misplaced # {}

\* A counter in use keeps its event until it is released: no step replaces one
\* event by another.
PmuNoSteal ==
    [][\A c \in PmuCounters : active_events'[c] # active_events[c] =>
          NO_EVENT \in {active_events[c], active_events'[c]}]_pmu_vars

\* While the overflow interrupt is pending, starting counters does not clear
\* the overflow bit of the counter that raised it: S-mode finds it by that bit
\* (pmu_ctr_enable_irq_hw()).  The C9xx device clears it unconditionally.
PmuOverflowKept ==
    [][ovf_irq.mip /\ ovf_irq'.mip /\ pmu_plat.irq # "thead" =>
          \A c \in overflow \ overflow' : ~CtrValid(c)']_pmu_vars

\* Once the software event owns the overflow interrupt, an overflow always
\* reaches it: the interrupt is unmasked, or the event is already pending or
\* running and completing it unmasks the interrupt.  When the event is off,
\* the interrupt belongs to S-mode.
PmuOverflowReachesEvent ==
    HasIrqBit /\ pmu_up =>
        IF sse_enabled /\ ~ovf_irq.deleg
        THEN ovf_irq.mie \/ pmu_sse.pending \/ pmu_sse.state = "running"
        ELSE ovf_irq.deleg

\* The ranges of the event map are disjoint, so the one entry that
\* pmu_ctr_find_hw() searches is the only one; and what
\* sbi_pmu_event_get_info() reports as countable is what has an entry.
PmuMapUnambiguous ==
    \A e \in PmuEvents, d \in PmuData :
        LET hits == {i \in DOMAIN hw_event_map : EntryMatches(hw_event_map[i], e, d)}
        IN  ~IsRaw(e) => /\ Cardinality(hits) =< 1
                         /\ EventSupported(e, d) <=> EventValid(e) /\ hits # {}

\* The bookkeeping of sbi_pmu.c agrees with the counters: every started counter has
\* an event, every event sits in a counter that can count it, the table of events
\* gives one answer, and an overflow reaches the software event if S-mode uses it;
\* all of it except for the counters in misplaced, see PmuEventsPlaced.
PmuSound == PmuTypeOK /\ PmuNoOrphanCounter /\ PmuEventsPlaced /\ PmuMapUnambiguous /\ PmuOverflowReachesEvent
====
