--------------------------------- MODULE Timer ---------------------------------
(***************************************************************************)
(* The timer: sbi_timer.c above an ACLINT MTIMER (aclint_mtimer.c) or an    *)
(* Andes PLMT (andes_plmt.c).  The harts share one MTIMER whose MTIME is    *)
(* brought in line with a reference MTIMER by the first of them to boot.    *)
(* 64-bit registers are two digits to base Half; a 32-bit bus moves one     *)
(* digit at a time, and time goes on in between.                            *)
(*                                                                         *)
(* tm_ref, tm_mt   MTIME of the reference and of the harts' own MTIMER      *)
(* tm_computed     time_delta_computed of the MTIMER                        *)
(* tm_cmp          MTIMECMP of each hart                                    *)
(* tm_mie, tm_stip MIE.MTIP and MIP.STIP of each hart                       *)
(* tm_pc, tm_l     where a hart is in the firmware, and its locals          *)
(* tm_want         history: the deadline S-mode asked for, None if none     *)
(* tm_wide, tm_kind  has_64bit_mmio, and the kind of timer                *)
(* tm_slip         history: ticks since the last read of MTIME in the sync  *)
(***************************************************************************)
EXTENDS Integers

CONSTANTS TmHarts,    \* harts of the MTIMER
          TmActive,   \* bound: those whose S-mode uses the timer or stops
          Half,       \* base of a register half (2^32 in the code)
          TmMax,      \* bound: last value of the reference time
          TmSkew,     \* what MTIME may be at reset, the reference being 0
          TmWide,     \* {TRUE}, {FALSE} or both: has_64bit_mmio
          TmEvents,   \* deadlines, relative to now
          TmSlip,     \* bound: ticks during the sync (far less than Half in the code)
          TmSerial,   \* TRUE: S-mode uses no time while a hart still synchronises it
          TmKinds     \* kinds of timer: "mtimer", "plmt"

VARIABLES tm_ref, tm_mt, tm_computed, tm_cmp, tm_mie, tm_stip, tm_pc, tm_l, tm_want, tm_slip, tm_wide, tm_kind

tm_vars == <<tm_ref, tm_mt, tm_computed, tm_cmp, tm_mie, tm_stip, tm_pc, tm_l, tm_want, tm_slip, tm_wide, tm_kind>>

TmNone == -1
Full == Half * Half
Never == Full - 1                       \* -1ULL
Lo(v) == v % Half
Hi(v) == (v \div Half) % Half
Join(hi, lo) == hi * Half + lo

TmLocals == [to |-> "none", val |-> 0, hi |-> 0, lo |-> 0, from |-> 0, v1 |-> 0, mv |-> 0, v2 |-> 0, new |-> 0]
TmBoot == [TmLocals EXCEPT !.new = Never]      \* aclint_mtimer_warm_init() writes -1ULL

TmInit ==
    /\ tm_wide \in TmWide /\ tm_kind \in TmKinds
    /\ tm_ref = 0 /\ tm_mt \in (IF tm_kind = "mtimer" THEN TmSkew ELSE {0})
    /\ tm_computed = (tm_kind = "plmt")
    /\ tm_cmp = [h \in TmHarts |-> 0]
    /\ tm_mie = [h \in TmHarts |-> FALSE] /\ tm_stip = [h \in TmHarts |-> FALSE]
    /\ tm_pc = [h \in TmHarts |-> "off"] /\ tm_l = [h \in TmHarts |-> TmLocals]
    /\ tm_want = [h \in TmHarts |-> TmNone]
    /\ tm_slip = 0

TmSyncing == \E h \in TmHarts : /\ tm_l[h].to \in {"mv", "v2", "adjust", "wmt"}
                                 /\ tm_pc[h] \notin {"off", "smode"}

(* Time passes; both counters have the same frequency. *)
Tick ==
    /\ tm_ref < TmMax /\ (TmSyncing => tm_slip < TmSlip)
    /\ tm_ref' = tm_ref + 1
    /\ tm_mt' = (tm_mt + 1) % Full
    /\ tm_slip' = IF TmSyncing THEN tm_slip + 1 ELSE tm_slip
    /\ UNCHANGED <<tm_computed, tm_cmp, tm_mie, tm_stip, tm_pc, tm_l, tm_want, tm_wide, tm_kind>>

TmGoto(h, pc) == tm_pc' = [tm_pc EXCEPT ![h] = pc]
-------------------------------------------------------------------------------
(* time_rd(): one access to a wide register; else the high half, the low   *)
(* half, and the high half again until it has not moved.  The value is put *)
(* into tm_l[h].val and the hart goes on at tm_l[h].to.                    *)
Source(h) == IF tm_l[h].to = "v2" THEN tm_ref ELSE tm_mt

\* Bug: the high half is not read again.
UnmovedAny(h, v) == TRUE

Unmoved(h, v) == Hi(v) = tm_l[h].hi

ReadWide(h) ==
    /\ tm_pc[h] = "read" /\ tm_wide
    /\ tm_l' = [tm_l EXCEPT ![h].val = Source(h)]
    /\ TmGoto(h, tm_l[h].to)
    /\ UNCHANGED <<tm_ref, tm_mt, tm_computed, tm_cmp, tm_mie, tm_stip, tm_want, tm_slip, tm_wide, tm_kind>>

ReadHi(h) ==
    /\ tm_pc[h] = "read" /\ ~tm_wide
    /\ tm_l' = [tm_l EXCEPT ![h].hi = Hi(Source(h))]
    /\ TmGoto(h, "readlo")
    /\ UNCHANGED <<tm_ref, tm_mt, tm_computed, tm_cmp, tm_mie, tm_stip, tm_want, tm_slip, tm_wide, tm_kind>>

ReadLo(h) ==
    /\ tm_pc[h] = "readlo"
    /\ tm_l' = [tm_l EXCEPT ![h].lo = Lo(Source(h))]
    /\ TmGoto(h, "readhi")
    /\ UNCHANGED <<tm_ref, tm_mt, tm_computed, tm_cmp, tm_mie, tm_stip, tm_want, tm_slip, tm_wide, tm_kind>>

ReadHiAgain(h) ==
    /\ tm_pc[h] = "readhi"
    /\ IF Unmoved(h, Source(h))
       THEN /\ tm_l' = [tm_l EXCEPT ![h] = [@ EXCEPT !.val = Join(tm_l[h].hi, tm_l[h].lo), !.hi = 0, !.lo = 0]]
            /\ TmGoto(h, tm_l[h].to)
       ELSE /\ TmGoto(h, "read") /\ tm_l' = [tm_l EXCEPT ![h] = [@ EXCEPT !.hi = 0, !.lo = 0]]
    /\ UNCHANGED <<tm_ref, tm_mt, tm_computed, tm_cmp, tm_mie, tm_stip, tm_want, tm_slip, tm_wide, tm_kind>>

(* time_wr(): a narrow register is first parked at a value that its other  *)
(* half makes harmless (all ones for MTIMECMP, zero for MTIME), then gets  *)
(* the high and the low half.  The PLMT driver does not park.              *)
Written(old, v, wide, k) == IF wide THEN v
                            ELSE CASE k = 2 -> Join(Hi(v), Lo(old))
                                   [] k = 3 -> Join(Hi(old), Lo(v))
                                   [] OTHER -> old
Parked(old, parking) == Join(Hi(old), parking)
-------------------------------------------------------------------------------
\* Bug: every hart that boots synchronises.
MustSyncAlways == tm_kind = "mtimer"

(* atomic_raw_xchg_ulong(&mt->time_delta_computed, 1) *)
MustSync == ~tm_computed

(* aclint_mtimer_warm_init(): the first hart synchronises, ... *)
WarmInit(h) ==
    /\ tm_pc[h] = "off"
    /\ tm_computed' = TRUE
    /\ tm_l' = [tm_l EXCEPT ![h] = [TmBoot EXCEPT !.to = IF MustSync THEN "mv" ELSE "none"]]
    /\ TmGoto(h, IF MustSync THEN "read" ELSE "cmp")
    /\ UNCHANGED <<tm_ref, tm_mt, tm_cmp, tm_mie, tm_stip, tm_want, tm_slip, tm_wide, tm_kind>>

(* aclint_mtimer_sync(): v1, the reference, v2, and MTIME once more, ... *)
SyncSteps == [mv |-> "v2", v2 |-> "adjust", adjust |-> "wmt"]
SyncField == [mv |-> "v1", v2 |-> "mv", adjust |-> "v2"]

SyncRead(h) ==
    /\ tm_pc[h] \in DOMAIN SyncSteps
    /\ tm_l' = [tm_l EXCEPT ![h] = [@ EXCEPT ![SyncField[tm_pc[h]]] = tm_l[h].val, !.val = 0, !.to = SyncSteps[tm_pc[h]]]]
    /\ TmGoto(h, "read")
    /\ UNCHANGED <<tm_ref, tm_mt, tm_computed, tm_cmp, tm_mie, tm_stip, tm_want, tm_slip, tm_wide, tm_kind>>

\* Bug: the second reading is left out of the mean.
DeltaLate(l) == l.mv - l.v1 \div 2

(* ... and the corrected value goes into MTIME. *)
Delta(l) == l.mv - ((l.v1 \div 2) + (l.v2 \div 2))
Corrected(l) == (l.val + Delta(l) + Full) % Full

SyncWrite(h) ==
    /\ tm_pc[h] = "wmt"
    /\ tm_mt' = IF tm_wide THEN Corrected(tm_l[h]) ELSE Parked(tm_mt, 0)
    /\ tm_l' = [tm_l EXCEPT ![h] = IF tm_wide THEN TmBoot ELSE [TmBoot EXCEPT !.val = Corrected(tm_l[h]), !.to = "wmt"]]
    /\ TmGoto(h, IF tm_wide THEN "cmp" ELSE "wmt2")
    /\ UNCHANGED <<tm_ref, tm_computed, tm_cmp, tm_mie, tm_stip, tm_want, tm_slip, tm_wide, tm_kind>>

SyncWriteHalf(h) ==
    /\ tm_pc[h] \in {"wmt2", "wmt3"}
    /\ tm_mt' = Written(tm_mt, tm_l[h].val, FALSE, IF tm_pc[h] = "wmt2" THEN 2 ELSE 3)
    /\ tm_l' = [tm_l EXCEPT ![h] = IF tm_pc[h] = "wmt2" THEN @ ELSE TmBoot]
    /\ TmGoto(h, IF tm_pc[h] = "wmt2" THEN "wmt3" ELSE "cmp")
    /\ UNCHANGED <<tm_ref, tm_computed, tm_cmp, tm_mie, tm_stip, tm_want, tm_slip, tm_wide, tm_kind>>
-------------------------------------------------------------------------------
(* sbi_timer_event_start() from S-mode (SBI_EXT_TIME_SET_TIMER): ... *)
EventStart(h) ==
    /\ h \in TmActive /\ tm_pc[h] = "smode" /\ (TmSerial => ~TmSyncing)
    /\ \E d \in TmEvents :
         /\ tm_mt + d < Never
         /\ tm_want' = [tm_want EXCEPT ![h] = tm_mt + d]
         /\ tm_l' = [tm_l EXCEPT ![h] = [TmLocals EXCEPT !.new = tm_mt + d, !.to = "event"]]
    /\ TmGoto(h, "cmp")
    /\ UNCHANGED <<tm_ref, tm_mt, tm_computed, tm_cmp, tm_mie, tm_stip, tm_slip, tm_wide, tm_kind>>

(* sbi_timer_exit() of a hart that stops *)
TimerExit(h) ==
    /\ h \in TmActive /\ tm_pc[h] = "smode"
    /\ tm_want' = [tm_want EXCEPT ![h] = TmNone]
    /\ tm_l' = [tm_l EXCEPT ![h] = [TmLocals EXCEPT !.new = Never, !.to = "exit"]]
    /\ TmGoto(h, "cmp")
    /\ UNCHANGED <<tm_ref, tm_mt, tm_computed, tm_cmp, tm_mie, tm_stip, tm_slip, tm_wide, tm_kind>>

(* ... MTIMECMP, in one, two (PLMT) or three accesses, ... *)
WriteCmp(h) ==
    /\ tm_pc[h] = "cmp"
    /\ tm_cmp' = [tm_cmp EXCEPT ![h] =
                    IF tm_wide THEN tm_l[h].new
                    ELSE IF tm_kind = "plmt" THEN Join(Hi(@), Lo(tm_l[h].new))
                    ELSE Parked(@, Half - 1)]
    /\ TmGoto(h, IF tm_wide THEN "csrs" ELSE "cmp2")
    /\ UNCHANGED <<tm_ref, tm_mt, tm_computed, tm_mie, tm_stip, tm_l, tm_want, tm_slip, tm_wide, tm_kind>>

WriteCmpHalf(h) ==
    /\ tm_pc[h] \in {"cmp2", "cmp3"}
    /\ tm_cmp' = [tm_cmp EXCEPT ![h] = Written(@, tm_l[h].new, FALSE, IF tm_pc[h] = "cmp2" THEN 2 ELSE 3)]
    /\ TmGoto(h, IF tm_pc[h] = "cmp2" /\ tm_kind = "mtimer" THEN "cmp3" ELSE "csrs")
    /\ UNCHANGED <<tm_ref, tm_mt, tm_computed, tm_mie, tm_stip, tm_l, tm_want, tm_slip, tm_wide, tm_kind>>

\* Bug: the S-mode interrupt stays pending.
StipKept(h) == tm_stip[h]

(* ... then STIP and MIE: cleared and set by an event start, both cleared  *)
(* by an exit, untouched by the warm init.                                 *)
StipAfter(h) == IF tm_l[h].to \in {"event", "exit"} THEN FALSE ELSE tm_stip[h]

\* Bug: the M-mode interrupt stays masked.
MieForgotten(h) == CASE tm_l[h].to = "exit" -> FALSE [] OTHER -> tm_mie[h]

MieAfter(h) == CASE tm_l[h].to = "event" -> TRUE [] tm_l[h].to = "exit" -> FALSE [] OTHER -> tm_mie[h]

SetCsrs(h) ==
    /\ tm_pc[h] = "csrs"
    /\ tm_stip' = [tm_stip EXCEPT ![h] = StipAfter(h)]
    /\ tm_mie' = [tm_mie EXCEPT ![h] = MieAfter(h)]
    /\ tm_l' = [tm_l EXCEPT ![h] = TmLocals]
    /\ TmGoto(h, IF tm_l[h].to = "exit" THEN "off" ELSE "smode")
    /\ UNCHANGED <<tm_ref, tm_mt, tm_computed, tm_cmp, tm_want, tm_slip, tm_wide, tm_kind>>

(* The machine timer interrupt, taken below M-mode only, and               *)
(* sbi_timer_process().                                                    *)
TimerProcess(h) ==
    /\ tm_pc[h] = "smode" /\ tm_mie[h] /\ tm_mt >= tm_cmp[h]
    /\ tm_mie' = [tm_mie EXCEPT ![h] = FALSE]
    /\ tm_stip' = [tm_stip EXCEPT ![h] = TRUE]
    /\ UNCHANGED <<tm_ref, tm_mt, tm_computed, tm_cmp, tm_pc, tm_l, tm_want, tm_slip, tm_wide, tm_kind>>

(* sbi_timer_value() for a delay loop or an emulated rdtime *)
TimerValue(h) ==
    /\ h \in TmActive /\ tm_pc[h] = "smode" /\ (TmSerial => ~TmSyncing)
    /\ tm_l' = [tm_l EXCEPT ![h] = [TmLocals EXCEPT !.to = "value", !.from = tm_mt]]
    /\ TmGoto(h, "read")
    /\ UNCHANGED <<tm_ref, tm_mt, tm_computed, tm_cmp, tm_mie, tm_stip, tm_want, tm_slip, tm_wide, tm_kind>>

TimerValueDone(h) ==
    /\ tm_pc[h] = "value"
    /\ tm_l' = [tm_l EXCEPT ![h] = TmLocals]
    /\ TmGoto(h, "smode")
    /\ UNCHANGED <<tm_ref, tm_mt, tm_computed, tm_cmp, tm_mie, tm_stip, tm_want, tm_slip, tm_wide, tm_kind>>

TmFirmware(h) == \/ ReadWide(h) \/ ReadHi(h) \/ ReadLo(h) \/ ReadHiAgain(h)
                 \/ SyncRead(h) \/ SyncWrite(h) \/ SyncWriteHalf(h)
                 \/ WriteCmp(h) \/ WriteCmpHalf(h) \/ SetCsrs(h) \/ TimerValueDone(h)

TmNext == \/ Tick
          \/ \E h \in TmHarts : \/ WarmInit(h) \/ EventStart(h) \/ TimerExit(h) \/ TimerValue(h)
                                \/ TimerProcess(h) \/ TmFirmware(h)

(* Time passes, harts run, and a pending enabled interrupt is taken. *)
TmFair == /\ WF_tm_vars(Tick)
          /\ \A h \in TmHarts : WF_tm_vars(TmFirmware(h))
          /\ \A h \in TmActive : SF_tm_vars(TimerProcess(h))
-------------------------------------------------------------------------------
TmLabels == {"off", "read", "readlo", "readhi", "mv", "v2", "adjust", "wmt", "wmt2", "wmt3",
             "cmp", "cmp2", "cmp3", "csrs", "smode", "value"}

(* Types; S-mode runs only after the time comparator was programmed. *)
TmTypeOK ==
    /\ tm_ref \in 0 .. TmMax /\ tm_mt \in 0 .. Full - 1 /\ tm_computed \in BOOLEAN
    /\ tm_cmp \in [TmHarts -> 0 .. Full - 1]
    /\ tm_mie \in [TmHarts -> BOOLEAN] /\ tm_stip \in [TmHarts -> BOOLEAN]
    /\ tm_pc \in [TmHarts -> TmLabels]

(* S-mode sees a timer interrupt only when the deadline it asked for last  *)
(* has passed: sbi_timer_event_start() leaves no interrupt of an earlier   *)
(* deadline behind, and no half-written MTIMECMP raises one.               *)
TmNotEarly ==
    \A h \in TmHarts : (tm_pc[h] = "smode" /\ tm_stip[h]) =>
                           tm_want[h] # TmNone /\ tm_mt >= tm_want[h]

(* A deadline is not lost: while S-mode runs, either it has its interrupt  *)
(* or MTIMECMP holds the deadline and the machine interrupt is enabled.    *)
TmNotLost ==
    \A h \in TmHarts : (tm_pc[h] = "smode" /\ tm_want[h] # TmNone) =>
                           tm_stip[h] \/ (tm_mie[h] /\ tm_cmp[h] = tm_want[h])

(* The time read in two halves is a time between the start and the end of  *)
(* the read, also when the low half overflows meanwhile.                   *)
TmReadWithin ==
    \A h \in TmHarts : tm_pc[h] = "value" => tm_l[h].from <= tm_l[h].val /\ tm_l[h].val <= tm_mt

(* aclint_mtimer_sync() runs once per MTIMER, however many harts boot at a *)
(* time, and leaves MTIME within the time the sync took (and the halving   *)
(* of two odd values) of the reference.                                    *)
TmSynced ==
    (tm_computed /\ ~TmSyncing /\ tm_kind = "mtimer") =>
        tm_mt - tm_ref \in (0 - tm_slip - 1) .. (tm_slip + 1)

(* A deadline that has passed and that S-mode does not move ends in a       *)
(* timer interrupt.                                                        *)
TmFires == \A h \in TmActive :
    []<>~(tm_want[h] # TmNone /\ tm_mt >= tm_want[h] /\ tm_pc[h] = "smode" /\ ~tm_stip[h])

(* S-mode gets the timer interrupt of the deadline it set last, neither    *)
(* early nor lost, by a time that is right however it is read or synced.   *)
TmSound == TmTypeOK /\ TmNotEarly /\ TmNotLost /\ TmReadWithin /\ TmSynced
===============================================================================
