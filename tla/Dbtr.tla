-------------------------------- MODULE Dbtr --------------------------------
(***************************************************************************)
(* The debug trigger extension of one hart (sbi_dbtr.c): the table of      *)
(* triggers, the shared memory S-mode passes configurations in, and the    *)
(* trigger registers of the hart.                                          *)
(*                                                                         *)
(* tdata1 is its type and the privilege modes it fires in; tdata2 is a     *)
(* value; the bits of tdata1 that the code copies are left out.  A trigger *)
(* register that fires in no mode is off.                                  *)
(***************************************************************************)
EXTENDS SbiDefs, Sequences, FiniteSets, FiniteSetsExt

CONSTANTS
    TrigCount,      \* triggers found by sbi_dbtr_init()
    TrigValues,     \* values of tdata2
    TrigConfigs     \* tdata1 values of S-mode: [type, modes, dmode, m]

VARIABLES
    triggers,       \* index -> [mapped, state, type, modes, tdata2]
    trig_hw,        \* index -> [modes, tdata2]: the trigger registers
    available_trigs,
    dbtr_shmem,     \* the shared memory is set
    dbtr_up,        \* the hart runs S-mode
    dbtr_fault,     \* the firmware used a NULL trigger
    overcounted     \* history: triggers in use when sbi_dbtr_init() last reset the count

dbtr_vars == <<triggers, trig_hw, available_trigs, dbtr_shmem, dbtr_up, dbtr_fault, overcounted>>

Triggers == 0 .. TrigCount - 1
NoTrigger == [mapped |-> FALSE, state |-> {}, type |-> "none", modes |-> {}, tdata2 |-> 0]
Off == [modes |-> {}, tdata2 |-> 0]

\* The mode bits of each trigger type that the code knows.
ModeBits(type) == CASE type = "mcontrol"  -> {"U", "S"}
                    [] type = "mcontrol6" -> {"U", "S", "VU", "VS"}
                    [] OTHER              -> {}

\* dbtr_trigger_supported() and dbtr_trigger_valid().
ConfigValid(cfg) == cfg.type \in {"mcontrol", "mcontrol6"} /\ ~cfg.dmode /\ ~cfg.m

DbtrInit ==
    /\ triggers = [i \in Triggers |-> NoTrigger]
    /\ trig_hw = [i \in Triggers |-> Off]
    /\ available_trigs = TrigCount
    /\ dbtr_shmem = FALSE /\ dbtr_up = TRUE /\ dbtr_fault = FALSE
    /\ overcounted = 0

\* sbi_dbtr_init() when the hart is started again: the triggers are not probed
\* again and keep their state, but all of them count as available.
DbtrWarmInit ==
    /\ ~dbtr_up /\ dbtr_up' = TRUE
    /\ dbtr_shmem' = FALSE
    /\ available_trigs' = TrigCount
    /\ overcounted' = Cardinality({i \in Triggers : triggers[i].mapped})
    /\ UNCHANGED <<triggers, trig_hw, dbtr_fault>>

\* The hart stops: nothing of this extension is undone.
DbtrHartStop ==
    /\ dbtr_up /\ dbtr_up' = FALSE
    /\ UNCHANGED <<triggers, trig_hw, available_trigs, dbtr_shmem, dbtr_fault, overcounted>>

\* sbi_dbtr_setup_shmem(): a memory that passes the address checks, or the
\* call that disables it.
SetupShmem(enable) ==
    /\ enable => ~dbtr_shmem
    /\ dbtr_shmem' = enable
    /\ UNCHANGED <<triggers, trig_hw, available_trigs, dbtr_up, dbtr_fault, overcounted>>

\* dbtr_trigger_setup() followed by dbtr_trigger_enable().
SetupTrigger(cfg, v) ==
    [mapped |-> TRUE, state |-> cfg.modes \cap ModeBits(cfg.type), type |-> cfg.type,
     modes |-> cfg.modes, tdata2 |-> v]

\* Bug: every mode is enabled.
EnableTriggerAll(t) == [t EXCEPT !.modes = @ \cup ModeBits(t.type)]

\* dbtr_trigger_enable() and dbtr_trigger_disable() on a mapped trigger, and
\* the registers they write.
EnableTrigger(t) == [t EXCEPT !.modes = (@ \ ModeBits(t.type)) \cup t.state]
DisableTrigger(t) == [t EXCEPT !.modes = @ \ ModeBits(t.type)]
HwAfterEnable(t) == [modes |-> t.modes, tdata2 |-> t.tdata2]

\* Bug: the register is not written.
HwAfterDisableNot(t, hw) == hw

HwAfterDisable(t, hw) == [hw EXCEPT !.modes = t.modes]

\* sbi_alloc_trigger(), as often as there are entries: the first free triggers.
Unmapped == {i \in Triggers : ~triggers[i].mapped}
Allocated(n) == {i \in Unmapped : Cardinality({j \in Unmapped : j < i}) < n}

\* sbi_dbtr_install_trig(): the check of all entries and of the number of
\* triggers, then the installation.
InstallTrig(entries) ==
    /\ dbtr_shmem
    /\ \A k \in DOMAIN entries : ConfigValid(entries[k].cfg)
    /\ available_trigs >= Len(entries)
    /\ LET ids == Allocated(Min({Len(entries), available_trigs}))
           Pos(i) == Cardinality({j \in ids : j < i}) + 1
           new == [i \in Triggers |->
                     IF i \in ids THEN SetupTrigger(entries[Pos(i)].cfg, entries[Pos(i)].tdata2)
                                  ELSE triggers[i]]
       IN  /\ triggers' = new
           /\ trig_hw' = [i \in Triggers |-> IF i \in ids THEN HwAfterEnable(new[i]) ELSE trig_hw[i]]
           /\ available_trigs' = available_trigs - Cardinality(ids)
           /\ dbtr_fault' = (Cardinality(ids) < Len(entries))
    /\ UNCHANGED <<dbtr_shmem, dbtr_up, overcounted>>

\* The triggers of mask that a loop handles before it meets one that is not
\* mapped.
Handled(mask) == {i \in mask : \A j \in mask : j =< i => triggers[j].mapped}

\* Bug: one trigger is counted for the whole mask.
FreedOnce(done) == available_trigs + 1

\* sbi_free_trigger(), for every trigger of the mask.
Freed(done) == available_trigs + Cardinality(done)

\* sbi_dbtr_uninstall_trig(): dbtr_trigger_clear() and sbi_free_trigger().
UninstallTrig(mask) ==
    LET done == Handled(mask)
    IN  /\ done # {}
        /\ triggers' = [i \in Triggers |-> IF i \in done THEN NoTrigger ELSE triggers[i]]
        /\ trig_hw' = [i \in Triggers |-> IF i \in done THEN Off ELSE trig_hw[i]]
        /\ available_trigs' = Freed(done)
        /\ UNCHANGED <<dbtr_shmem, dbtr_up, dbtr_fault, overcounted>>

\* sbi_dbtr_enable_trig(): triggers that are not mapped are skipped.
EnableTrig(mask) ==
    LET done == mask \ Unmapped
    IN  /\ triggers' = [i \in Triggers |-> IF i \in done THEN EnableTrigger(triggers[i]) ELSE triggers[i]]
        /\ trig_hw' = [i \in Triggers |-> IF i \in done THEN HwAfterEnable(EnableTrigger(triggers[i]))
                                                       ELSE trig_hw[i]]
        /\ UNCHANGED <<available_trigs, dbtr_shmem, dbtr_up, dbtr_fault, overcounted>>

\* sbi_dbtr_disable_trig().
DisableTrig(mask) ==
    LET done == mask \ Unmapped
    IN  /\ triggers' = [i \in Triggers |-> IF i \in done THEN DisableTrigger(triggers[i]) ELSE triggers[i]]
        /\ trig_hw' = [i \in Triggers |-> IF i \in done
                                          THEN HwAfterDisable(DisableTrigger(triggers[i]), trig_hw[i])
                                          ELSE trig_hw[i]]
        /\ UNCHANGED <<available_trigs, dbtr_shmem, dbtr_up, dbtr_fault, overcounted>>

\* sbi_dbtr_update_trig(): the new tdata2 of each trigger, which is enabled.
UpdateTrig(mask, v) ==
    LET done == Handled(mask)
        new == [i \in Triggers |-> IF i \in done
                                   THEN EnableTrigger([triggers[i] EXCEPT !.tdata2 = v])
                                   ELSE triggers[i]]
    IN  /\ dbtr_shmem /\ done # {}
        /\ triggers' = new
        /\ trig_hw' = [i \in Triggers |-> IF i \in done THEN HwAfterEnable(new[i]) ELSE trig_hw[i]]
        /\ UNCHANGED <<available_trigs, dbtr_shmem, dbtr_up, dbtr_fault, overcounted>>

TrigEntries == [cfg : TrigConfigs, tdata2 : TrigValues]
TrigMasks == SUBSET Triggers \ {{}}

DbtrCall ==
    \/ \E enable \in BOOLEAN : SetupShmem(enable)
    \/ \E a \in TrigEntries : InstallTrig(<<a>>)
    \/ \E a, b \in TrigEntries : InstallTrig(<<a, b>>)
    \/ \E mask \in TrigMasks :
          UninstallTrig(mask) \/ EnableTrig(mask) \/ DisableTrig(mask)
    \/ \E mask \in TrigMasks, v \in TrigValues : UpdateTrig(mask, v)
DbtrNext ==
    \/ dbtr_up /\ ~dbtr_fault /\ DbtrCall
    \/ ~dbtr_fault /\ (DbtrHartStop \/ DbtrWarmInit)
    \/ dbtr_fault /\ UNCHANGED dbtr_vars     \* the hart hangs in M-mode

(***************************************************************************)
(* Properties.                                                             *)
(***************************************************************************)
DbtrTypeOK ==
    /\ \A i \in Triggers : triggers[i].modes \cup triggers[i].state \subseteq {"U", "S", "VU", "VS"}
    /\ DOMAIN trig_hw = Triggers
    /\ available_trigs \in Nat /\ overcounted \in Nat
    /\ dbtr_shmem \in BOOLEAN /\ dbtr_up \in BOOLEAN /\ dbtr_fault \in BOOLEAN

\* The trigger registers are what the table says, across refused and partly
\* executed calls: a mapped trigger has its tdata1 and tdata2 in the hart, a
\* free one is off, so no breakpoint stays armed that S-mode cannot find.
DbtrHwAgrees ==
    \A i \in Triggers : IF triggers[i].mapped THEN trig_hw[i] = HwAfterEnable(triggers[i])
                                              ELSE trig_hw[i] = Off

\* A trigger never fires in a mode it was not installed for, whatever the order
\* of enable, disable and update.
DbtrModesKept ==
    \A i \in Triggers : triggers[i].mapped =>
        trig_hw[i].modes \cap ModeBits(triggers[i].type) \subseteq triggers[i].state

\* available_trigs counts the free triggers, also when sbi_dbtr_uninstall_trig() stops
\* in the middle of its mask: none is lost, and "trigger allocation must succeed" once
\* sbi_dbtr_install_trig() has compared the count with the number of entries.  The
\* exception is a hart that was restarted with triggers installed: the count is too
\* high by the number of those, and only then can the allocation return NULL, which
\* sbi_dbtr_install_trig() goes on to use.
DbtrCountExact ==
    /\ available_trigs = Cardinality(Unmapped) + overcounted
    /\ dbtr_fault => overcounted > 0

\* What sbi_dbtr.c remembers of the triggers is what the hardware does: an enabled
\* trigger fires in the modes S-mode asked for, and none is lost to later installs,
\* which succeed if the count says so, save on a hart restarted with triggers in use.
DbtrSound == DbtrTypeOK /\ DbtrHwAgrees /\ DbtrModesKept /\ DbtrCountExact
=============================================================================
