------------------------------ MODULE RpmiClients ------------------------------
(***************************************************************************)
(* The drivers above the RPMI mailbox, at boot: the mailbox controller is   *)
(* initialised by the first driver that asks for a channel, then each       *)
(* device tree node of rc_nodes is handed to its driver (HSM, CPPC, system  *)
(* MSI or clock proxy, system suspend, system reset).  Every request to the *)
(* PuC may fail.  The HSM and CPPC drivers read lists page by page.         *)
(*                                                                         *)
(* rc_nodes    the nodes still to be initialised                            *)
(* rc_pc, rc_l where the driver of the first node is, and its locals        *)
(* mb_ctl      the mailbox controller is registered                         *)
(* mb_chans    service groups with a channel in chan_list (0: base)         *)
(* rc_live     heap objects                                                 *)
(* rc_hold     the channel each registered client uses                      *)
(* rc_hsm, rc_states    harts with a struct rpmi_hsm; suspend_param fields  *)
(* rc_cppc     struct rpmi_cppc of the harts                                *)
(* rc_devs     devices registered with the core; rc_ids: MPXY channels      *)
(* rc_ret      what the last init function returned                         *)
(* rc_ntypes, rc_nharts   suspend types and harts that the PuC lists        *)
(* rc_ranges   memory ranges added to the root domain                       *)
(* rc_seen     history: a wild pointer was freed; harts without the offset  *)
(*             of their fast channel                                        *)
(***************************************************************************)
EXTENDS SbiDefs, SequencesExt

CONSTANTS RcLists,       \* numbers of harts that the PuC may list
          RcScratch,     \* harts that have a scratch area
          RcTypes,       \* numbers of suspend types that the PuC may offer
          RcPage,        \* list entries in one answer
          RcGroups,      \* service groups the PuC supports
          RcTrees        \* device trees: sequences of [drv, group, id]

VARIABLES rc_nodes, rc_pc, rc_l, mb_ctl, mb_chans, rc_live, rc_hold, rc_hsm,
          rc_states, rc_cppc, rc_devs, rc_ids, rc_ret, rc_ntypes, rc_nharts,
          rc_ranges, rc_seen

rc_vars == <<rc_nodes, rc_pc, rc_l, mb_ctl, mb_chans, rc_live, rc_hold, rc_hsm,
             rc_states, rc_cppc, rc_devs, rc_ids, rc_ret, rc_ntypes, rc_nharts,
                   rc_ranges, rc_seen>>

RcHarts == 0 .. rc_nharts - 1           \* the harts that the PuC lists
NoLocals == [start |-> 0, cnt |-> 0, num |-> 0, fc |-> FALSE, i |-> 0]
CppcNone == [chan |-> FALSE, fc |-> FALSE, addr |-> 0]

RcNode == Head(rc_nodes)

RcInit ==
    /\ rc_nodes \in RcTrees /\ rc_ntypes \in RcTypes /\ rc_nharts \in RcLists
    /\ rc_pc = "request" /\ rc_l = NoLocals
    /\ mb_ctl = FALSE /\ mb_chans = {} /\ rc_live = {} /\ rc_hold = [d \in {} |-> 0]
    /\ rc_hsm = {} /\ rc_states = <<>>
    /\ rc_cppc = [h \in RcScratch |-> CppcNone]
    /\ rc_devs = {} /\ rc_ids = {} /\ rc_ret = SBI_OK
    /\ rc_ranges = {} /\ rc_seen = {}

(* fdt_driver_init_scan(): the early drivers and the MPXY drivers are two  *)
(* scans of the tree; an error other than SBI_ENODEV ends its scan.        *)
ScanOf(node) == IF node.drv \in {"sysmsi", "clock"} THEN "mpxy" ELSE "early"
ScanRest(rc) ==
    IF rc < 0 /\ rc # SBI_ENODEV
    THEN SelectSeq(Tail(rc_nodes), LAMBDA n : ScanOf(n) # ScanOf(RcNode))
    ELSE Tail(rc_nodes)

(* The init function of the first node's driver returns rc. *)
RcReturn(rc) ==
    /\ rc_ret' = rc /\ rc_nodes' = ScanRest(rc)
    /\ rc_pc' = "request" /\ rc_l' = NoLocals
-------------------------------------------------------------------------------
(* rpmi_shmem_mbox_init(): its steps, what each leaves behind and what the *)
(* three exits of the function take back when a later step fails.          *)
MboxMade(step) == (IF step > 1 THEN {<<"mctl", 0>>} ELSE {}) \cup (IF step > 3 THEN {<<"ctl", 0>>} ELSE {})
                     \cup (IF step > 4 THEN {<<"chan", 0>>} ELSE {})

\* Bug: a failed channel leaves the controller allocated.
MboxReleasedLess(step) == CASE step = 1 -> {}
                            [] step \in {2, 3, 4} -> {<<"mctl", 0>>}
                            [] OTHER -> {<<"chan", 0>>, <<"ctl", 0>>, <<"mctl", 0>>}

MboxReleased(step) == CASE step = 1 -> {}
                        [] step \in {2, 3} -> {<<"mctl", 0>>}
                        [] step = 4 -> {<<"ctl", 0>>, <<"mctl", 0>>}
                        [] OTHER -> {<<"chan", 0>>, <<"ctl", 0>>, <<"mctl", 0>>}
MboxLeft(step) == MboxMade(step) \ MboxReleased(step)

(* rpmi_shmem_transport_init(): the ranges of queues and doorbell, which    *)
(* nothing takes back.                                                     *)
MboxRanges(step) == CASE step = 1 -> {{}} [] step = 2 -> {{}, {"mailbox"}} [] OTHER -> {{"mailbox"}}

MboxVersions == 0 .. 2     \* versions the PuC reports; RPMI_BASE_VERSION_MIN is 1
(* fails: the step that fails, 0 for none; 10: the versions or the mode    *)
MboxOutcomes ==
    LET ok(v, s, m) == v >= 1 /\ s >= 1 /\ s = v /\ m
    IN (1 .. 9) \cup {IF ok(v, s, m) THEN 0 ELSE 10 :
                         v \in MboxVersions, s \in MboxVersions, m \in BOOLEAN}

(* fdt_mailbox_request_chan(): the controller is found or initialised, and *)
(* the channel of the group is found in chan_list or made after a probe.   *)
ChanKept == RcNode.drv \in {"susp", "reset"} /\ <<RcNode.drv, 0>> \in DOMAIN rc_hold
ChanKnown(g) == mb_ctl /\ g \in mb_chans
ChanProbe(g, answered) == answered /\ g \in RcGroups

\* Bug: the group found a second time is no longer in the list.
RequestedAgain(g) ==
    /\ rc_pc' = RcNode.drv /\ rc_l' = NoLocals
    /\ mb_ctl' = TRUE
    /\ mb_chans' = (mb_chans \ {g}) \cup {0}
    /\ UNCHANGED <<rc_nodes, rc_ret>>

Requested(g) ==
    /\ rc_pc' = RcNode.drv /\ rc_l' = NoLocals
    /\ mb_ctl' = TRUE
    /\ mb_chans' = mb_chans \cup {0, g}
    /\ UNCHANGED <<rc_nodes, rc_ret>>

RequestChan ==
    /\ rc_pc = "request" /\ rc_nodes # <<>> /\ ~ChanKept
    /\ \/ \E step \in MboxOutcomes \ {0} :      \* the controller does not come up
             /\ ~mb_ctl
             /\ mb_ctl' = (<<"ctl", 0>> \in MboxLeft(step))
             /\ rc_live' = rc_live \cup MboxLeft(step)
             /\ \E added \in MboxRanges(step) : rc_ranges' = rc_ranges \cup added
             /\ RcReturn(SBI_ENODEV)
             /\ UNCHANGED mb_chans
       \/ \E answered \in BOOLEAN :
             /\ rc_ranges' = rc_ranges \cup {"mailbox"}
             /\ rc_live' = rc_live \cup {<<"mctl", 0>>, <<"ctl", 0>>, <<"chan", 0>>}
                              \cup (IF ChanKnown(RcNode.group) \/ ChanProbe(RcNode.group, answered)
                                    THEN {<<"chan", RcNode.group>>} ELSE {})
             /\ IF ChanKnown(RcNode.group) \/ ChanProbe(RcNode.group, answered)
                THEN Requested(RcNode.group)
                ELSE /\ mb_ctl' = TRUE /\ mb_chans' = mb_chans \cup {0}
                     /\ RcReturn(SBI_ENODEV)
    /\ UNCHANGED <<rc_hold, rc_hsm, rc_states, rc_cppc, rc_devs, rc_ids, rc_ntypes, rc_nharts, rc_seen>>

(* rpmi_suspend_init(), rpmi_reset_init(): "If channel already available   *)
(* then do nothing."                                                       *)
InitAgain ==
    /\ rc_pc = "request" /\ rc_nodes # <<>> /\ ChanKept
    /\ RcReturn(SBI_OK)
    /\ UNCHANGED <<mb_ctl, mb_chans, rc_live, rc_hold, rc_hsm, rc_states, rc_cppc, rc_devs, rc_ids, rc_ntypes, rc_nharts,
                   rc_ranges, rc_seen>>

(* rpmi_suspend_init() asks for the attributes and fails with the request, *)
(* rpmi_reset_init() takes a failed request for "no warm reset".           *)
SystemInit ==
    /\ rc_pc \in {"susp", "reset"}
    /\ \E ok \in BOOLEAN :
         /\ rc_hold' = (<<rc_pc, 0>> :> RcNode.group) @@ rc_hold
         /\ IF ok \/ rc_pc = "reset"
            THEN rc_devs' = rc_devs \cup {<<rc_pc, 0>>} /\ RcReturn(SBI_OK)
            ELSE UNCHANGED rc_devs /\ RcReturn(SBI_ETIMEDOUT)
    /\ UNCHANGED <<mb_ctl, mb_chans, rc_live, rc_hsm, rc_states, rc_cppc, rc_ids, rc_ntypes, rc_nharts,
                   rc_ranges, rc_seen>>
-------------------------------------------------------------------------------
(* The PuC's answer to a list request: entries start .., a page of them. *)
PageOf(n, start) == [returned |-> Min({RcPage, n - start}), remaining |-> n - start - Min({RcPage, n - start})]

(* rpmi_hsm_cold_init() up to the suspend states: susp, their number, the  *)
(* array and a name for each.                                              *)
HsmNames(n) == {<<"name", i>> : i \in 0 .. n - 1}

HsmFail(rc) ==
    /\ rc_live' = rc_live \ ({<<"susp", 0>>, <<"states", 0>>} \cup HsmNames(rc_l.num))
    /\ RcReturn(rc)

\* Bug: the names before the failed one stay.
HsmNameFailsKept(i) ==
    /\ rc_live' = rc_live \cup HsmNames(i)
    /\ RcReturn(SBI_ENOMEM) /\ UNCHANGED rc_seen

(* The name of state i cannot be allocated: "do { i--; sbi_free(); } while *)
(* (i > 0)" frees those before it, then the array and susp go.  For i = 0  *)
(* it frees states[-1].name, whatever that is: nothing that sbi_free()     *)
(* knows, or something in use, and then nothing more is said of the boot.  *)
HsmNameFails(i) ==
    \/ RcReturn(SBI_ENOMEM) /\ UNCHANGED <<rc_live, rc_seen>>
    \/ /\ i = 0
       /\ \E wild \in rc_live : rc_live' = rc_live \ {wild}
       /\ rc_seen' = rc_seen \cup {<<"stray", 0>>}
       /\ rc_nodes' = <<>> /\ rc_ret' = SBI_ENOMEM /\ rc_pc' = "request" /\ rc_l' = NoLocals

HsmColdInit ==
    /\ rc_pc = "hsm"
    /\ \/ \E rc \in {SBI_ENOMEM, SBI_ETIMEDOUT} : RcReturn(rc) /\ UNCHANGED <<rc_live, rc_seen>>
       \/ \E i \in 0 .. rc_ntypes - 1 : HsmNameFails(i)
       \/ /\ rc_pc' = IF rc_ntypes = 0 THEN "hsm_harts" ELSE "hsm_types"
          /\ rc_l' = [NoLocals EXCEPT !.num = rc_ntypes]
          /\ rc_live' = rc_live \cup {<<"susp", 0>>} \cup HsmNames(rc_ntypes)
                           \cup (IF rc_ntypes = 0 THEN {} ELSE {<<"states", 0>>})
          /\ UNCHANGED <<rc_nodes, rc_ret, rc_seen>>
    /\ UNCHANGED <<mb_ctl, mb_chans, rc_hold, rc_hsm, rc_states, rc_cppc, rc_devs, rc_ids, rc_ntypes, rc_nharts,
                   rc_ranges>>

\* Bug: every page is the first.
NextStartZero(l, taken) == 0

(* rpmi_hsm_get_suspend_states(): one GET_SUSPEND_TYPES request.  The next *)
(* start index is the number of entries taken from this answer.  Locals i  *)
(* alternates, so that a round that changes nothing else is a step.        *)
NextStart(l, taken) == taken

HsmTypes ==
    /\ rc_pc = "hsm_types"
    /\ \/ HsmFail(SBI_ETIMEDOUT) /\ UNCHANGED rc_states
       \/ LET page == PageOf(rc_l.num, rc_l.start)
              taken == Min({page.returned, rc_l.num - rc_l.cnt})
          IN /\ rc_states' = rc_states \o [k \in 1 .. taken |-> rc_l.start + k]
             /\ rc_l' = [rc_l EXCEPT !.cnt = @ + taken, !.start = NextStart(rc_l, taken),
                                     !.i = IF page.remaining > 0 THEN 1 - @ ELSE 0]
             /\ rc_pc' = IF page.remaining > 0 THEN "hsm_types" ELSE "hsm_info"
             /\ UNCHANGED <<rc_live, rc_nodes, rc_ret>>
    /\ UNCHANGED <<mb_ctl, mb_chans, rc_hold, rc_hsm, rc_cppc, rc_devs, rc_ids, rc_ntypes, rc_nharts,
                   rc_ranges, rc_seen>>

(* GET_SUSPEND_INFO of each state *)
HsmInfo ==
    /\ rc_pc = "hsm_info"
    /\ \/ HsmFail(SBI_ETIMEDOUT)
       \/ /\ rc_l' = [rc_l EXCEPT !.i = @ + 1, !.start = 0]
          /\ rc_pc' = IF rc_l.i + 1 < rc_l.num THEN "hsm_info" ELSE "hsm_harts"
          /\ UNCHANGED <<rc_live, rc_nodes, rc_ret>>
    /\ UNCHANGED <<mb_ctl, mb_chans, rc_hold, rc_hsm, rc_states, rc_cppc, rc_devs, rc_ids, rc_ntypes, rc_nharts,
                   rc_ranges, rc_seen>>

\* Bug: a hart is left out between two pages.
HartStartLast(l, returned) == l.start + returned + 1

(* rpmi_hsm_update_hart_scratch(): one GET_HART_LIST request, then the     *)
(* device tree fixup and the device when it was the last.                  *)
HartStart(l, returned) == l.start + returned

ListedHarts(start, returned) == start .. start + returned - 1

HsmHarts ==
    /\ rc_pc = "hsm_harts"
    /\ LET page == PageOf(rc_nharts, rc_l.start)
           harts == ListedHarts(rc_l.start, page.returned)
       IN \/ HsmFail(SBI_ETIMEDOUT) /\ UNCHANGED <<rc_hsm, rc_devs, rc_hold>>
          \/ /\ harts \ RcScratch # {}
             /\ rc_hsm' = rc_hsm \cup {h \in harts : \A g \in harts \ RcScratch : h < g}
             /\ HsmFail(SBI_ENOSYS) /\ UNCHANGED <<rc_devs, rc_hold>>
          \/ /\ harts \subseteq RcScratch
             /\ rc_hsm' = rc_hsm \cup harts
             /\ IF page.remaining > 0
                THEN /\ rc_l' = [rc_l EXCEPT !.start = HartStart(rc_l, page.returned)]
                     /\ UNCHANGED <<rc_pc, rc_live, rc_nodes, rc_ret, rc_devs, rc_hold>>
                ELSE \/ HsmFail(SBI_ENOSPC) /\ UNCHANGED <<rc_devs, rc_hold>>    \* fdt_register_general_fixup()
                     \/ /\ rc_devs' = rc_devs \cup {<<"hsm", 0>>}
                        /\ rc_hold' = (<<"hsm", 0>> :> RcNode.group) @@ rc_hold
                        /\ RcReturn(SBI_OK) /\ UNCHANGED rc_live
    /\ UNCHANGED <<mb_ctl, mb_chans, rc_states, rc_cppc, rc_ids, rc_ntypes, rc_nharts,
                   rc_ranges, rc_seen>>
-------------------------------------------------------------------------------
(* rpmi_cppc_update_hart_scratch(): the fast channel region (SBI_ENOTSUPP  *)
(* means none) and its memory range in the root domain, ...                *)
CppcRegion ==
    /\ rc_pc = "cppc"
    /\ \/ \E rc \in {SBI_ETIMEDOUT, SBI_ENOSPC} : RcReturn(rc) /\ UNCHANGED rc_ranges
       \/ \E fc \in BOOLEAN :
             /\ rc_l' = [NoLocals EXCEPT !.fc = fc] /\ rc_pc' = "cppc_harts"
             /\ rc_ranges' = IF fc THEN rc_ranges \cup {"fastchan"} ELSE rc_ranges
             /\ UNCHANGED <<rc_nodes, rc_ret>>
    /\ UNCHANGED <<mb_ctl, mb_chans, rc_live, rc_hold, rc_hsm, rc_states, rc_cppc, rc_devs, rc_ids, rc_ntypes, rc_nharts, rc_seen>>

\* Bug: a failed request leaves the hart untouched.
CppcFieldsSkip(old, fc, answered) ==
    IF fc /\ ~answered THEN old ELSE [chan |-> TRUE, fc |-> fc, addr |-> IF fc THEN 1 ELSE 0]

(* ... then the hart list, and for each hart the offset of its fast        *)
(* channel.  A hart whose offset request fails keeps fc_supported and is   *)
(* left without addresses; offs are the harts whose request succeeds.      *)
CppcFields(old, fc, answered) ==
    IF fc /\ ~answered THEN [old EXCEPT !.chan = TRUE, !.fc = TRUE]
    ELSE [chan |-> TRUE, fc |-> fc, addr |-> IF fc THEN 1 ELSE 0]

CppcHarts ==
    /\ rc_pc = "cppc_harts"
    /\ LET page == PageOf(rc_nharts, rc_l.start)
           harts == ListedHarts(rc_l.start, page.returned)
           reached == {h \in harts : \A g \in harts \ RcScratch : h < g}
       IN \/ RcReturn(SBI_ETIMEDOUT) /\ UNCHANGED <<rc_cppc, rc_devs, rc_hold, rc_seen>>
          \/ \E offs \in IF rc_l.fc THEN SUBSET reached ELSE {{}} :
                /\ rc_cppc' = [h \in RcScratch |->
                      IF h \in reached THEN CppcFields(rc_cppc[h], rc_l.fc, h \in offs) ELSE rc_cppc[h]]
                /\ rc_seen' = IF rc_l.fc THEN rc_seen \cup {<<"nooffset", h>> : h \in reached \ offs} ELSE rc_seen
                /\ IF reached # harts
                   THEN RcReturn(SBI_ENOSYS) /\ UNCHANGED <<rc_devs, rc_hold>>
                   ELSE IF page.remaining > 0
                   THEN /\ rc_l' = [rc_l EXCEPT !.start = HartStart(rc_l, page.returned)]
                        /\ UNCHANGED <<rc_pc, rc_nodes, rc_ret, rc_devs, rc_hold>>
                   ELSE /\ rc_devs' = rc_devs \cup {<<"cppc", 0>>}
                        /\ rc_hold' = (<<"cppc", 0>> :> RcNode.group) @@ rc_hold
                        /\ RcReturn(SBI_OK)
    /\ UNCHANGED <<mb_ctl, mb_chans, rc_live, rc_hsm, rc_states, rc_ids, rc_ntypes, rc_nharts, rc_ranges>>
-------------------------------------------------------------------------------
(* mpxy_rpmi_mbox_init(): the group must be the driver's, the attributes   *)
(* readable and the channel id given; mpxy_rpmi_sysmsi_setup() makes the   *)
(* group context; sbi_mpxy_register_channel() refuses an id in use.  The   *)
(* failure exits free the channel, whoever else holds it.                  *)
MpxyGroup(drv) == IF drv = "sysmsi" THEN 2 ELSE 8      \* .servicegrp_id of the driver

FreeChan(g) == mb_chans' = mb_chans \ {g}

MpxyFail(rc) ==
    /\ FreeChan(RcNode.group)
    /\ rc_live' = rc_live \ {<<"chan", RcNode.group>>}
    /\ RcReturn(rc)

MpxyInit ==
    /\ rc_pc \in {"sysmsi", "clock"}
    /\ \/ /\ RcNode.group # MpxyGroup(rc_pc)
          /\ MpxyFail(SBI_EINVAL) /\ UNCHANGED <<rc_devs, rc_hold, rc_ids>>
       \/ /\ RcNode.id = 0                                \* no riscv,sbi-mpxy-channel-id
          /\ RcNode.group = MpxyGroup(rc_pc)
          /\ MpxyFail(SBI_ENODEV) /\ UNCHANGED <<rc_devs, rc_hold, rc_ids>>
       \/ /\ RcNode.id # 0 /\ RcNode.group = MpxyGroup(rc_pc)
          /\ \/ /\ rc_pc = "sysmsi"                       \* setup_group() failed
                /\ MpxyFail(SBI_ETIMEDOUT) /\ UNCHANGED <<rc_devs, rc_hold, rc_ids>>
             \/ /\ RcNode.id \in rc_ids
                /\ MpxyFail(SBI_EALREADY) /\ UNCHANGED <<rc_devs, rc_hold, rc_ids>>
             \/ /\ RcNode.id \notin rc_ids
                /\ rc_ids' = rc_ids \cup {RcNode.id}
                /\ rc_devs' = rc_devs \cup {<<rc_pc, RcNode.id>>}
                /\ rc_hold' = (<<rc_pc, RcNode.id>> :> RcNode.group) @@ rc_hold
                /\ rc_live' = rc_live \cup {<<rc_pc, RcNode.id>>}
                /\ RcReturn(SBI_OK) /\ UNCHANGED mb_chans
    /\ UNCHANGED <<mb_ctl, rc_hsm, rc_states, rc_cppc, rc_ntypes, rc_nharts,
                   rc_ranges, rc_seen>>

RcNext == \/ RequestChan \/ InitAgain \/ SystemInit
          \/ HsmColdInit \/ HsmTypes \/ HsmInfo \/ HsmHarts
          \/ CppcRegion \/ CppcHarts \/ MpxyInit

(* The boot hart runs. *)
RcFair == WF_rc_vars(RcNext)
-------------------------------------------------------------------------------
RcObjects == ({"mctl", "ctl", "susp", "states"} \X {0}) \cup ({"chan"} \X (0 .. 8))
                \cup HsmNames(rc_ntypes) \cup ({"sysmsi", "clock"} \X rc_ids)

(* The drivers' variables have their types; a hart has HSM data only if    *)
(* the PuC listed it.                                                      *)
RcTypeOK ==
    /\ rc_live \subseteq RcObjects
    /\ rc_hsm \subseteq RcHarts \cap RcScratch
    /\ Len(rc_states) <= rc_ntypes /\ rc_l.cnt <= rc_l.num
    /\ DOMAIN rc_cppc = RcScratch

Stray == <<"stray", 0>> \in rc_seen

(* Between two drivers, what is allocated belongs to something registered: *)
(* whatever request failed, the failure exits of rpmi_shmem_mbox_init(),   *)
(* rpmi_hsm_cold_init() and mpxy_rpmi_mbox_init() gave everything back.    *)
(* The exception is the wild pointer of HsmNameFails, and the memory       *)
(* ranges in the root domain stay.                                         *)
RcNoLeak ==
    rc_pc = "request" /\ ~Stray =>
       rc_live = (IF mb_ctl THEN {<<"mctl", 0>>, <<"ctl", 0>>} ELSE {})
                    \cup {<<"chan", g>> : g \in mb_chans}
                    \cup (IF <<"hsm", 0>> \notin rc_devs THEN {}
                          ELSE {<<"susp", 0>>} \cup HsmNames(rc_ntypes)
                                  \cup (IF rc_ntypes = 0 THEN {} ELSE {<<"states", 0>>}))
                    \cup {d \in rc_devs : d[1] \in {"sysmsi", "clock"}}

(* The channel that a registered device sends its requests to exists: no   *)
(* other driver's failure exit has freed it.  The trees give nodes that    *)
(* share a service group different MPXY channel ids; a second node with    *)
(* the id of the first would free the channel of both.                     *)
RcHoldersLive == \A d \in rc_devs : rc_hold[d] \in mb_chans

(* A registered HSM device knows every hart of the PuC's list, however     *)
(* many pages it takes, and every suspend type, once and in order.  (With  *)
(* more than two pages of types none is ever registered, see RcBootEnds.)  *)
RcHsmComplete ==
    <<"hsm", 0>> \in rc_devs => /\ rc_hsm = RcHarts
                               /\ rc_states = [k \in 1 .. rc_ntypes |-> k]

(* A registered CPPC device has for every listed hart the channel and, if  *)
(* there are fast channels, the address that rpmi_cppc_write() stores to,  *)
(* and the root domain keeps S-mode out of it.  The exception is a hart    *)
(* whose offset request failed: rpmi_cppc_update_hart_scratch() continues, *)
(* fc_supported is set and the address is 0.                               *)
RcCppcComplete ==
    <<"cppc", 0>> \in rc_devs =>
       \A h \in RcHarts :
          /\ rc_cppc[h].chan
          /\ rc_cppc[h].fc => /\ "fastchan" \in rc_ranges
                              /\ rc_cppc[h].addr # 0 \/ <<"nooffset", h>> \in rc_seen

(* The boot gets through the drivers, whatever the PuC answers: the        *)
(* page-by-page loops end, that of the suspend types up to two pages.  The *)
(* start index of the third page is wrong, and it is asked for for ever.   *)
RcBootEnds == []<>(rc_nodes = <<>> \/ rc_ntypes > 2 * RcPage)

(* Whatever request of whatever driver failed, the drivers that registered *)
(* are complete and own live channels, and the others left no allocation   *)
(* behind; with the exceptions of RcNoLeak, RcHoldersLive and              *)
(* RcCppcComplete.                                                         *)
RcSound == RcTypeOK /\ RcNoLeak /\ RcHoldersLive /\ RcHsmComplete /\ RcCppcComplete
===============================================================================
