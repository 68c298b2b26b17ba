------------------------------- MODULE Irqchip -------------------------------
(***************************************************************************)
(* The interrupt controllers: the list of lib/sbi/sbi_irqchip.c, the PLIC, *)
(* the IMSIC and the APLIC of lib/utils/irqchip and the drivers that set   *)
(* them up from what fdt_helper.c read.                                    *)
(*                                                                         *)
(* A machine is a sequence of controllers, at most one of a kind:          *)
(*   plic:  wires (a hart or -1, and "m" or "s" or another, per context),  *)
(*          srcs and flags (PLIC_FLAG_*: "pm", "ariane", "thead");         *)
(*   imsic: wires (one file each), regs (files per region), ids, mmode;    *)
(*   aplic: srcs, idcs, mmode, msi (the widths fit), delegs.               *)
(***************************************************************************)
EXTENDS Integers, Sequences, FiniteSets, SequencesExt, SbiDefs

CONSTANTS
  IcHarts,     \* hart indices, 0 .. n-1
  IcMachines,  \* the machines
  IcXlen,      \* identities in one eip or eie register
  IcSends      \* bound: IPIs sent

VARIABLES
  ic_m,        \* the machine
  ic_at,       \* controllers set up; -1 after an error, when the firmware hangs
  ic_list,     \* irqchip_list
  ic_fn,       \* ext_irqfn is imsic_external_irqfn()
  ic_root,     \* the controllers whose registers only M-mode may access, and the shared ones
  ic_ctx,      \* context_map[hart][m and s]
  ic_reg,      \* the PLIC's registers: enables, thresholds, priorities, T-HEAD's delegation
  ic_pm,       \* pm_data and whether the PLIC lost its state
  ic_file,     \* the interrupt file in each hart's scratch space, -1: no data pointer
  ic_csr,      \* each hart's IMSIC: identities enabled and pending, delivery; mie.MEIP
  ic_hart,     \* each hart: off, on or asleep
  ic_src,      \* the APLIC's sourcecfg: -1 none, else the child
  ic_sent,     \* IPIs sent so far
  ic_wanted,   \* ghost: IPIs sent to a hart that sbi_ipi_process() has not seen
  ic_saved     \* ghost: the registers when the PLIC was saved

ic_vars == <<ic_m, ic_at, ic_list, ic_fn, ic_root, ic_ctx, ic_reg, ic_pm, ic_file, ic_csr,
             ic_hart, ic_src, ic_sent, ic_wanted, ic_saved>>

ImsicIpiId == 1
AplicMaxSource == 8
AplicMaxIdc == 4
AplicMaxDelegate == 3
ChildIdxMask == 3
ThreshMax == 7
AllSources == 6

Kinds == {ic_m[i].kind : i \in DOMAIN ic_m}
Chip(kind) == ic_m[CHOOSE i \in DOMAIN ic_m : ic_m[i].kind = kind]
Contexts(p) == 0 .. (Len(p.wires) - 1)

-----------------------------------------------------------------------------
\* irqchip_plic_update_context_map(): what no wire sets stays 0, as sbi_zalloc() left it.
ContextMap(p) ==
  LET Last1(h, mode) == {i \in DOMAIN p.wires : p.wires[i].hart = h /\ p.wires[i].irq = mode}
      At(h, mode) == IF Last1(h, mode) = {} THEN 0
                     ELSE (CHOOSE i \in Last1(h, mode) : \A j \in Last1(h, mode) : j <= i) - 1
  IN  [h \in IcHarts |-> [m |-> At(h, "m"), s |-> At(h, "s")]]

\* plic_cold_irqchip_init() behind irqchip_plic_cold_init(): every hart has contexts, since
\* none is negative.
PlicColdInit(p) ==
  /\ p.kind = "plic"
  /\ ic_ctx' = ContextMap(p)
  /\ ic_pm' = [data |-> << >>, lost |-> FALSE]
  /\ ic_reg' = [ic_reg EXCEPT !.prio = [s \in 1 .. p.srcs |-> 0], !.deleg = "thead" \in p.flags]
  /\ ic_root' = ic_root \cup {<<"plic", "shared">>}
  /\ ic_list' = Append(ic_list, "plic")
  /\ UNCHANGED <<ic_fn, ic_file, ic_src>>

\* plic_context_init()
ContextInit(reg, ctx, enable) == [reg EXCEPT !.ie[ctx] = IF enable THEN AllSources ELSE 0, !.thresh[ctx] = ThreshMax]

\* plic_warm_irqchip_init(): "Ariane has a bug which requires enabling all interrupts".
PlicWarmInit(reg, h) ==
  LET enable == "ariane" \in Chip("plic").flags
  IN  ContextInit(ContextInit(reg, ic_ctx[h].m, enable), ic_ctx[h].s, enable)

HartSeq == [i \in 1 .. Cardinality(IcHarts) |-> i - 1]

\* plic_suspend(): the words of each hart's S context in turn, then the priorities.
PlicSaved(reg) ==
  FlattenSeq([i \in DOMAIN HartSeq |-> <<reg.ie[ic_ctx[HartSeq[i]].s], reg.thresh[ic_ctx[HartSeq[i]].s]>>])
  \o [s \in 1 .. Len(reg.prio) |-> reg.prio[s]]

\* Bug: the thresholds are not put back.
RestoredWordsIe(reg, ctx, words) == [reg EXCEPT !.ie[ctx] = words[1]]

\* plic_resume(), one context.
RestoredWords(reg, ctx, words) == [reg EXCEPT !.ie[ctx] = words[1], !.thresh[ctx] = words[2]]

\* plic_resume(), with plic_delegate()
PlicRestored(reg, data) ==
  LET One(r, i) == RestoredWords(r, ic_ctx[HartSeq[i]].s, SubSeq(data, 2 * i - 1, 2 * i))
      all == FoldLeft(One, reg, [i \in DOMAIN HartSeq |-> i])
  IN  [all EXCEPT !.prio = [s \in 1 .. Len(reg.prio) |-> data[2 * Len(HartSeq) + s]],
                  !.deleg = "thead" \in Chip("plic").flags]

-----------------------------------------------------------------------------
\* Bug: the last identity is not reached.
EixLastShort(base, num) == base + num - 1

\* imsic_local_eix_update(): behind the last identity.
EixLast(base, num) == base + num

\* imsic_local_eix_update(): register by register; val sets, otherwise clears.
RECURSIVE EixUpdate(_, _, _, _)
EixUpdate(ids, id, last, val) ==
  LET bits == id .. (IF last - id < IcXlen - (id % IcXlen) THEN last - 1 ELSE id + IcXlen - (id % IcXlen) - 1)
  IN  IF id >= last THEN ids
      ELSE EixUpdate(IF val THEN ids \cup bits ELSE ids \ bits, id + Cardinality(bits), last, val)

\* Bug: delivery stays off.
ImsicLocalInitOff(csr) == [csr EXCEPT !.eie = EixUpdate(@, ImsicIpiId, EixLast(ImsicIpiId, 1), TRUE)]

\* imsic_local_irqchip_init()
ImsicLocalInit(csr) ==
  [csr EXCEPT !.delivery = TRUE, !.eie = EixUpdate(@, ImsicIpiId, EixLast(ImsicIpiId, 1), TRUE)]

\* imsic_warm_irqchip_init()
ImsicWarmInit(csr, m) ==
  ImsicLocalInit([csr EXCEPT !.eie = EixUpdate(@, 1, EixLast(1, m.ids), FALSE),
                             !.eip = EixUpdate(@, ImsicIpiId, EixLast(ImsicIpiId, 1), FALSE)])

\* Bug: the file is counted among the wires that reach M-mode of a known hart.
FileOfPacked(m, h) ==
  LET known == SelectSeq(m.wires, LAMBDA w : w.hart \in IcHarts)
      at == {i \in DOMAIN known : known[i].hart = h /\ known[i].irq = "m"}
  IN  IF at = {} THEN -1 ELSE (CHOOSE i \in at : \A j \in at : j <= i) - 1

\* irqchip_imsic_update_hartid_table() and imsic_map_hartid_to_data(): the file is the place
\* of the hart's wire; a hart the firmware does not know is passed over.
FileOf(m, h) ==
  LET at == {i \in DOMAIN m.wires : m.wires[i].hart = h /\ m.wires[i].irq = "m"}
  IN  IF at = {} THEN -1 ELSE (CHOOSE i \in at : \A j \in at : j <= i) - 1

\* imsic_cold_irqchip_init() and irqchip_imsic_cold_init(); one for S-mode is left alone.
ImsicColdInit(m) ==
  /\ m.kind = "imsic"
  /\ IF m.mmode
     THEN /\ ic_root' = ic_root \cup {<<"imsic", "m">>}
          /\ ic_list' = Append(ic_list, "imsic")
          /\ ic_fn' = TRUE
          /\ ic_file' = [h \in IcHarts |-> FileOf(m, h)]
     ELSE UNCHANGED <<ic_root, ic_list, ic_fn, ic_file>>
  /\ UNCHANGED <<ic_ctx, ic_pm, ic_reg, ic_src>>

\* imsic_ipi_send(): the region and the file in it; region 0: there is none.
RECURSIVE RegionFrom(_, _, _)
RegionFrom(regs, i, off) ==
  IF i > Len(regs) THEN <<0, 0>>
  ELSE IF regs[i] <= off THEN RegionFrom(regs, i + 1, off - regs[i])
  ELSE <<i, off>>
RegionAt(regs, off) == RegionFrom(regs, 1, off)

\* The machine: the wire whose file that page is.
WireAt(m, page) == FoldLeft(+, 0, SubSeq(m.regs, 1, page[1] - 1)) + page[2] + 1

-----------------------------------------------------------------------------
\* aplic_cold_irqchip_init(): the delegations it accepts, the ends in order.
Accepted(a) ==
  LET d == SubSeq(a.delegs, 1, IF Len(a.delegs) < AplicMaxDelegate THEN Len(a.delegs) ELSE AplicMaxDelegate)
      ok == SelectSeq(d, LAMBDA e : /\ e.first > 0 /\ e.last > 0
                                    /\ e.first <= a.srcs /\ e.last <= a.srcs /\ e.child <= ChildIdxMask)
  IN  [i \in DOMAIN ok |-> IF ok[i].first > ok[i].last
                           THEN [ok[i] EXCEPT !.first = ok[i].last, !.last = ok[i].first] ELSE ok[i]]

\* Bug: the last source of a delegation is left out.
DelegatedShort(src, d) == [s \in DOMAIN src |-> IF d.first <= s /\ s < d.last THEN d.child ELSE src[s]]

\* One delegation written to sourcecfg; a later one overrides.
Delegated(src, d) == [s \in DOMAIN src |-> IF d.first <= s /\ s <= d.last THEN d.child ELSE src[s]]

\* "All interrupts are delegated to some child APLIC"
AllDelegated(a) ==
  LET d == Accepted(a)
      first == {d[i].first : i \in DOMAIN d}
      last == {d[i].last : i \in DOMAIN d}
  IN  1 \in first /\ a.srcs \in last /\ a.srcs > 1

\* aplic_cold_irqchip_init() behind irqchip_aplic_cold_init()
AplicColdInit(a) ==
  /\ a.kind = "aplic"
  /\ a.srcs \in 1 .. (AplicMaxSource - 1) /\ a.idcs < AplicMaxIdc /\ (a.mmode => a.msi)
  /\ ic_src' = FoldLeft(Delegated, [s \in 1 .. a.srcs |-> -1], Accepted(a))
  /\ ic_root' = IF a.mmode \/ AllDelegated(a) THEN ic_root \cup {<<"aplic", "m">>} ELSE ic_root
  /\ ic_list' = Append(ic_list, "aplic")
  /\ UNCHANGED <<ic_fn, ic_file, ic_ctx, ic_pm, ic_reg>>

-----------------------------------------------------------------------------
NoReg(m) ==
  LET p == {m[i] : i \in {i \in DOMAIN m : m[i].kind = "plic"}}
      contexts == UNION {Contexts(q) : q \in p} \cup {0}
  IN  [ie |-> [c \in contexts |-> 1], thresh |-> [c \in contexts |-> 0], prio |-> << >>, deleg |-> FALSE]

IcInit ==
  /\ ic_m \in IcMachines
  /\ ic_at = 0 /\ ic_list = << >> /\ ic_fn = FALSE /\ ic_root = {}
  /\ ic_ctx = [h \in IcHarts |-> [m |-> 0, s |-> 0]]
  /\ ic_reg = NoReg(ic_m)
  /\ ic_pm = [data |-> << >>, lost |-> FALSE]
  /\ ic_file = [h \in IcHarts |-> -1]
  /\ \E eie \in {{}, {2, 5}}, eip \in {{}, {ImsicIpiId}} :
       ic_csr = [h \in IcHarts |-> [eie |-> eie, eip |-> eip, delivery |-> FALSE, meie |-> FALSE]]
  /\ ic_hart = [h \in IcHarts |-> "off"]
  /\ ic_src = << >> /\ ic_sent = 0
  /\ ic_wanted = [h \in IcHarts |-> FALSE]
  /\ ic_saved = << >>

\* fdt_irqchip_init(): the drivers on the controllers in turn.
ColdInit ==
  /\ ic_at \in 0 .. (Len(ic_m) - 1)
  /\ LET c == ic_m[ic_at + 1] IN PlicColdInit(c) \/ ImsicColdInit(c) \/ AplicColdInit(c)
  /\ ic_at' = ic_at + 1
  /\ UNCHANGED <<ic_m, ic_csr, ic_hart, ic_sent, ic_wanted, ic_saved>>

\* An allocation, the root domain or the APLIC's checks refuse.
ColdInitFails ==
  /\ ic_at \in 0 .. (Len(ic_m) - 1)
  /\ ic_at' = -1
  /\ UNCHANGED <<ic_m, ic_list, ic_fn, ic_root, ic_ctx, ic_reg, ic_pm, ic_file, ic_csr,
                 ic_hart, ic_src, ic_sent, ic_wanted, ic_saved>>

Ready == ic_at = Len(ic_m)

\* sbi_irqchip_init() on a hart; it hangs if the IMSIC has no file for it. An IPI that
\* was still pending when the hart stopped is dropped.
IrqchipWarmInit(h) ==
  /\ Ready /\ ic_hart[h] = "off"
  /\ IF "imsic" \in ToSet(ic_list) /\ ic_file[h] = -1
     THEN ic_hart' = [ic_hart EXCEPT ![h] = "hung"] /\ UNCHANGED <<ic_csr, ic_reg>>
     ELSE /\ ic_hart' = [ic_hart EXCEPT ![h] = "on"]
          /\ ic_reg' = IF "plic" \in ToSet(ic_list) THEN PlicWarmInit(ic_reg, h) ELSE ic_reg
          /\ ic_csr' = [ic_csr EXCEPT ![h] =
                          IF "imsic" \in ToSet(ic_list)
                          THEN [ImsicWarmInit(@, Chip("imsic")) EXCEPT !.meie = ic_fn] ELSE @]
  /\ ic_saved' = << >>
  /\ ic_wanted' = [ic_wanted EXCEPT ![h] = FALSE]
  /\ UNCHANGED <<ic_m, ic_at, ic_list, ic_fn, ic_root, ic_ctx, ic_pm, ic_file, ic_src, ic_sent>>

\* sbi_irqchip_exit() as a hart stops.
IrqchipExit(h) ==
  /\ ic_hart[h] = "on"
  /\ ic_hart' = [ic_hart EXCEPT ![h] = "off"]
  /\ ic_csr' = [ic_csr EXCEPT ![h].meie = IF ic_fn THEN FALSE ELSE @]
  /\ UNCHANGED <<ic_m, ic_at, ic_list, ic_fn, ic_root, ic_ctx, ic_reg, ic_pm, ic_file, ic_src, ic_sent, ic_wanted, ic_saved>>

\* imsic_ipi_send() from some other hart: a store to the page of the file.
IpiSend(h) ==
  /\ ic_fn /\ ic_hart[h] \in {"on", "asleep"} /\ ic_sent < IcSends
  /\ LET m == Chip("imsic")
         page == RegionAt(m.regs, ic_file[h])
         owner == IF page[1] = 0 THEN -1 ELSE m.wires[WireAt(m, page)].hart
     IN  ic_csr' = [g \in IcHarts |-> IF g = owner THEN [ic_csr[g] EXCEPT !.eip = @ \cup {ImsicIpiId}] ELSE ic_csr[g]]
  /\ ic_sent' = ic_sent + 1
  /\ ic_wanted' = [ic_wanted EXCEPT ![h] = TRUE]
  /\ UNCHANGED <<ic_m, ic_at, ic_list, ic_fn, ic_root, ic_ctx, ic_reg, ic_pm, ic_file, ic_hart, ic_src, ic_saved>>

\* imsic_external_irqfn(): claims until nothing is left; the IPI is processed.
ExternalIrq(h) ==
  /\ ic_hart[h] = "on" /\ ic_csr[h].meie /\ ic_csr[h].delivery
  /\ ic_csr[h].eip \cap ic_csr[h].eie # {}
  /\ ic_wanted' = [ic_wanted EXCEPT ![h] = IF ImsicIpiId \in ic_csr[h].eip \cap ic_csr[h].eie THEN FALSE ELSE @]
  /\ ic_csr' = [ic_csr EXCEPT ![h].eip = @ \ ic_csr[h].eie]
  /\ UNCHANGED <<ic_m, ic_at, ic_list, ic_fn, ic_root, ic_ctx, ic_reg, ic_pm, ic_file, ic_hart, ic_src, ic_sent, ic_saved>>

\* A non-retentive suspend: what the hart's IMSIC enables is lost, what is pending is not.
Sleep(h) ==
  /\ ic_hart[h] = "on" /\ ic_fn
  /\ ic_hart' = [ic_hart EXCEPT ![h] = "asleep"]
  /\ ic_csr' = [ic_csr EXCEPT ![h].eie = {}, ![h].delivery = FALSE]
  /\ UNCHANGED <<ic_m, ic_at, ic_list, ic_fn, ic_root, ic_ctx, ic_reg, ic_pm, ic_file, ic_src, ic_sent, ic_wanted, ic_saved>>

\* generic_nascent_init() on the resume path; mie is the one saved.
Wake(h) ==
  /\ ic_hart[h] = "asleep"
  /\ ic_hart' = [ic_hart EXCEPT ![h] = "on"]
  /\ ic_csr' = [ic_csr EXCEPT ![h] = ImsicLocalInit(@)]
  /\ UNCHANGED <<ic_m, ic_at, ic_list, ic_fn, ic_root, ic_ctx, ic_reg, ic_pm, ic_file, ic_src, ic_sent, ic_wanted, ic_saved>>

Started == Ready /\ \A h \in IcHarts : ic_hart[h] = "on"
SContexts(p) == {c \in Contexts(p) : p.wires[c + 1].irq = "s" /\ p.wires[c + 1].hart \in IcHarts}

\* The operating system programs one of its contexts.
OsProgramsPlic ==
  /\ Started /\ "plic" \in Kinds /\ ~ic_pm.lost
  /\ \E c \in SContexts(Chip("plic")), s \in 1 .. Chip("plic").srcs :
       ic_reg' = [ic_reg EXCEPT !.ie[c] = 2, !.thresh[c] = 0, !.prio[s] = 1]
  /\ ic_saved' = << >>
  /\ UNCHANGED <<ic_m, ic_at, ic_list, ic_fn, ic_root, ic_ctx, ic_pm, ic_file, ic_csr, ic_hart, ic_src, ic_sent, ic_wanted>>

\* plic_suspend(), and the power goes.
PlicSuspend ==
  /\ Started /\ "plic" \in Kinds /\ "pm" \in Chip("plic").flags /\ ~ic_pm.lost
  /\ ic_pm' = [data |-> PlicSaved(ic_reg), lost |-> TRUE]
  /\ ic_saved' = <<ic_reg>>
  /\ ic_reg' = [ie |-> [c \in DOMAIN ic_reg.ie |-> 0], thresh |-> [c \in DOMAIN ic_reg.ie |-> 0],
                prio |-> [s \in DOMAIN ic_reg.prio |-> 0], deleg |-> FALSE]
  /\ UNCHANGED <<ic_m, ic_at, ic_list, ic_fn, ic_root, ic_ctx, ic_file, ic_csr, ic_hart, ic_src, ic_sent, ic_wanted>>

\* plic_resume()
PlicResume ==
  /\ ic_pm.lost
  /\ ic_reg' = PlicRestored(ic_reg, ic_pm.data)
  /\ ic_pm' = [ic_pm EXCEPT !.lost = FALSE]
  /\ UNCHANGED <<ic_m, ic_at, ic_list, ic_fn, ic_root, ic_ctx, ic_file, ic_csr, ic_hart, ic_src, ic_sent, ic_wanted, ic_saved>>

IcNext ==
  \/ ColdInit \/ ColdInitFails \/ OsProgramsPlic \/ PlicSuspend \/ PlicResume
  \/ \E h \in IcHarts : IrqchipWarmInit(h) \/ IrqchipExit(h) \/ IpiSend(h) \/ ExternalIrq(h) \/ Sleep(h) \/ Wake(h)

\* A pending interrupt is taken when the hart leaves M-mode, which it does between two
\* suspends; a sleeping hart wakes.
IcFair == \A h \in IcHarts : SF_ic_vars(ExternalIrq(h)) /\ WF_ic_vars(Wake(h))

-----------------------------------------------------------------------------
(***************************************************************************)
(* An IPI sent to a hart is pending in that hart's own interrupt file      *)
(* until the hart has processed it or is initialised again after a stop:   *)
(* imsic_ipi_send() finds the page across the regions, and no other        *)
(* initialisation on the way drops it.                                     *)
(***************************************************************************)
IcIpiPending == \A h \in IcHarts : ic_wanted[h] => ImsicIpiId \in ic_csr[h].eip

(***************************************************************************)
(* Every IPI sent to a running or a suspended hart is processed, unless    *)
(* the hart stops before (the type bits of sbi_ipi.c outlive that): what   *)
(* imsic_local_irqchip_init() enables is enough after a suspend that lost  *)
(* the interrupt file's registers.                                         *)
(***************************************************************************)
IcIpiProcessed == \A h \in IcHarts : []<>(~ic_wanted[h] \/ ic_hart[h] = "off")

(***************************************************************************)
(* A hart that has been initialised takes the IPI and nothing else at its  *)
(* IMSIC, whatever a previous stage left enabled there, and takes external *)
(* interrupts only when there is a handler.                                *)
(***************************************************************************)
IcOnlyIpi ==
  \A h \in IcHarts : ic_hart[h] = "on" =>
    /\ "imsic" \in ToSet(ic_list) => ic_csr[h].eie = {ImsicIpiId} /\ ic_csr[h].delivery
    /\ ic_csr[h].meie => ic_fn

(***************************************************************************)
(* A system suspend is invisible at the PLIC: after plic_resume() every    *)
(* supervisor context of a hart has the enables and the threshold it had   *)
(* at plic_suspend(), every source its priority, and S-mode its access.    *)
(***************************************************************************)
IcPlicRestored ==
  (ic_saved # << >> /\ ~ic_pm.lost) =>
    /\ ic_reg.prio = ic_saved[1].prio /\ ic_reg.deleg = ic_saved[1].deleg
    /\ \A c \in SContexts(Chip("plic")) :
         ic_reg.ie[c] = ic_saved[1].ie[c] /\ ic_reg.thresh[c] = ic_saved[1].thresh[c]

(***************************************************************************)
(* The APLIC delegates what the tree delegates: each source goes to the    *)
(* child of the last delegation whose interval, in either order of its     *)
(* ends, holds it; and when every one of several sources is delegated only *)
(* M-mode keeps access to the registers.                                   *)
(***************************************************************************)
IcDelegatedExact ==
  (Ready /\ "aplic" \in Kinds) =>
    LET a == Chip("aplic")
        Holds(e, s) == (e.first <= s /\ s <= e.last) \/ (e.last <= s /\ s <= e.first)
        good == {i \in DOMAIN a.delegs : a.delegs[i].first \in 1 .. a.srcs /\ a.delegs[i].last \in 1 .. a.srcs
                                         /\ a.delegs[i].child <= ChildIdxMask}
        For(s) == {i \in good : Holds(a.delegs[i], s)}
    IN  Len(a.delegs) <= AplicMaxDelegate =>
          /\ \A s \in 1 .. a.srcs :
               ic_src[s] = IF For(s) = {} THEN -1
                           ELSE a.delegs[CHOOSE i \in For(s) : \A j \in For(s) : j <= i].child
          /\ (a.srcs > 1 /\ \A s \in 1 .. a.srcs : For(s) # {}) => <<"aplic", "m">> \in ic_root

(***************************************************************************)
(* The controllers are set up as the tree and S-mode left them, over       *)
(* restarts and suspends: delegations, the enables of the PLIC contexts,   *)
(* the IPI and nothing else at the IMSIC, and no IPI lost there but at the *)
(* restart of a stopped hart.                                              *)
(***************************************************************************)
IcSound == IcIpiPending /\ IcOnlyIpi /\ IcPlicRestored /\ IcDelegatedExact
=============================================================================
