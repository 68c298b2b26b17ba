------------------------------ MODULE FdtFixup ------------------------------
(***************************************************************************)
(* The device tree the firmware hands to the next stage: the fixups of     *)
(* lib/utils/fdt/fdt_fixup.c, fdt_domain_fixup() of fdt_domain.c and       *)
(* fdt_pmu_fixup() of fdt_pmu.c, in the order of generic_final_init().     *)
(*                                                                         *)
(* Room is counted in words of four bytes as the code asks for it.         *)
(***************************************************************************)
EXTENDS FdtParse

CONSTANTS
  FxTrees,     \* the trees the previous stage may pass
  FxSlacks,    \* words left free in its blob
  FxDomains,   \* the domains the boot hart may be in: [index, name, harts, open, regions]
  FxIdle,      \* the idle states the HSM driver found: a sequence of [name, stop, wakeup]
  FxSscofpmf   \* whether the boot hart has that extension

VARIABLES
  fx_tree,     \* the tree passed, as what it says
  fx_blob,     \* the blob
  fx_dom,      \* the domain of the boot hart
  fx_list,     \* fixup_list
  fx_step      \* how far generic_final_init() is

fx_vars == <<fx_tree, fx_blob, fx_dom, fx_list, fx_step>>

mmu_type == 241
no_map == 242
opensbi_domain == 243
regions_prop == 244
devices_prop == 245
event_map == 246          \* the three "...-to-mhpm..." properties
event_map2 == 247
event_map3 == 248
cpu_idle_states == 249
suspend_param == 250
local_timer_stop == 251
entry_latency == 252
exit_latency == 253
min_residency == 254
wakeup_latency == 255
reserved_memory == 610    \* nodes
chosen == 620
idle_states == 630
aplic == 304
imsics == 303
plic == 302               \* "sifive,plic-1.0.0"
plic0 == 327
pmu == 321
opensbi_config == 322
domain_config == 323
domain_instance == 324
domain_memregion == 325
idle_state == 326
NoIrq == -1               \* 0xffffffff

\* PMP_COUNT is 64 and the room for the reserved memory 1024 bytes, "64 * 16"; both are
\* scaled down by four, a node is not.
PMP_COUNT == 16
RESV_ROOM == 64

Disabled3 == <<disabled, disabled, disabled>>
Grown(f, words) == OpenInto(f, f.total + words)

\* fdt_setprop_string(..., "status", "disabled"), whose error is ignored everywhere.
Disable(f, node) == Setprop(f, node, status, Disabled3).f

-----------------------------------------------------------------------------
\* The properties of one idle state; the errors are ignored.
IdleStateProps(f, node, s, ph) ==
  FoldLeft(LAMBDA g, p : Setprop(g, node, p[1], p[2]).f, f,
           <<<<compatible, <<idle_state>>>>, <<suspend_param, <<1>>>>>>
           \o (IF s.stop THEN <<<<local_timer_stop, << >>>>>> ELSE << >>)
           \o <<<<entry_latency, <<1>>>>, <<exit_latency, <<1>>>>, <<min_residency, <<1>>>>>>
           \o (IF s.wakeup > 0 THEN <<<<wakeup_latency, <<s.wakeup>>>>>> ELSE << >>)
           \o <<<<phandle, <<ph>>>>>>)

\* fdt_add_cpu_idle_states(), its first loop.
RECURSIVE IdleStatesFrom(_, _, _, _)
IdleStateAdded(added, node, states, ph) ==
  Then(added, IdleStatesFrom(IdleStateProps(added.f, added.ret, states[1], ph), node, Tail(states), ph + 1))
IdleStatesFrom(f, node, states, ph) ==
  IF states = << >> THEN Done(f, 0)
  ELSE IdleStateAdded(AddSubnode(f, node, states[1].name), node, states, ph)

\* Bug: the list starts at the phandle behind the states.
IdleListOff(ph, count) == [i \in 1 .. count |-> ph + i]

\* fdt_add_cpu_idle_states(): ph is the one behind the last state's.
IdleList(ph, count) == [i \in 1 .. count |-> ph - count + i - 1]

\* fdt_add_cpu_idle_states(), its second loop.
RECURSIVE IdleLinksFrom(_, _, _)
IdleLinked(linked, node, ph) ==
  Then(linked, IdleLinksFrom(linked.f, NextSubnode(linked.f, node), ph))
IdleLinksFrom(f, node, ph) ==
  IF node < 0 THEN Done(f, 0)
  ELSE IF Getprop(f, node, device_type) # [len |-> 1, data |-> <<cpu>>]
  THEN IdleLinksFrom(f, NextSubnode(f, node), ph)
  ELSE IdleLinked(Setprop(f, node, cpu_idle_states, IdleList(ph, Len(FxIdle))), node, ph)

\* fdt_add_cpu_idle_states(): the states below the new node, then the links of the cpus.
IdleStatesMade(states, at, ph) ==
  IF states.ret < 0 \/ FxIdle = << >> THEN states.f
  ELSE IdleLinksFrom(states.f, FirstSubnode(states.f, at), ph + Len(FxIdle)).f
IdleNodeMade(added, at, ph) ==
  IF added.ret < 0 THEN added.f
  ELSE IdleStatesMade(IdleStatesFrom(added.f, added.ret, FxIdle, ph), at, ph)
IdleBelow(f, at, max) ==
  IF max < 0 \/ at < 0 THEN f
  ELSE IF SubnodeOffset(f, at, idle_states) >= 0 THEN f
  ELSE IdleNodeMade(AddSubnode(f, at, idle_states), at, max + 1)

\* A fixup goes on, or gives the blob up as it was, when it could not be made larger.
IfGrown(open, f, done) == IF open.ret < 0 THEN f ELSE done

\* fdt_add_cpu_idle_states()
IdleIn(open, f) == IfGrown(open, f, IdleBelow(open.f, PathOffset(open.f, <<cpus>>), FindMaxPhandle(open.f)))
AddCpuIdleStates(f) == IdleIn(Grown(f, 256), f)

-----------------------------------------------------------------------------
\* Bug: a hart without an MMU stays.
HiddenHartNoMmu(f, node) == ParseHartId(f, node) \notin fx_dom.harts

\* fdt_cpu_fixup(): not assigned to the current domain, or without an MMU.
HiddenHart(f, node) ==
  ParseHartId(f, node) \notin fx_dom.harts \/ Getprop(f, node, mmu_type).len <= 0

\* fdt_cpu_fixup(), its loop.
RECURSIVE CpuFixupFrom(_, _)
CpuFixed(f, node) ==
  IF ParseHartId(f, node) >= 0 /\ NodeIsEnabled(f, node) /\ HiddenHart(f, node) THEN Disable(f, node) ELSE f
NextCpuFixup(g, node) == CpuFixupFrom(g, NextSubnode(g, node))
CpuFixupFrom(f, node) == IF node < 0 THEN f ELSE NextCpuFixup(CpuFixed(f, node), node)

\* fdt_cpu_fixup()
CpuFixupBelow(f, at) == IF at < 0 THEN f ELSE CpuFixupFrom(f, FirstSubnode(f, at))
CpuFixupIn(open, f) == IfGrown(open, f, CpuFixupBelow(open.f, PathOffset(open.f, <<cpus>>)))
CpuFixup(f) == CpuFixupIn(Grown(f, 8), f)

\* fdt_domain_based_fixup_one()
DisableIn(open, f, node) == IfGrown(open, f, Disable(open.f, node))
FixupRegion(f, node, r) ==
  IF ~Usable64(r) \/ r.addr \in fx_dom.open THEN f ELSE DisableIn(Grown(f, 8), f, node)
DomainBasedFixupOne(f, node) == FixupRegion(f, node, GetNodeAddrSize(f, node, 0))

\* Bug: only the first node is looked at.
FixupNodeOnce(f, node, compat) ==
  IF node < 0 THEN f ELSE DomainBasedFixupOne(f, node)

\* fdt_fixup_node(), its loop from a node on.
RECURSIVE FixupNodeFrom(_, _, _)
FixupNodeBehind(f, node, compat) == FixupNodeFrom(f, NodeOffsetByCompatible(f, node, compat), compat)
FixupNodeFrom(f, node, compat) ==
  IF node < 0 THEN f ELSE FixupNodeBehind(DomainBasedFixupOne(f, node), node, compat)
FixupNode(f, compat) == FixupNodeBehind(f, 0, compat)

\* Bug: the last pair is not looked at.
MaskedPlicShort(words) ==
  [i \in DOMAIN words |-> IF i % 2 = 0 /\ i < Len(words) /\ words[i] = IRQ_M_EXT THEN NoIrq ELSE words[i]]

\* fdt_plic_fixup(): each pair's interrupt.
MaskedPlic(words) ==
  [i \in DOMAIN words |-> IF i % 2 = 0 /\ words[i] = IRQ_M_EXT THEN NoIrq ELSE words[i]]

\* fdt_plic_fixup()
MaskList(f, at, list) ==
  IF list.len <= 0 THEN f ELSE SetpropInplace(f, at, interrupts_extended, MaskedPlic(list.data)).f
PlicFixupAt(f, at) == IF at < 0 THEN f ELSE MaskList(f, at, Getprop(f, at, interrupts_extended))
PlicOr(f, at) == IF at < 0 THEN NodeOffsetByCompatible(f, 0, plic0) ELSE at
PlicFixup(f) == PlicFixupAt(f, PlicOr(f, NodeOffsetByCompatible(f, 0, plic)))

-----------------------------------------------------------------------------
ResvName(index, addr) == 7000 + 100 * index + addr

\* fdt_resv_memory_update_node(), whose error its caller ignores.
ResvWords(na, ns, addr, size) ==
  SubSeq((IF na > 1 THEN <<addr \div CellMod>> ELSE << >>) \o <<addr % CellMod>>
         \o (IF ns > 1 THEN <<size \div CellMod>> ELSE << >>) \o <<size % CellMod>>, 1, na + ns)
SetReg(r, node, words) == Then(r, Setprop(r.f, node, reg, words))
SetNoMap(added, words) == Then(added, SetReg(Setprop(added.f, added.ret, no_map, << >>), added.ret, words))
ResvMemoryUpdateNode(f, addr, size, index, parent) ==
  SetNoMap(AddSubnode(f, parent, ResvName(index, addr)),
           ResvWords(AddressCells(f, 0), SizeCells(f, 0), addr, size)).f

\* Bug: of two regions with one base the first is kept.
FilteredFirst(filtered, r) ==
  IF \E j \in DOMAIN filtered : filtered[j].base = r.base THEN filtered ELSE Append(filtered, r)

\* fdt_reserved_memory_fixup(): a larger region with the base of one found takes its place.
Filtered(filtered, r) ==
  LET j == FirstOf({j \in DOMAIN filtered : filtered[j].base = r.base /\ filtered[j].order < r.order})
  IN  IF j > 0 THEN [filtered EXCEPT ![j].order = r.order] ELSE Append(filtered, r)

\* The parent of the new nodes, made if there is none.
SetAll(f, node, props) ==
  FoldLeft(LAMBDA r, p : Then(r, Setprop(r.f, node, p[1], p[2])), Done(f, 0), props)
ResultOr(r, ret) == IF r.ret < 0 THEN r ELSE Done(r.f, ret)
ReservedMemoryMade(added, na, ns) ==
  Then(added, ResultOr(SetAll(added.f, added.ret,
                              <<<<ranges, << >>>>, <<size_cells, <<ns>>>>, <<address_cells, <<na>>>>>>),
                       added.ret))
ReservedMemoryAt(f, there) ==
  IF there >= 0 THEN Done(f, there)
  ELSE ReservedMemoryMade(AddSubnode(f, 0, reserved_memory), AddressCells(f, 0), SizeCells(f, 0))
ReservedMemoryNode(f) == ReservedMemoryAt(f, PathOffset(f, <<reserved_memory>>))

\* fdt_reserved_memory_fixup(): the nodes, unless there are more regions than PMP entries.
TooMany(hidden) ==
  \E k \in 0 .. (Len(hidden) - 1) : Len(FoldLeft(Filtered, << >>, SubSeq(hidden, 1, k))) >= PMP_COUNT
ReservedNodes(f, parent, all) ==
  FoldLeft(LAMBDA g, j : ResvMemoryUpdateNode(g, all[j].base, 2 ^ all[j].order, j - 1, parent),
           f, [j \in DOMAIN all |-> j])
ReserveBelow(parent, hidden) ==
  IF parent.ret < 0 \/ TooMany(hidden) THEN parent.f
  ELSE ReservedNodes(parent.f, parent.ret, FoldLeft(Filtered, << >>, hidden))
ReservedMemoryIn(open, f) ==
  IfGrown(open, f, ReserveBelow(ReservedMemoryNode(open.f),
                                SelectSeq(fx_dom.regions, LAMBDA r : ~r.mmio /\ ~r.su)))
ReservedMemoryFixup(f) == ReservedMemoryIn(Grown(f, RESV_ROOM), f)

\* fdt_pmu_fixup()
PmuFixupAt(f, at) ==
  IF at < 0 THEN f
  ELSE FoldLeft(LAMBDA g, name : Delprop(g, at, name).f, f,
                <<event_map, event_map2, event_map3>>
                \o (IF FxSscofpmf THEN << >> ELSE <<interrupts_extended>>))
PmuFixup(f) == PmuFixupAt(f, NodeOffsetByCompatible(f, -1, pmu))

\* Bug: the whole of /chosen goes with the configuration.
NopChosen(f, c, at) == IF c < 0 \/ at < 0 THEN f ELSE NopNode(f, c).f

\* A node with that compatible, behind /chosen, blanked: fdt_config_fixup() and the end of
\* fdt_domain_fixup().
NopConfig(f, c, at) == IF c < 0 \/ at < 0 THEN f ELSE NopNode(f, at).f
NopBehind(f, c, compat) == NopConfig(f, c, IF c < 0 THEN c ELSE NodeOffsetByCompatible(f, c, compat))
NopBehindChosen(f, compat) == NopBehind(f, PathOffset(f, <<chosen>>), compat)

\* fdt_fixups(); the one general fixup of the code adds the idle states (fdt_hsm_rpmi.c).
FdtFixups(f) ==
  FoldLeft(LAMBDA g, fixup : AddCpuIdleStates(g),
           NopBehindChosen(PmuFixup(ReservedMemoryFixup(PlicFixup(
             FoldLeft(FixupNode, f, <<aplic, imsics>>)))), opensbi_config),
           fx_list)

-----------------------------------------------------------------------------
\* fdt_domain_fixup(), its first loop.
RECURSIVE DomainsForgotten(_, _)
DomainForgotten(f, node) ==
  IF ParseHartId(f, node) >= 0 /\ NodeIsEnabled(f, node) THEN NopProperty(f, node, opensbi_domain).f ELSE f
DomainsForgottenBehind(g, node) == DomainsForgotten(g, NextSubnode(g, node))
DomainsForgotten(f, node) ==
  IF node < 0 THEN f ELSE DomainsForgottenBehind(DomainForgotten(f, node), node)

\* strncmp() with the length of the domain's name: two more digits are a longer name.
StartsWith(name, dom) == name = dom \/ name \div 100 = dom

\* fdt_iterate_each_domain() and __fixup_find_domain_offset(): the last one found.
LastOr(found, default) == IF found = << >> THEN default ELSE Last(found)
FindDomainBelow(f, at) ==
  IF at < 0 THEN -1
  ELSE LastOr(SelectSeq(Subnodes(f, at), LAMBDA n : CheckCompatible(f, n, domain_instance) = 0
                                                    /\ StartsWith(GetName(f, n), fx_dom.name)), -1)
FindDomainBehind(f, c) == IF c < 0 THEN -1 ELSE FindDomainBelow(f, NodeOffsetByCompatible(f, c, domain_config))
FindDomainOffset(f) == FindDomainBehind(f, PathOffset(f, <<chosen>>))

\* Bug: the MMIO flag counts as an access.
AccessibleMmio(access) == access # 0

\* DISABLE_DEVICES_MASK
Accessible(access) == access % 64 # 0

\* __fixup_disable_devices(): devices points into the blob, whose words move as nodes
\* before it get a status.
RECURSIVE DisableDevicesFrom(_, _, _, _)
DisableDevice(f, at, devices, i, len) ==
  IF at < 0 THEN Done(f, at) ELSE DisableDevicesFrom(Disable(f, at), devices, i + 1, len)
DisableDevicesFrom(f, devices, i, len) ==
  IF i = len THEN Done(f, 0)
  ELSE DisableDevice(f, NodeOffsetByPhandle(f, Cell(f, devices, i)), devices, i, len)

\* fdt_iterate_each_memregion() with __fixup_disable_devices(): so does regions.
DisableRegion(f, access, devices) ==
  IF Accessible(access) \/ devices < 0 THEN Done(f, 0)
  ELSE DisableDevicesFrom(f, devices, 0, PropLen(f, devices))
RECURSIVE DisableRegionsFrom(_, _, _, _)
DisabledRegion(done, regions, i, rcount) ==
  IF done.ret # 0 THEN done.f ELSE DisableRegionsFrom(done.f, regions, i + 1, rcount)
DisableRegionAt(f, at, regions, i, rcount) ==
  IF at < 0 THEN f
  ELSE IF CheckCompatible(f, at, domain_memregion) # 0 THEN f
  ELSE DisabledRegion(DisableRegion(f, Cell(f, regions, 2 * i + 1), GetProperty(f, at, devices_prop)),
                      regions, i, rcount)
DisableRegionsFrom(f, regions, i, rcount) ==
  IF i = rcount THEN f
  ELSE DisableRegionAt(f, NodeOffsetByPhandle(f, Cell(f, regions, 2 * i)), regions, i, rcount)

\* fdt_iterate_each_memregion() with __fixup_count_disable_devices()
AtLeastZero(n) == IF n < 0 THEN 0 ELSE n
CountDevices(f, at, access) ==
  IF Accessible(access) THEN 0 ELSE AtLeastZero(Getprop(f, at, devices_prop).len)
RECURSIVE CountFrom(_, _, _, _)
CountAt(f, at, regions, i, rcount) ==
  IF at < 0 THEN 0
  ELSE IF CheckCompatible(f, at, domain_memregion) # 0 THEN 0
  ELSE CountDevices(f, at, Cell(f, regions, 2 * i + 1)) + CountFrom(f, regions, i + 1, rcount)
CountFrom(f, regions, i, rcount) ==
  IF i = rcount THEN 0
  ELSE CountAt(f, NodeOffsetByPhandle(f, Cell(f, regions, 2 * i)), regions, i, rcount)

\* fdt_domain_fixup(): "Expand FDT based on device DT nodes to be disabled"
DomainRoom(dcount) == 8 * dcount

\* fdt_domain_fixup(), from "Find current domain DT node" to skip_device_disable; the
\* tree has been opened before, and opening it with more room cannot fail.
DisableInGrown(f, rcount) ==
  DisableRegionsFrom(f, GetProperty(f, FindDomainOffset(f), regions_prop), 0, rcount)
DisableCounted(f, rcount, dcount) ==
  IF dcount = 0 THEN f ELSE DisableInGrown(Grown(f, DomainRoom(dcount)).f, rcount)
DisableListed(f, regions, rcount) == DisableCounted(f, rcount, CountFrom(f, regions, 0, rcount))
DisableOf(f, regions) ==
  IF regions < 0 THEN f ELSE DisableListed(f, regions, PropLen(f, regions) \div 2)
DisableForDomain(f, dom) == IF dom < 0 THEN f ELSE DisableOf(f, GetProperty(f, dom, regions_prop))
DisableDevices(f) == IF fx_dom.index = 0 THEN f ELSE DisableForDomain(f, FindDomainOffset(f))

\* fdt_domain_fixup()
DomainFixupBelow(f, at) ==
  IF at < 0 THEN f
  ELSE NopBehindChosen(DisableDevices(DomainsForgotten(f, FirstSubnode(f, at))), domain_config)
DomainFixup(f) == DomainFixupBelow(f, PathOffset(f, <<cpus>>))

-----------------------------------------------------------------------------
FxInit ==
  /\ fx_tree \in FxTrees
  /\ \E slack \in FxSlacks :
       fx_blob = LET f == Compiled(fx_tree, 0) IN [f EXCEPT !.total = DataSize(f) + slack]
  /\ fx_dom \in FxDomains
  /\ fx_list = << >>
  /\ fx_step = "boot"

\* fdt_register_general_fixup(): not twice.
RegisterGeneralFixup ==
  /\ fx_step = "boot"
  /\ fx_list' = IF "rpmi_hsm" \in ToSet(fx_list) THEN fx_list ELSE Append(fx_list, "rpmi_hsm")
  /\ UNCHANGED <<fx_tree, fx_blob, fx_dom, fx_step>>

\* fdt_unregister_general_fixup()
UnregisterGeneralFixup ==
  /\ fx_step = "boot" /\ fx_list # << >>
  /\ fx_list' = << >>
  /\ UNCHANGED <<fx_tree, fx_blob, fx_dom, fx_step>>

Step(from, to, blob) ==
  /\ fx_step = from /\ fx_step' = to
  /\ fx_blob' = blob
  /\ UNCHANGED <<fx_tree, fx_dom, fx_list>>

\* generic_final_init(), the three calls that edit the tree.
FinalInit ==
  \/ Step("boot", "cpus", CpuFixup(fx_blob))
  \/ Step("cpus", "fixups", FdtFixups(fx_blob))
  \/ Step("fixups", "done", DomainFixup(fx_blob))

FxNext == RegisterGeneralFixup \/ UnregisterGeneralFixup \/ FinalInit

-----------------------------------------------------------------------------
NodeAt(k) == PathOffset(fx_blob, PathOf(fx_tree, k))
HasCompatible(t, k, c) == PropAt(t, k, compatible) # 0 /\ CellsAt(t, k, compatible, 0) = c
WasEnabled(t, k) == CellsAt(t, k, status, okay) \in {okay, ok}
IsEnabled(k) == NodeIsEnabled(fx_blob, NodeAt(k))
Room(f) == f.total - DataSize(f)

\* The cpu nodes that are not for the next stage.
HartToHide(k) ==
  /\ PropAt(fx_tree, k, device_type) # 0 /\ WasEnabled(fx_tree, k)
  /\ Last(DataOf(fx_tree, k, reg)) \notin fx_dom.harts \/ PropAt(fx_tree, k, mmu_type) = 0

(***************************************************************************)
(* The next stage is not told of a hart it may not use: fdt_cpu_fixup()    *)
(* disables the node of every hart that is outside the domain or has no    *)
(* MMU, and no other, though each edit moves the nodes it goes on to.  The *)
(* 32 bytes it adds for all of them hold one new "status": a hart behind   *)
(* the first stays enabled if the blob has less than 7 words left.         *)
(***************************************************************************)
FxHartsHidden ==
  fx_step = "cpus" =>
    \A k \in DOMAIN fx_tree : PropAt(fx_tree, k, device_type) # 0 =>
      IF HartToHide(k)
      THEN \/ ~IsEnabled(k)
           \/ Room(fx_blob) < 7 /\ \E j \in 1 .. (k - 1) : HartToHide(j)
      ELSE IsEnabled(k) = WasEnabled(fx_tree, k)

(***************************************************************************)
(* Every interrupt controller page the domain may not access is disabled   *)
(* and no other: fdt_fixup_node() goes on from a node it has just edited.  *)
(***************************************************************************)
FxControllersHidden ==
  fx_step = "fixups" =>
    \A k \in DOMAIN fx_tree : (HasCompatible(fx_tree, k, aplic) \/ HasCompatible(fx_tree, k, imsics)) =>
      LET up   == ParentOf(fx_tree, k)
          addr == FromRoot(fx_tree, up, Value(fx_tree, k, reg, 0, CellsAt(fx_tree, up, address_cells, 2)))
      IN  IsEnabled(k) <=> (WasEnabled(fx_tree, k) /\ addr \in fx_dom.open)

PlicIn(t) ==
  LET sifive == {k \in DOMAIN t : HasCompatible(t, k, plic)}
      riscv  == {k \in DOMAIN t : HasCompatible(t, k, plic0)}
  IN  IF sifive # {} THEN {FirstOf(sifive)} ELSE {FirstOf(riscv)} \ {0}

(***************************************************************************)
(* The next stage finds no M-mode context in the PLIC's list, and the      *)
(* contexts it may use where they were: the PLIC is the first with the     *)
(* name "sifive,plic-1.0.0", or the first with "riscv,plic0" if there is   *)
(* none.                                                                   *)
(***************************************************************************)
FxPlicContextsKept ==
  fx_step \in {"fixups", "done"} =>
    \A k \in PlicIn(fx_tree) :
      LET old == DataOf(fx_tree, k, interrupts_extended)
          new == Getprop(fx_blob, NodeAt(k), interrupts_extended).data
      IN  /\ Len(new) = Len(old)
          /\ \A i \in 1 .. (Len(old) \div 2) :
               /\ new[2 * i] # IRQ_M_EXT
               /\ old[2 * i] # IRQ_M_EXT => new[2 * i] = old[2 * i] /\ new[2 * i - 1] = old[2 * i - 1]

\* What a reserved-memory node says.
ResvBytes(f, n) ==
  LET na == AddressCells(f, 0)
      p  == GetProperty(f, n, reg)
      a  == Joined(f, p, 0, na)
  IN  IF p < 0 THEN {} ELSE a .. (a + Joined(f, p, na, SizeCells(f, 0)) - 1)

\* How many nodes the room holds beside the parent: the tokens and the name of a node, an
\* empty property, one of the cells, and the names of three, then two, properties.
ResvFit(f) == (RESV_ROOM - (3 + 3 + 4 + 4 + 3) - 2) \div (8 + 3 + 3 + AddressCells(f, 0) + SizeCells(f, 0))
RegionBytes(r) == r.base .. (r.base + 2 ^ r.order - 1)

(***************************************************************************)
(* The memory the domain cannot access is what the tree says is reserved,  *)
(* byte for byte, each node marked "no-map", though regions may share      *)
(* their base and the parent node may be there already.  A node takes 72   *)
(* bytes, not the 64 of the comment in fdt_reserved_memory_fixup(): of     *)
(* more regions than RESV_ROOM holds (ResvFit), the ones behind them are   *)
(* reserved only if the blob has room, and of more than PMP_COUNT none is. *)
(***************************************************************************)
FxReservedExact ==
  fx_step \in {"fixups", "done"} =>
    LET f        == fx_blob
        kids     == {n \in ToSet(Subnodes(f, PathOffset(f, <<reserved_memory>>))) : GetName(f, n) >= 7000}
        reserved == UNION {ResvBytes(f, n) : n \in kids}
        hidden   == SelectSeq(fx_dom.regions, LAMBDA r : ~r.mmio /\ ~r.su)
    IN  /\ reserved \subseteq UNION {RegionBytes(hidden[i]) : i \in DOMAIN hidden}
        /\ Len(hidden) <= PMP_COUNT =>
             \A i \in DOMAIN hidden : i <= ResvFit(f) => RegionBytes(hidden[i]) \subseteq reserved
        /\ \A n \in kids : GetProperty(f, n, reg) >= 0 => GetProperty(f, n, no_map) >= 0

(***************************************************************************)
(* Every cpu is linked to the idle states in their order by phandles that  *)
(* no other node of the tree has.                                          *)
(***************************************************************************)
FxIdleLinked ==
  (fx_step \in {"fixups", "done"} /\ fx_list # << >> /\ FxIdle # << >>) =>
    LET f  == fx_blob
        at == SubnodeOffset(f, PathOffset(f, <<cpus>>), idle_states)
        Named(i) == SubnodeOffset(f, at, FxIdle[i].name)
    IN  /\ \A n \in ToSet(Subnodes(f, PathOffset(f, <<cpus>>))) \ {at} :
             LET links == Getprop(f, n, cpu_idle_states).data
             IN  Len(links) = Len(FxIdle)
                 /\ \A i \in DOMAIN links : NodeOffsetByPhandle(f, links[i]) = Named(i)
        /\ \A m, n \in NodesOf(f) : (m # n /\ GetPhandle(f, m) # 0) => GetPhandle(f, m) # GetPhandle(f, n)

\* The regions of the domain's node the domain cannot access, and their devices.
ByPhandle(t, ph) == CHOOSE j \in IntcOf(t, ph) : TRUE
ClosedRegions(t, k) ==
  LET w == DataOf(t, k, regions_prop)
  IN  {ByPhandle(t, w[2 * i - 1]) : i \in {i \in 1 .. (Len(w) \div 2) : w[2 * i] % 64 = 0}}
DevicesOf(t, k) ==
  UNION {IF PropAt(t, r, devices_prop) = 0 THEN {} ELSE {ByPhandle(t, ph) : ph \in ToSet(DataOf(t, r, devices_prop))} :
           r \in ClosedRegions(t, k)}

(***************************************************************************)
(* The devices in the regions a domain cannot access are disabled for it,  *)
(* while they stand behind the domain's configuration in the tree: what    *)
(* __fixup_disable_devices() edits moves everything behind it, and the     *)
(* lists it reads are pointers into the tree.                              *)
(***************************************************************************)
FxDevicesHidden ==
  (fx_step = "done" /\ fx_dom.index > 0) =>
    \A k \in DOMAIN fx_tree :
      (HasCompatible(fx_tree, k, domain_instance) /\ fx_tree[k].name = fx_dom.name) =>
        ((\A d \in DevicesOf(fx_tree, k) : d > k /\ \A r \in ClosedRegions(fx_tree, k) : d > r)
           => \A d \in DevicesOf(fx_tree, k) : ~IsEnabled(d))

\* What the fixups may change.
Touched == {status, interrupts_extended, opensbi_domain, cpu_idle_states, event_map, event_map2, event_map3}
Config(t) == UNION {k .. (EndOfSubtree(t, k) - 1) :
                    k \in {j \in DOMAIN t : HasCompatible(t, j, opensbi_config) \/ HasCompatible(t, j, domain_config)}}

(***************************************************************************)
(* Everything else of the tree comes through all the edits as it was: each *)
(* node is found by its path with its other properties in their order, the *)
(* firmware's own configuration is gone, and the blob passes the library's *)
(* full check.                                                             *)
(***************************************************************************)
FxOthersKept ==
  fx_step = "done" =>
    /\ CheckFull(fx_blob, fx_blob.total) = 0
    /\ \A k \in DOMAIN fx_tree :
         IF k \in Config(fx_tree) THEN NodeAt(k) < 0
         ELSE /\ NodeAt(k) >= 0
              /\ \A i \in DOMAIN fx_tree[k].props :
                   LET p == fx_tree[k].props[i]
                   IN  p.name \notin Touched => Getprop(fx_blob, NodeAt(k), p.name).data = p.data

\* The tree given to the next stage is the boot tree with exactly the changes the
\* firmware means: harts, controllers and devices that are not for it hidden, the
\* firmware's memory reserved, the idle states linked, all else as it was.  What has no
\* room in the blob, and devices in front of the configuration, are excepted above.
FxExact ==
    /\ FxHartsHidden /\ FxControllersHidden /\ FxDevicesHidden /\ FxPlicContextsKept
    /\ FxReservedExact /\ FxIdleLinked /\ FxOthersKept
=============================================================================
