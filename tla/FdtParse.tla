------------------------------ MODULE FdtParse ------------------------------
(***************************************************************************)
(* What the firmware reads from the device tree                            *)
(* (lib/utils/fdt/fdt_helper.c).                                           *)
(*                                                                         *)
(* Numbers are scaled: a 64-bit value has 6 bits in two cells of 3, a page *)
(* is 4 units, an IMSIC has 3 to 15 identities.  A string in a property is *)
(* one word, save "disabled" (3) and "okay" (2).                           *)
(***************************************************************************)
EXTENDS FdtTree, SbiDefs

CONSTANTS
  FpTrees,      \* the trees
  FpHarts,      \* the hart ids that have a scratch space
  FpExtensions  \* the ISA extensions the firmware knows

VARIABLES
  fp_tree,      \* the tree, as what it says
  fp_blob,      \* and as a blob
  fp_out,       \* what the last call returned
  fp_isa,       \* fdt_isa_bitmap_offset has been allocated
  fp_exts       \* the extensions of each hart's scratch space

fp_vars == <<fp_tree, fp_blob, fp_out, fp_isa, fp_exts>>

\* Properties and nodes the code asks for.
reg == 201
ranges == 202
reg_names == 203
status == 204
device_type == 205
interrupts_extended == 206
num_sources == 207
msi_parent == 208
children == 209
delegation == 210
delegate == 211
guest_index_bits == 212
hart_index_bits == 213
group_index_bits == 214
group_index_shift == 215
num_ids == 216
ndev == 217
isa_extensions == 218
riscv_isa == 219
mboxes == 225
mbox_cells == 226
cpus == 660
okay == 71
ok == 72
disabled == 73
cpu == 74
mtime == 75
mtimecmp == 76

IRQ_M_SOFT == 3
IRQ_M_TIMER == 7
IRQ_M_EXT == 11
U64 == CellMod * CellMod
BITS_PER_LONG == 6
IMSIC_MMIO_PAGE_SHIFT == 2
IMSIC_MIN_ID == 3
IMSIC_MAX_ID == 15
IMSIC_MAX_REGS == 3
APLIC_MAX_DELEGATE == 2
FDT_MAX_PHANDLE_ARGS == 3
UNSET == -9999        \* a variable of the caller left as it was

\* Word i of a property, counted on beyond its end as the pointers of the code do.
Cell(f, prop, i) == Word(f, prop + 3 + i)
Joined(f, prop, i, n) == FoldLeft(LAMBDA v, j : (v * CellMod + Cell(f, prop, j)) % U64, 0,
                                  [k \in 1 .. n |-> i + k - 1])

\* The first word of a property, or the default.
FirstWordOr(p, default) == IF p.len > 0 THEN p.data[1] ELSE default
WordOr(f, node, name, default) == FirstWordOr(Getprop(f, node, name), default)

-----------------------------------------------------------------------------
\* fdt_match_node(): the place in the table, 0 if there is none.
MatchNode(f, node, table) ==
  FirstOf({i \in DOMAIN table : CheckCompatible(f, node, table[i]) = 0})

Args(ret, node, args) == [ret |-> ret, node |-> node, args |-> args]

\* Bug: the arguments of the entries before are not skipped.
SkipArgsNot(list, pcells) == Tail(list)

\* fdt_parse_phandle_with_args(): on to the next entry.
SkipArgs(list, pcells) == SubSeq(list, pcells + 2, Len(list))

\* fdt_parse_phandle_with_args(), its loop from an entry on.
RECURSIVE ArgsFrom(_, _, _, _)
EntryArgs(f, list, node, val, cells_prop, index) ==
  IF node < 0 THEN Args(node, UNSET, << >>)
  ELSE IF val.len < 0 THEN Args(SBI_ENOENT, UNSET, << >>)
  ELSE IF FDT_MAX_PHANDLE_ARGS < val.data[1] THEN Args(SBI_EINVAL, UNSET, << >>)
  ELSE IF 1 + val.data[1] > Len(list) THEN Args(SBI_ENOENT, UNSET, << >>)
  ELSE IF index > 0 THEN ArgsFrom(f, SkipArgs(list, val.data[1]), cells_prop, index - 1)
  ELSE Args(0, node, SubSeq(list, 2, val.data[1] + 1))
ArgsOf(f, list, node, cells_prop, index) ==
  EntryArgs(f, list, node, Getprop(f, node, cells_prop), cells_prop, index)
ArgsFrom(f, list, cells_prop, index) ==
  IF list = << >> THEN Args(SBI_ENOENT, UNSET, << >>)
  ELSE ArgsOf(f, list, NodeOffsetByPhandle(f, list[1]), cells_prop, index)

\* fdt_parse_phandle_with_args()
ArgsIn(f, list, cells_prop, index) ==
  IF list.len < 0 THEN Args(SBI_ENOENT, UNSET, << >>) ELSE ArgsFrom(f, list.data, cells_prop, index)
ParsePhandleWithArgs(f, node, prop, cells_prop, index) ==
  ArgsIn(f, Getprop(f, node, prop), cells_prop, index)

\* fdt_translate_address(): the address on the parent's bus, or an error.
ThroughRange(addr, caddr, paddr, rsize) ==
  IF addr < caddr \/ caddr >= (addr + rsize) % U64 THEN SBI_ENODEV
  ELSE (paddr + addr - caddr) % U64
ThroughRanges(f, addr, prop, na, ns) ==
  IF na < 1 \/ ns < 0 THEN SBI_ENODEV
  ELSE IF prop < 0 \/ (prop >= 0 /\ PropLen(f, prop) = 0) THEN addr
  ELSE ThroughRange(addr, Joined(f, prop, 0, na), Joined(f, prop, na, na), Joined(f, prop, 2 * na, ns))
TranslateAddress(f, addr, parent) ==
  ThroughRanges(f, addr, GetProperty(f, parent, ranges), AddressCells(f, parent), SizeCells(f, parent))

\* Bug: only the bus the node is on is translated.
TranslatedOnce(f, addr, out, parent) == TranslateAddress(f, addr, parent)

\* fdt_get_node_addr_size(): from bus to bus up to the root; where a bus does not translate
\* the address, what was reached before it stays.
RECURSIVE Translated(_, _, _, _)
TranslatedUp(f, up, out, parent) ==
  IF up < 0 THEN out ELSE Translated(f, up, up, ParentOffset(f, parent))
Translated(f, addr, out, parent) ==
  IF parent < 0 THEN out ELSE TranslatedUp(f, TranslateAddress(f, addr, parent), out, parent)

Region(ret, addr, size) == [ret |-> ret, addr |-> addr, size |-> size]

\* fdt_get_node_addr_size()
RegionIn(f, parent, prop, na, ns, index) ==
  IF na < 1 \/ ns < 0 \/ prop < 0 THEN Region(SBI_ENODEV, UNSET, UNSET)
  ELSE IF PropLen(f, prop) <= index * (na + ns) THEN Region(SBI_EINVAL, UNSET, UNSET)
  ELSE Region(0, Translated(f, Joined(f, prop, index * (na + ns), na), UNSET, parent),
              Joined(f, prop, index * (na + ns) + na, ns))
RegionBelow(f, node, parent, index) ==
  IF parent < 0 THEN Region(parent, UNSET, UNSET)
  ELSE RegionIn(f, parent, GetProperty(f, node, reg), AddressCells(f, parent), SizeCells(f, parent), index)
GetNodeAddrSize(f, node, index) == RegionBelow(f, node, ParentOffset(f, node), index)

\* fdt_get_node_addr_size_by_name()
PlaceOf(list, name) == FirstOf({i \in DOMAIN list : list[i] = name})
RegionAt(f, node, at) ==
  IF at = 0 THEN Region(SBI_ENODEV, UNSET, UNSET) ELSE GetNodeAddrSize(f, node, at - 1)
GetNodeAddrSizeByName(f, node, name) ==
  RegionAt(f, node, PlaceOf(Getprop(f, node, reg_names).data, name))

\* A region the drivers accept: "rc < 0 || !reg_addr || !reg_size" is refused.
Usable64(r) == r.ret >= 0 /\ r.addr # 0 /\ r.size # 0

-----------------------------------------------------------------------------
\* fdt_node_is_enabled()
SaysEnabled(p) == p.len < 0 \/ (p.len > 0 /\ p.data[1] \in {okay, ok})
NodeIsEnabled(f, node) == SaysEnabled(Getprop(f, node, status))

\* fdt_parse_hart_id(): the id, or an error; a wide one is in the second cell.
HartIdIn(type, val) ==
  IF type.len <= 0 THEN SBI_EINVAL
  ELSE IF type.data[1] # cpu \/ val.len < 1 THEN SBI_EINVAL
  ELSE IF val.len > 1 THEN val.data[2] ELSE val.data[1]
ParseHartId(f, node) == HartIdIn(Getprop(f, node, device_type), Getprop(f, node, reg))

\* The loop over the subnodes of /cpus of several functions: the nodes that pass its tests.
EnabledCpus(f, cpus_offset) ==
  SelectSeq(Subnodes(f, cpus_offset), LAMBDA n : ParseHartId(f, n) >= 0 /\ NodeIsEnabled(f, n))

\* fdt_parse_max_enabled_hart_id()
Greater(a, b) == IF a > b THEN a ELSE b
MaxHartBelow(f, cpus_offset) ==
  IF cpus_offset < 0 THEN cpus_offset
  ELSE FoldLeft(LAMBDA m, n : Greater(ParseHartId(f, n), m), 0, EnabledCpus(f, cpus_offset))
MaxEnabledHartId(f) == MaxHartBelow(f, PathOffset(f, <<cpus>>))

\* The hart an entry of "interrupts-extended" is for: the node above the interrupt
\* controller; -1 if there is none or the firmware does not know it.
KnownHart(hart) == IF hart \in FpHarts THEN hart ELSE -1
HartOfNode(f, node) == IF node < 0 THEN -1 ELSE KnownHart(ParseHartId(f, node))
HartAbove(f, intc) == IF intc < 0 THEN -1 ELSE HartOfNode(f, ParentOffset(f, intc))
HartOfIntc(f, ph) == HartAbove(f, NodeOffsetByPhandle(f, ph))

-----------------------------------------------------------------------------
Isa(ret, exts) == [ret |-> ret, exts |-> exts]

\* fdt_parse_isa_one_hart(): 1 for "rv", the two digits, and the names between the "_".
ParseIsaOneHart(isa) ==
  IF isa[1] # 1 \/ ~(isa[2] = 3 \/ isa[3] = 2 \/ isa[2] = 6 \/ isa[3] = 4) THEN Isa(SBI_EINVAL, {})
  ELSE Isa(0, ToSet(SubSeq(isa, 4, Len(isa))) \cap FpExtensions)

\* fdt_parse_isa_extensions_one_hart()
ParseIsaExtensionsOneHart(list) == {e \in FpExtensions : StringlistContains(list, e)}

\* Bug: the extensions of the last node are kept for every hart.
WithExtensionsAll(exts, hart, found) == [h \in DOMAIN exts |-> exts[h] \cup found]

\* fdt_parse_isa_all_harts(): the bits are set in the scratch space of the node's hart.
WithExtensions(exts, hart, found) == [exts EXCEPT ![hart] = @ \cup found]

\* fdt_parse_isa_all_harts()
IsaOfOld(r, hart, isa, old) ==
  IF isa.len <= 0 THEN Isa(SBI_ENOENT, r.exts)
  ELSE IF old.ret < 0 THEN Isa(old.ret, r.exts)
  ELSE Isa(0, WithExtensions(r.exts, hart, old.exts))
IsaOf(r, hart, list, isa) ==
  IF r.ret < 0 THEN r
  ELSE IF hart \notin FpHarts THEN Isa(SBI_ENOENT, r.exts)
  ELSE IF list.len > 0 THEN Isa(0, WithExtensions(r.exts, hart, ParseIsaExtensionsOneHart(list.data)))
  ELSE IsaOfOld(r, hart, isa, ParseIsaOneHart(isa.data))
ParseIsaBelow(f, exts, cpus_offset) ==
  IF cpus_offset < 0 THEN Isa(cpus_offset, exts)
  ELSE FoldLeft(LAMBDA r, n : IsaOf(r, ParseHartId(f, n), Getprop(f, n, isa_extensions),
                                    Getprop(f, n, riscv_isa)),
                Isa(0, exts), EnabledCpus(f, cpus_offset))
ParseIsaAllHarts(f, exts) == ParseIsaBelow(f, exts, PathOffset(f, <<cpus>>))

-----------------------------------------------------------------------------
\* fdt_parse_uart_node_common() and its callers, which add a clock, a speed and the spacing
\* of the registers, each with a default
UartAt(r) == IF ~Usable64(r) THEN [ret |-> SBI_ENODEV] ELSE [ret |-> 0, addr |-> r.addr]
ParseUartNode(f, node) == UartAt(GetNodeAddrSize(f, node, 0))

\* fdt_parse_plic_node()
PlicAt(f, node, r) ==
  IF ~Usable64(r) THEN [ret |-> SBI_ENODEV]
  ELSE [ret |-> 0, addr |-> r.addr, size |-> r.size, num_src |-> WordOr(f, node, ndev, 0)]
ParsePlicNode(f, node) == PlicAt(f, node, GetNodeAddrSize(f, node, 0))

\* sbi_fls()
Fls(n) == CHOOSE b \in 0 .. n : 2 ^ b <= n /\ n < 2 ^ (b + 1)

\* Bug: a count that is no power of two is rounded down.
HartIndexBitsDown(parents) == Fls(parents)

\* fdt_parse_imsic_node(): bits that tell the parents apart.
HartIndexBits(parents) == IF 2 ^ Fls(parents) < parents THEN Fls(parents) + 1 ELSE Fls(parents)

\* The loops that look for IRQ_M_EXT go by two, one word beyond an odd list.
TargetsMmode(f, prop) ==
  \E i \in 0 .. ((PropLen(f, prop) + 1) \div 2 - 1) : Cell(f, prop, 2 * i + 1) = IRQ_M_EXT

\* The regions up to the first that is missing or empty.
UpToUnusable(all) ==
  SubSeq(all, 1, Smallest({i \in DOMAIN all : ~Usable64(all[i])} \cup {Len(all) + 1}) - 1)
ImsicRegs(f, node) ==
  UpToUnusable([i \in 1 .. (IMSIC_MAX_REGS - 1) |-> GetNodeAddrSize(f, node, i - 1)])

\* fdt_parse_imsic_node()
ImsicAt(f, node, prop, regs, ids) ==
  IF prop < 0 THEN [ret |-> SBI_EINVAL]
  ELSE IF PropLen(f, prop) <= 1 \/ ids = -1 \/ regs = << >> THEN [ret |-> SBI_EINVAL]
  ELSE [ret |-> 0, mmode |-> TargetsMmode(f, prop),
        guest |-> WordOr(f, node, guest_index_bits, 0),
        hart  |-> WordOr(f, node, hart_index_bits, HartIndexBits(PropLen(f, prop) \div 2)),
        group |-> WordOr(f, node, group_index_bits, 0),
        shift |-> WordOr(f, node, group_index_shift, 2 * IMSIC_MMIO_PAGE_SHIFT),
        ids   |-> ids, regs |-> regs]
ParseImsicNode(f, node) ==
  ImsicAt(f, node, GetProperty(f, node, interrupts_extended), ImsicRegs(f, node),
          WordOr(f, node, num_ids, -1))

\* An address without the bits a hart's place in the IMSICs decides.
Masked(addr, m) ==
  LET low   == 2 ^ (m.guest + m.hart + IMSIC_MMIO_PAGE_SHIFT)
      base  == (addr \div low) * low
      group == (base \div 2 ^ m.shift) % 2 ^ m.group
  IN  base - group * 2 ^ m.shift

\* imsic_data_check(), "Match patter of each regset"
RegsMatch(m) ==
  \A i \in DOMAIN m.regs :
    /\ m.regs[i].size % 2 ^ (m.guest + IMSIC_MMIO_PAGE_SHIFT) = 0
    /\ Masked(m.regs[i].addr, m) = Masked(m.regs[1].addr, m)

\* imsic_data_check()
ImsicDataCheck(m) ==
  IF /\ m.ids \in IMSIC_MIN_ID .. IMSIC_MAX_ID
     /\ m.guest <= BITS_PER_LONG - IMSIC_MMIO_PAGE_SHIFT
     /\ m.hart <= BITS_PER_LONG - IMSIC_MMIO_PAGE_SHIFT - m.guest
     /\ m.group <= BITS_PER_LONG - IMSIC_MMIO_PAGE_SHIFT - m.guest - m.hart
     /\ m.shift >= IMSIC_MMIO_PAGE_SHIFT + m.guest + m.hart
     /\ m.group + m.shift - 1 < BITS_PER_LONG
     /\ m.ids % (IMSIC_MIN_ID + 1) = IMSIC_MIN_ID
     /\ RegsMatch(m)
  THEN 0 ELSE SBI_EINVAL

\* Bug: a child that is not found is taken for the first.
ChildAtAny(f, prop, kids, i) ==
  IF PlaceOf(kids, Cell(f, prop, i)) = 0 THEN 1 ELSE PlaceOf(kids, Cell(f, prop, i))

\* fdt_parse_aplic_node(): an entry of the delegations, and the place of its child.
ChildAt(f, prop, kids, i) == PlaceOf(kids, Cell(f, prop, i))
DelegationAt(f, prop, kids, i) ==
  [first |-> Cell(f, prop, i + 1), last |-> Cell(f, prop, i + 2), child |-> ChildAt(f, prop, kids, i) - 1]
EntriesOf(f, prop) == [i \in 1 .. ((PropLen(f, prop) + 2) \div 3) |-> 3 * (i - 1)]
AtMost(n, list) == SubSeq(list, 1, IF Len(list) < n THEN Len(list) ELSE n)

\* fdt_parse_aplic_node(): the delegations whose child is one of the children, in order,
\* as many as there is room for.
KnownChildren(f, prop, kids) == SelectSeq(EntriesOf(f, prop), LAMBDA i : ChildAt(f, prop, kids, i) # 0)
DelegationsAt(f, prop, kids) ==
  IF prop < 0 THEN << >>
  ELSE IF PropLen(f, prop) < 3 \/ kids.len < 1 THEN << >>
  ELSE LET taken == AtMost(APLIC_MAX_DELEGATE, KnownChildren(f, prop, kids.data))
       IN  [k \in DOMAIN taken |-> DelegationAt(f, prop, kids.data, taken[k])]
DelegationProp(f, node, prop) == IF prop >= 0 THEN prop ELSE GetProperty(f, node, delegate)
Delegations(f, node) ==
  DelegationsAt(f, DelegationProp(f, node, GetProperty(f, node, delegation)), Getprop(f, node, children))

\* The MSI configuration an IMSIC gives: negative, or that of one mode.
MsicfgFrom(m, smode) ==
  IF m.ret # 0 THEN [ret |-> m.ret]
  ELSE IF ImsicDataCheck(m) # 0 THEN [ret |-> SBI_EINVAL]
  ELSE IF m.mmode = smode THEN [ret |-> 1, mmode |-> m.mmode]
  ELSE IF m.shift < 2 * IMSIC_MMIO_PAGE_SHIFT THEN [ret |-> SBI_EINVAL]
  ELSE [ret |-> 0, mmode |-> m.mmode, lhxs |-> m.guest, lhxw |-> m.hart, hhxw |-> m.group,
        hhxs |-> m.shift - 2 * IMSIC_MMIO_PAGE_SHIFT, base |-> m.regs[1].addr]
MsicfgOf(f, node, smode) ==
  IF node < 0 THEN [ret |-> node] ELSE MsicfgFrom(ParseImsicNode(f, node), smode)
NoMsicfg == [ret |-> 1, mmode |-> FALSE]
Msicfg(f, ph, smode) == IF ph = -1 THEN NoMsicfg ELSE MsicfgOf(f, NodeOffsetByPhandle(f, ph), smode)

\* fdt_parse_aplic_node(): the configuration of the supervisor mode, from the MSI parent
\* of the first child.
MsiOfKid(f, kid) == IF kid < 0 THEN [ret |-> kid] ELSE Msicfg(f, WordOr(f, kid, msi_parent, -1), TRUE)
MsiOfChild(f, child) == IF child = -1 THEN NoMsicfg ELSE MsiOfKid(f, NodeOffsetByPhandle(f, child))

\* fdt_parse_aplic_node()
AplicFrom(f, node, r, prop, wired, m, s) ==
  IF m.ret < 0 THEN [ret |-> m.ret]
  ELSE IF s.ret < 0 THEN [ret |-> s.ret]
  ELSE [ret |-> 0, addr |-> r.addr, size |-> r.size, num |-> WordOr(f, node, num_sources, 0),
        idcs |-> IF wired THEN PropLen(f, prop) \div 2 ELSE 0,
        mmode |-> IF wired THEN TargetsMmode(f, prop) ELSE m.mmode,
        msi_m |-> m, msi_s |-> s, delegations |-> Delegations(f, node)]
AplicMsi(f, node, r, prop, wired, m) ==
  AplicFrom(f, node, r, prop, wired, m,
            IF m.ret # 0 THEN NoMsicfg ELSE MsiOfChild(f, WordOr(f, node, children, -1)))
AplicWired(f, node, r, prop, wired) ==
  AplicMsi(f, node, r, prop, wired,
           IF wired THEN NoMsicfg ELSE Msicfg(f, WordOr(f, node, msi_parent, -1), FALSE))
AplicAt(f, node, r, prop) ==
  IF ~Usable64(r) THEN [ret |-> SBI_ENODEV]
  ELSE AplicWired(f, node, r, prop, prop >= 0 /\ PropLen(f, prop) > 1)
ParseAplicNode(f, node) ==
  AplicAt(f, node, GetNodeAddrSize(f, node, 0), GetProperty(f, node, interrupts_extended))

\* fdt_check_imsic_mlevel()
CheckImsicMlevel(f, imsics) ==
  \E n \in NodesOf(f) \ {0} :
    /\ CheckCompatible(f, n, imsics) = 0
    /\ \E prop \in {GetProperty(f, n, interrupts_extended)} :
         prop >= 0 /\ PropLen(f, prop) > 1 /\ TargetsMmode(f, prop)

-----------------------------------------------------------------------------
\* The harts whose interrupt of that number is wired to the node, entry by entry.
WiredIn(f, p, hwirq) ==
  IF p.len < 1 THEN << >>
  ELSE SelectSeq([i \in 1 .. (p.len \div 2) |->
                    IF p.data[2 * i] = hwirq THEN HartOfIntc(f, p.data[2 * i - 1]) ELSE -1],
                 LAMBDA h : h # -1)
WiredHarts(f, node, hwirq) == WiredIn(f, Getprop(f, node, interrupts_extended), hwirq)

\* fdt_get_aclint_addr_size_by_name(), fdt_get_aclint_addr_size(): the first or the second
\* region may be missing.
Missing(region) == region.ret < 0 \/ region.size = 0
OrNone(region) == IF Missing(region) THEN Region(0, 0, 0) ELSE region
AclintNamed(time, cmp) ==
  IF Missing(cmp) THEN [ret |-> SBI_ENODEV] ELSE [ret |-> 0, one |-> OrNone(time), two |-> cmp]
AclintByName(f, node) ==
  AclintNamed(GetNodeAddrSizeByName(f, node, mtime), GetNodeAddrSizeByName(f, node, mtimecmp))
AclintIndexed(one, two) ==
  IF Missing(one) THEN [ret |-> SBI_ENODEV] ELSE [ret |-> 0, one |-> one, two |-> OrNone(two)]
AclintByIndex(f, node) == AclintIndexed(GetNodeAddrSize(f, node, 0), GetNodeAddrSize(f, node, 1))

\* Bug: the last hart is not counted.
HartCountShort(harts, first, last) == last - first

\* fdt_parse_aclint_node(): not more than there are from the first to the last.
HartCount(harts, first, last) ==
  IF Len(harts) < last - first + 1 THEN Len(harts) ELSE last - first + 1

\* fdt_parse_aclint_node()
AclintRange(regs, harts, ids) ==
  IF harts = << >> THEN [regs |-> regs, ret |-> 0, first |-> 0, count |-> 0]
  ELSE [regs |-> regs, ret |-> 0, first |-> Smallest(ids),
        count |-> HartCount(harts, Smallest(ids), Largest(ids))]
AclintOf(regs, harts) == IF regs.ret # 0 THEN regs ELSE AclintRange(regs, harts, ToSet(harts))
AclintRegs(f, node, for_timer) ==
  IF for_timer /\ GetProperty(f, node, reg_names) >= 0 THEN AclintByName(f, node)
  ELSE AclintByIndex(f, node)
ParseAclintNode(f, node, for_timer) ==
  AclintOf(AclintRegs(f, node, for_timer),
           WiredHarts(f, node, IF for_timer THEN IRQ_M_TIMER ELSE IRQ_M_SOFT))

\* Bug: every entry counts, whatever its interrupt.
WiredCountAll(p, harts) == p.len \div 2

\* fdt_parse_plmt_node(), fdt_parse_plicsw_node(): the entries of the interrupt; the count is
\* not written where there are none at all.
WiredCount(p, harts) == IF p.len < 1 THEN UNSET ELSE Len(harts)
PlmtAt(r, p, harts) ==
  IF r.ret < 0 THEN [ret |-> SBI_ENODEV] ELSE [ret |-> 0, addr |-> r.addr, count |-> WiredCount(p, harts)]
ParsePlmtNode(f, node, hwirq) ==
  PlmtAt(GetNodeAddrSize(f, node, 0), Getprop(f, node, interrupts_extended), WiredHarts(f, node, hwirq))

-----------------------------------------------------------------------------
FpInit ==
  /\ fp_tree \in FpTrees
  /\ fp_blob = Compiled(fp_tree, 400)
  /\ fp_out = [call |-> "none"]
  /\ fp_isa = FALSE
  /\ fp_exts = [h \in FpHarts |-> {}]

Reads(call, k, result) ==
  /\ fp_out' = [call |-> call, node |-> k, result |-> result]
  /\ UNCHANGED <<fp_tree, fp_blob, fp_isa, fp_exts>>

\* The match tables of the drivers.
Drivers == <<301, 302, 303, 304, 305, 306, 307, 308>>

\* A driver's init reads the node its table matches.
ReadAs(k, f, node, driver) ==
  \/ driver = 1 /\ Reads("uart", k, ParseUartNode(f, node))
  \/ driver = 2 /\ Reads("plic", k, ParsePlicNode(f, node))
  \/ driver = 3 /\ Reads("imsic", k, ParseImsicNode(f, node))
  \/ driver = 4 /\ Reads("aplic", k, ParseAplicNode(f, node))
  \/ driver \in {5, 6} /\ Reads(IF driver = 5 THEN "mtimer" ELSE "mswi", k,
                                 ParseAclintNode(f, node, driver = 5))
  \/ driver \in {7, 8} /\ Reads(IF driver = 7 THEN "plmt" ELSE "plicsw", k,
                                 ParsePlmtNode(f, node, IF driver = 7 THEN IRQ_M_TIMER ELSE IRQ_M_SOFT))
ReadNode(k) ==
  \E node \in {Walk(fp_blob)[k].offset} :
    \E driver \in {MatchNode(fp_blob, node, Drivers)} : ReadAs(k, fp_blob, node, driver)

\* What the platform code asks of the tree as a whole.
ReadTree ==
  \/ Reads("max_hart", 1, [ret |-> 0, max |-> MaxEnabledHartId(fp_blob)])
  \/ Reads("mlevel", 1, [ret |-> 0, mlevel |-> CheckImsicMlevel(fp_blob, 303)])

\* A mailbox client looks for its channel.
ReadArgs(k) ==
  /\ PropAt(fp_tree, k, mboxes) # 0
  /\ \E index \in 0 .. 2 :
       Reads("args", k, [index |-> index,
             args |-> ParsePhandleWithArgs(fp_blob, Walk(fp_blob)[k].offset, mboxes, mbox_cells, index)])

\* fdt_parse_isa_extensions(), called by every hart as it initialises.
ParseIsaExtensions(hart) ==
  \E all \in {IF fp_isa THEN Isa(0, fp_exts) ELSE ParseIsaAllHarts(fp_blob, fp_exts)} :
    /\ fp_isa' = TRUE
    /\ fp_exts' = all.exts
    /\ fp_out' = [call |-> "isa", node |-> hart, result |-> all.ret]
    /\ UNCHANGED <<fp_tree, fp_blob>>

\* sbi_hart_init() failed, and the firmware hangs.
Hung == fp_out.call = "isa" /\ fp_out.result # 0

FpNext ==
  /\ ~Hung
  /\ \/ \E k \in DOMAIN fp_tree : ReadNode(k) \/ ReadArgs(k)
     \/ ReadTree
     \/ \E hart \in FpHarts : ParseIsaExtensions(hart)
-----------------------------------------------------------------------------
Result == fp_out.result
Answered(calls) == fp_out.call \in calls /\ fp_out.result.ret = 0

\* The value of a few cells of a property of the tree.
Value(t, k, name, i, n) ==
  FoldLeft(LAMBDA v, j : v * CellMod + DataOf(t, k, name)[j], 0, [m \in 1 .. n |-> i + m])
CellsAt(t, k, name, default) == IF PropAt(t, k, name) = 0 THEN default ELSE DataOf(t, k, name)[1]

\* The entries of the "ranges" of bus k, as the devicetree specification has them: an address
\* on the bus, one on the bus above (with that bus's cells) and a size; and the one for addr.
RangesAt(t, k) ==
  LET na == CellsAt(t, k, address_cells, 2)
      np == CellsAt(t, ParentOf(t, k), address_cells, 2)
      ns == CellsAt(t, k, size_cells, 1)
  IN  [i \in 1 .. (Len(DataOf(t, k, ranges)) \div (na + np + ns)) |->
         LET at == (i - 1) * (na + np + ns)
         IN  [from |-> Value(t, k, ranges, at, na), to |-> Value(t, k, ranges, at + na, np),
              size |-> Value(t, k, ranges, at + na + np, ns)]]
Covering(t, k, addr) == {r \in ToSet(RangesAt(t, k)) : r.from <= addr /\ addr < r.from + r.size}

\* An address on the bus of node k, seen from the root; -1 if the root cannot reach it.
RECURSIVE FromRoot(_, _, _)
FromRoot(t, k, addr) ==
  IF k = 1 THEN addr
  ELSE IF PropAt(t, k, ranges) = 0 THEN -1
  ELSE IF DataOf(t, k, ranges) = << >> THEN FromRoot(t, ParentOf(t, k), addr)
  ELSE IF Covering(t, k, addr) = {} THEN -1
  ELSE LET r == CHOOSE r \in Covering(t, k, addr) : TRUE IN FromRoot(t, ParentOf(t, k), r.to + addr - r.from)

\* The buses fdt_translate_address() understands: those whose parent has as many address
\* cells, and whose first range is the one that is needed.
RECURSIVE Translatable(_, _, _)
Translatable(t, k, addr) ==
  \/ k = 1
  \/ /\ PropAt(t, k, ranges) # 0
     /\ \/ DataOf(t, k, ranges) = << >> /\ Translatable(t, ParentOf(t, k), addr)
        \/ /\ CellsAt(t, k, address_cells, 2) = CellsAt(t, ParentOf(t, k), address_cells, 2)
           /\ RangesAt(t, k) # << >>
           /\ LET r == RangesAt(t, k)[1]
              IN  r \in Covering(t, k, addr) /\ Translatable(t, ParentOf(t, k), r.to + addr - r.from)

(***************************************************************************)
(* A driver maps its registers where the tree puts them: the address       *)
(* fdt_get_node_addr_size() returns is the node's own one carried through  *)
(* the "ranges" of every bus above it.  Left out are the nodes below a bus *)
(* whose parent has another number of address cells, whose second or later *)
(* range is the one needed, or that has none for the address: the code     *)
(* reads just the first range, with the bus's own cells for both           *)
(* addresses, and goes on with what it got.                                *)
(***************************************************************************)
FpAddressFromRoot ==
  Answered({"uart", "plic", "aplic", "plmt", "plicsw"}) =>
    LET k == fp_out.node
        up == ParentOf(fp_tree, k)
        addr == Value(fp_tree, k, reg, 0, CellsAt(fp_tree, up, address_cells, 2))
    IN  Translatable(fp_tree, up, addr) => Result.addr = FromRoot(fp_tree, up, addr)

\* The harts of the tree whose interrupt is wired to node k.
IntcOf(t, ph) == {j \in DOMAIN t : PropAt(t, j, phandle) # 0 /\ CellsAt(t, j, phandle, 0) = ph}
HartsAt(t, k, hwirq) ==
  LET CpuIntcs == {j \in DOMAIN t : j > 1 /\ PropAt(t, ParentOf(t, j), device_type) # 0}
      w == DataOf(t, k, interrupts_extended)
  IN  IF PropAt(t, k, interrupts_extended) = 0 THEN {}
      ELSE FpHarts \cap {Last(DataOf(t, ParentOf(t, j), reg)) :
             j \in CpuIntcs \cap UNION {IntcOf(t, w[2 * i - 1]) : i \in {i \in 1 .. (Len(w) \div 2) : w[2 * i] = hwirq}}}

(***************************************************************************)
(* A timer or software interrupt device serves the harts that are wired to *)
(* it, no more and no less, when their ids follow one another: the range   *)
(* fdt_parse_aclint_node() returns.  PLMT and PLICSW count them, unless    *)
(* they have no list of interrupts: then the count is left as it was.      *)
(***************************************************************************)
FpHartsServed ==
  Answered({"mtimer", "mswi", "plmt", "plicsw"}) =>
    LET harts == HartsAt(fp_tree, fp_out.node, IF fp_out.call \in {"mtimer", "plmt"} THEN IRQ_M_TIMER ELSE IRQ_M_SOFT)
    IN  IF fp_out.call \in {"plmt", "plicsw"}
        THEN Result.count = IF PropAt(fp_tree, fp_out.node, interrupts_extended) = 0 THEN UNSET ELSE Cardinality(harts)
        ELSE (\E a, b \in FpHarts : harts = {h \in FpHarts : a <= h /\ h <= b} /\ Cardinality(harts) = b - a + 1)
               => harts = Result.first .. (Result.first + Result.count - 1)

(***************************************************************************)
(* Every delegation of an APLIC names a child and the interrupts the tree  *)
(* delegates to that child, and while there is room none is left out.      *)
(***************************************************************************)
FpDelegationsTrue ==
  Answered({"aplic"}) =>
    LET t == fp_tree
        k == fp_out.node
        d == IF PropAt(t, k, delegation) = 0 THEN << >> ELSE DataOf(t, k, delegation)
        kids == IF PropAt(t, k, children) = 0 THEN << >> ELSE DataOf(t, k, children)
        said == {<<d[3 * i - 2], d[3 * i - 1], d[3 * i]>> :
                   i \in {i \in 1 .. (Len(d) \div 3) : d[3 * i - 2] \in ToSet(kids)}}
        read == {<<kids[e.child + 1], e.first, e.last>> : e \in ToSet(Result.delegations)}
    IN  read \subseteq said /\ (Cardinality(said) <= APLIC_MAX_DELEGATE => read = said)

\* The page of interrupt file n of an IMSIC, as imsic_ipi_send() finds it; -1 if there is none.
RECURSIVE FilePage(_, _)
FilePage(regs, off) ==
  IF regs = << >> THEN -1
  ELSE IF regs[1].size <= off THEN FilePage(Tail(regs), off - regs[1].size)
  ELSE regs[1].addr + off
Files(m, n) == FilePage(m.regs, n * 2 ^ (m.guest + IMSIC_MMIO_PAGE_SHIFT))

MsiReaches(c, m, files) ==
  /\ \A n \in files : \E g \in 0 .. (2 ^ c.hhxw - 1), h \in 0 .. (2 ^ c.lhxw - 1) :
       Files(m, n) = c.base + g * 2 ^ (c.hhxs + 2 * IMSIC_MMIO_PAGE_SHIFT) + h * 2 ^ (c.lhxs + IMSIC_MMIO_PAGE_SHIFT)
  /\ \A n, o \in files : n # o => Files(m, n) # Files(m, o)

(***************************************************************************)
(* An APLIC reaches the interrupt file of every hart: with the base, the   *)
(* widths and the shifts fdt_parse_aplic_node() hands it, an MSI can be    *)
(* addressed to each page imsic_ipi_send() would write, and to one only.   *)
(***************************************************************************)
FpMsiReachesHarts ==
  (Answered({"aplic"}) /\ Result.msi_m.ret = 0) =>
    \A node \in {NodeOffsetByPhandle(fp_blob, WordOr(fp_blob, Walk(fp_blob)[fp_out.node].offset, msi_parent, -1))} :
      MsiReaches(Result.msi_m, ParseImsicNode(fp_blob, node),
                 0 .. (PropLen(fp_blob, GetProperty(fp_blob, node, interrupts_extended)) \div 2 - 1))

(***************************************************************************)
(* A hart that gets past fdt_parse_isa_extensions() has exactly the known  *)
(* extensions its own enabled node lists, whichever hart parsed the tree.  *)
(***************************************************************************)
FpIsaExact ==
  (fp_out.call = "isa" /\ fp_out.result = 0) =>
    LET t == fp_tree
        mine == {k \in DOMAIN t : /\ PropAt(t, k, device_type) # 0
                                  /\ Last(DataOf(t, k, reg)) = fp_out.node
                                  /\ CellsAt(t, k, status, okay) \in {okay, ok}}
        Listed(k) == IF PropAt(t, k, isa_extensions) # 0 THEN ToSet(DataOf(t, k, isa_extensions))
                     ELSE ToSet(SubSeq(DataOf(t, k, riscv_isa), 4, Len(DataOf(t, k, riscv_isa))))
    IN  fp_exts[fp_out.node] = FpExtensions \cap UNION {Listed(k) : k \in mine}

\* The entries of a list of phandles with arguments.
RECURSIVE Entries(_, _, _)
Entries(t, w, cells) ==
  IF w = << >> THEN << >>
  ELSE LET n == DataOf(t, CHOOSE j \in IntcOf(t, w[1]) : TRUE, cells)[1]
       IN  <<SubSeq(w, 2, n + 1)>> \o Entries(t, SubSeq(w, n + 2, Len(w)), cells)

(***************************************************************************)
(* fdt_parse_phandle_with_args() returns the arguments of the entry that   *)
(* was asked for, though the entries before it differ in length.           *)
(***************************************************************************)
FpArgsOfEntry ==
  fp_out.call = "args" =>
    LET all == Entries(fp_tree, DataOf(fp_tree, fp_out.node, mboxes), mbox_cells)
        i   == Result.index + 1
    IN  IF i \in DOMAIN all THEN Result.args.ret = 0 /\ Result.args.args = all[i] ELSE Result.args.ret = SBI_ENOENT

\* Each parser of fdt_helper.c returns what the tree says: the address seen from
\* the root, the harts behind an interrupt controller, the delegations, the fields
\* of the MSI addresses, the extensions and the arguments of a list entry; with the
\* exceptions of FpAddressFromRoot and of the count that PLMT and PLICSW leave unset.
FpExact ==
    /\ FpAddressFromRoot /\ FpHartsServed /\ FpDelegationsTrue
    /\ FpMsiReachesHarts /\ FpIsaExact /\ FpArgsOfEntry
=============================================================================
