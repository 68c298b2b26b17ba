------------------------------- MODULE Domain -------------------------------
(***************************************************************************)
(* Domains and their memory regions (sbi_domain.c, fdt_domain.c): the cold *)
(* boot builds the root domain, drivers add the ranges of their devices to *)
(* it, the device tree's domains are registered, harts move to them, and   *)
(* the boot hart of every domain is started.                               *)
(*                                                                         *)
(* An address has W bits (__riscv_xlen), and sums of addresses wrap. A     *)
(* region is a record [base, order, flags]; flags are [m, su, mmio, enf]   *)
(* with m and su sets of "r", "w", "x".                                    *)
(***************************************************************************)
EXTENDS SbiDefs, SequencesExt

CONSTANTS
    W,                \* __riscv_xlen
    DomHarts,         \* harts of the platform
    ColdHart,         \* the hart that takes the cold boot
    FwStart, FwRwOffset, FwSize,   \* the firmware image
    NextAddr,         \* next_addr in the scratch space of the cold hart
    RootRegionMax,    \* ROOT_REGION_MAX
    DtRegionMax,      \* FDT_DOMAIN_REGION_MAX_COUNT
    DevRanges,        \* ranges drivers add: records [addr, size, align, flags]
    DtTrees           \* domain lists of the device tree, each a sequence of
                      \* [name, possible, regions, boot, next, mode, harts]

VARIABLES
    dom_phase,        \* "boot", "final" (domain_finalized), "up", "hang"
    dom_list,         \* domain_list: a sequence of domains, the root first
    dom_of,           \* sbi_hartindex_to_domain: hart -> name
    dom_assigned,     \* name -> assigned_harts
    dom_granted,      \* ranges root_add_memrange() has accepted
    dom_started       \* hart -> where it enters its next stage

dom_vars == <<dom_phase, dom_list, dom_of, dom_assigned, dom_granted, dom_started>>

None == "none"
Absent == -1          \* a property the tree does not have, an unknown hart
NotStarted == [addr |-> Absent, mode |-> None]
Rwx == {"r", "w", "x"}
Addrs == 0 .. 2^W - 1
Flag(m, su, mmio) == [m |-> m, su |-> su, mmio |-> mmio, enf |-> FALSE]
SharedSurwMrw == Flag({"r", "w"}, {"r", "w"}, TRUE)
MOnlyMmio == Flag({"r", "w"}, {}, TRUE)

\* unsigned long
Ulong(x) == x % 2^W

\* BIT(nr) is 1UL << nr; the machine's shift takes nr modulo the word's width.
Bit(nr) == 2^(nr % W)
Region(base, order, flags) == [base |-> base, order |-> order, flags |-> flags]

\* The last address of a region, as check_addr() and find_region() compute it.
RegionEnd(r) == IF r.order < W THEN r.base + Bit(r.order) - 1 ELSE 2^W - 1
Holds(r, a) == r.base =< a /\ a =< RegionEnd(r)

\* log2roundup(): the least order with x =< 2^order, W when there is none.
Log2RoundUp(x) == CHOOSE o \in 0 .. W : (o = W \/ x =< 2^o) /\ \A k \in 0 .. o - 1 : x > 2^k
AlignDown(a, order) == a - (a % 2^order)

\* Bug: the sums are computed without wrap-around.
FitsInWide(addr, size, o) == addr + size - 1 < AlignDown(addr, o) + 2^o

\* The comparisons of sbi_domain_memregion_init(): the block of order o around
\* addr holds addr .. addr + size - 1. A block at the top of memory ends at 0.
FitsIn(addr, size, o) ==
    LET base == AlignDown(addr, o)
        end == Ulong(base + 2^o)
        last == Ulong(addr + size - 1)
    IN  addr < end /\ base =< last /\ last < end

\* The first order from which on the block fits, W if there is none.
BlockOrder(addr, size, from) ==
    CHOOSE o \in from .. W : /\ o = W \/ FitsIn(addr, size, o)
                             /\ \A k \in from .. o - 1 : ~FitsIn(addr, size, k)

\* sbi_domain_memregion_init(): the smallest block of natural alignment that
\* fits, or all of memory.
MemregionInit(addr, size, flags) ==
    LET order == BlockOrder(addr, size, Log2RoundUp(size))
    IN  Region(IF order = W THEN 0 ELSE AlignDown(addr, order), order, flags)

FindRegion(regs, a) == SelectInSeq(regs, LAMBDA r : Holds(r, a))

\* sbi_domain_check_addr(): the first region that holds the address decides.
CheckAddr(regs, a, mode, access, mmio) ==
    LET i == FindRegion(regs, a)
        rwx == IF mode = "M" THEN regs[i].flags.m ELSE regs[i].flags.su
    IN  IF i = 0 THEN mode = "M"
        ELSE regs[i].flags.mmio = mmio /\ access \subseteq rwx

IsRegionValid(r) ==
    /\ 3 =< r.order /\ r.order =< W
    /\ r.order = W => r.base = 0
    /\ r.order < W => r.base % Bit(r.order) = 0

IsRegionSubset(a, b) ==
    LET aend == Ulong(a.base + Bit(a.order) - 1)
        bend == Ulong(b.base + Bit(b.order) - 1)
    IN  b.base =< a.base /\ a.base < bend /\ b.base < aend /\ aend =< bend

\* Bug: the flags are not compared.
IsRegionCompatibleAny(a, b) == IsRegionSubset(a, b)

IsRegionCompatible(a, b) == IsRegionSubset(a, b) /\ a.flags = b.flags
IsRegionBefore(a, b) == a.order < b.order \/ (a.order = b.order /\ a.base < b.base)

\* Bug: nested regions are not looked for.
FindNextSubsetNone(regs, i, a) == 0

FindNextSubset(regs, i, a) ==
    LET subs == {k \in DOMAIN regs : k # i /\ regs[k].base > a /\ IsRegionSubset(regs[k], regs[i])}
        better(k, l) == \/ regs[k].base < regs[l].base
                        \/ regs[k].base = regs[l].base /\ regs[k].order < regs[l].order
                        \/ regs[k].base = regs[l].base /\ regs[k].order = regs[l].order /\ k =< l
    IN  IF subs = {} THEN 0 ELSE CHOOSE k \in subs : \A l \in subs : better(k, l)

\* sbi_domain_check_addr_range(): from region to region until the range ends,
\* which for a range at the top of memory is at once, since max has wrapped.
RECURSIVE CheckFrom(_, _, _, _, _, _)
CheckFrom(regs, addr, max, mode, access, mmio) ==
    LET i == FindRegion(regs, addr)
        sub == FindNextSubset(regs, i, addr)
    IN  IF addr >= max THEN TRUE
        ELSE IF i = 0 \/ ~CheckAddr(regs, addr, mode, access, mmio) THEN FALSE
        ELSE IF sub # 0 THEN CheckFrom(regs, regs[sub].base, max, mode, access, mmio)
        ELSE IF regs[i].order < W
             THEN CheckFrom(regs, Ulong(regs[i].base + Bit(regs[i].order)), max, mode, access, mmio)
             ELSE TRUE
CheckAddrRange(regs, addr, size, mode, access, mmio) ==
    CheckFrom(regs, addr, Ulong(addr + size), mode, access, mmio)

\* The exchange sort of sanitize_domain(). The loop after it, which is to
\* remove covered regions, starts with i = count - 1 and does nothing.
SwapRegion(regs, i, j) == [regs EXCEPT ![i] = regs[j], ![j] = regs[i]]
RECURSIVE ExchangeFrom(_, _, _)
ExchangeFrom(regs, i, j) ==
    IF i >= Len(regs) THEN regs
    ELSE IF j > Len(regs) THEN ExchangeFrom(regs, i + 1, i + 2)
    ELSE ExchangeFrom(IF IsRegionBefore(regs[j], regs[i]) THEN SwapRegion(regs, i, j) ELSE regs, i, j + 1)

\* Bug: the regions keep their order.
SortRegionsNot(regs) == regs

SortRegions(regs) == ExchangeFrom(regs, 1, 2)

\* sanitize_domain(): the domain with its regions sorted, and the verdict.
Sanitize(d) ==
    LET sorted == [d EXCEPT !.regs = SortRegions(@)]
        early == /\ d.possible \subseteq DomHarts
                 /\ \A i \in DOMAIN d.regs : IsRegionValid(d.regs[i])
        late == d.mode \in {"S", "U"} /\ CheckAddr(sorted.regs, d.next, d.mode, {"x"}, FALSE)
    IN  IF ~early THEN [rc |-> SBI_EINVAL, d |-> d]
        ELSE [rc |-> IF late THEN SBI_OK ELSE SBI_EINVAL, d |-> sorted]

\* One pass over the root regions: neighbours of equal order and flags that
\* make up a block of the next order become that block.
MergePass(regs) ==
    LET joins(s, k) == /\ k < Len(s)
                       /\ s[k].base % Bit(s[k].order + 1) = 0
                       /\ Ulong(s[k].base + Bit(s[k].order)) = s[k + 1].base
                       /\ s[k].order = s[k + 1].order
                       /\ s[k].flags = s[k + 1].flags
        step(s, k) == IF joins(s, k) THEN RemoveAt([s EXCEPT ![k].order = @ + 1], k + 1) ELSE s
    IN  FoldLeft(step, regs, [k \in 1 .. Len(regs) |-> k])

RECURSIVE SortAndMerge(_)
SortAndMerge(d) ==
    LET s == Sanitize(d)
        merged == MergePass(s.d.regs)
    IN  IF s.rc # SBI_OK \/ merged = s.d.regs THEN s
        ELSE SortAndMerge([s.d EXCEPT !.regs = merged])

\* root_add_memregion()
RootAddMemregion(d, reg) ==
    IF Len(d.regs) >= RootRegionMax THEN [rc |-> SBI_EINVAL, d |-> d]
    ELSE IF \E i \in DOMAIN d.regs : IsRegionCompatible(reg, d.regs[i]) THEN [rc |-> SBI_OK, d |-> d]
    ELSE SortAndMerge([d EXCEPT !.regs = Append(@, reg)])

\* sbi_domain_root_add_memrange(): pieces of at most align bytes; sbi_ffs()
\* gives the lowest set bit of a start that is not aligned.
LowestBit(p) == CHOOSE b \in {2^k : k \in 0 .. W} : p % b = 0 /\ p % (2 * b) # 0
PieceSize(pos, end, align) ==
    IF pos % align # 0 THEN LowestBit(pos) ELSE IF end - pos < align THEN end - pos ELSE align

RECURSIVE RootAddPieces(_, _, _, _, _)
RootAddPieces(d, pos, end, align, flags) ==
    IF pos >= end THEN [rc |-> SBI_OK, d |-> d]
    ELSE LET size == PieceSize(pos, end, align)
             add == RootAddMemregion(d, MemregionInit(pos, size, flags))
         IN  IF add.rc # SBI_OK THEN add ELSE RootAddPieces(add.d, Ulong(pos + size), end, align, flags)
RootAddMemrange(d, r) == RootAddPieces(d, r.addr, Ulong(r.addr + r.size), r.align, r.flags)

\* Bug: the devices of M-mode are not copied.
MachineMemory(rootregs) == SelectSeq(rootregs, LAMBDA r : r.flags.su = {} /\ ~r.flags.mmio)

\* The regions of the root domain that every domain gets.
MachineRegions(rootregs) == SelectSeq(rootregs, LAMBDA r : r.flags.su = {})

\* __fdt_parse_domain(): the regions of the tree, then the regions of the root
\* that give S- and U-mode nothing; defaults come from the cold hart's scratch.
DtRegionOk(r) == ~(r.flags.su = {} /\ r.flags.m # {}) /\ 3 =< r.order /\ r.order =< W
ParseDomain(dt, rootregs) ==
    LET cold == ColdHart \in dt.harts
        own == [i \in DOMAIN dt.regions |->
                  MemregionInit(dt.regions[i].base,
                                IF dt.regions[i].order = W THEN 2^W - 1 ELSE Bit(dt.regions[i].order),
                                dt.regions[i].flags)]
        fw == MachineRegions(rootregs)
    IN  [rc |-> IF \E i \in DOMAIN dt.regions : ~DtRegionOk(dt.regions[i]) THEN SBI_EINVAL
                ELSE IF Len(own) > DtRegionMax THEN SBI_ENOSPC
                ELSE IF Len(own) + Len(fw) > DtRegionMax THEN SBI_EINVAL
                ELSE SBI_OK,
         d  |-> [name |-> dt.name, possible |-> dt.possible, regs |-> own \o fw,
                 boot |-> IF dt.boot # Absent THEN dt.boot ELSE IF cold THEN ColdHart ELSE Absent,
                 next |-> IF dt.next # Absent THEN dt.next ELSE IF cold THEN NextAddr ELSE 0,
                 mode |-> IF dt.mode # None THEN dt.mode ELSE "S"]]

\* Bug: the harts stay in the domain they come from.
AssignedAlso(st, d, take) == [st.assigned EXCEPT ![d.name] = take]

\* The masks of assigned harts after the harts of take have moved to d.
AssignedTo(st, d, take) ==
    [n \in DOMAIN st.assigned |-> IF n = d.name THEN take ELSE st.assigned[n] \ take]

\* sbi_domain_register(): the domain joins the list and takes the harts of
\* assign that it may have from the domains they are in; the cold hart becomes
\* the boot hart of the domain it is assigned to.
RegisterDomain(st, d, assign) ==
    LET s == Sanitize(d)
        take == assign \cap d.possible
        reg == [s.d EXCEPT !.boot = IF ColdHart \in take THEN ColdHart ELSE @]
    IN  IF s.rc # SBI_OK THEN [st EXCEPT !.rc = s.rc]
        ELSE [rc |-> SBI_OK,
              list |-> Append(st.list, reg),
              of |-> [h \in DomHarts |-> IF h \in take THEN d.name ELSE st.of[h]],
              assigned |-> AssignedTo(st, d, take)]

DomNames == {"root"} \cup UNION {{DtTrees[t][i].name : i \in DOMAIN DtTrees[t]} : t \in DOMAIN DtTrees}

\* sbi_domain_init(): the firmware's code and data, then all of memory.
RootDomain ==
    [name |-> "root", possible |-> DomHarts, boot |-> ColdHart, next |-> NextAddr, mode |-> "S",
     regs |-> << MemregionInit(FwStart, FwRwOffset, Flag({"r", "x"}, {}, FALSE)),
                 MemregionInit(FwStart + FwRwOffset, FwSize - FwRwOffset, Flag({"r", "w"}, {}, FALSE)),
                 MemregionInit(0, 2^W - 1, Flag({}, Rwx, FALSE)) >>]
Booted == RegisterDomain([rc |-> SBI_OK, list |-> <<>>, of |-> [h \in DomHarts |-> None],
                          assigned |-> [n \in DomNames |-> {}]], RootDomain, DomHarts)

DomInit ==
    /\ dom_phase = IF Booted.rc = SBI_OK THEN "boot" ELSE "hang"
    /\ dom_list = Booted.list
    /\ dom_of = Booted.of
    /\ dom_assigned = Booted.assigned
    /\ dom_granted = {}
    /\ dom_started = [h \in DomHarts |-> NotStarted]

\* A driver's cold init adds the range of its device; an error ends the boot.
AddMemrange(r) ==
    /\ dom_phase = "boot" /\ r \notin dom_granted
    /\ LET add == RootAddMemrange(dom_list[1], r)
       IN  /\ dom_list' = [dom_list EXCEPT ![1] = add.d]
           /\ IF add.rc = SBI_OK
              THEN dom_granted' = dom_granted \cup {r} /\ UNCHANGED dom_phase
              ELSE dom_phase' = "hang" /\ UNCHANGED dom_granted
    /\ UNCHANGED <<dom_of, dom_assigned, dom_started>>

\* fdt_domains_populate() and sbi_domain_finalize()
Populate(tree) ==
    LET step(st, dt) == IF st.rc # SBI_OK THEN st
                        ELSE LET p == ParseDomain(dt, st.list[1].regs)
                             IN  IF p.rc # SBI_OK THEN [st EXCEPT !.rc = p.rc]
                                 ELSE RegisterDomain(st, p.d, dt.harts)
    IN  FoldLeft(step, [rc |-> SBI_OK, list |-> dom_list, of |-> dom_of, assigned |-> dom_assigned], tree)

DomainFinalize(tree) ==
    /\ dom_phase = "boot"
    /\ LET p == Populate(tree)
       IN  /\ dom_phase' = IF p.rc = SBI_OK THEN "final" ELSE "hang"
           /\ dom_list' = p.list /\ dom_of' = p.of /\ dom_assigned' = p.assigned
    /\ UNCHANGED <<dom_granted, dom_started>>

\* Bug: the domain the hart is in is not asked.
StartsInAny(h, d) == d.boot = h

\* sbi_domain_startup(): the boot hart of a domain that is possible and
\* assigned there; the cold hart's scratch space takes the domain's values.
StartsIn(h, d) == d.boot = h /\ h \in d.possible /\ dom_of[h] = d.name /\ h \in dom_assigned[d.name]
DomainStartup ==
    /\ dom_phase = "final"
    /\ dom_started' = [h \in DomHarts |->
          LET ds == {i \in DOMAIN dom_list : StartsIn(h, dom_list[i])}
          IN  IF ds # {} THEN LET d == dom_list[CHOOSE i \in ds : TRUE] IN [addr |-> d.next, mode |-> d.mode]
              ELSE IF h = ColdHart THEN [addr |-> NextAddr, mode |-> "S"] ELSE NotStarted]
    /\ dom_phase' = "up"
    /\ UNCHANGED <<dom_list, dom_of, dom_assigned, dom_granted>>

DomNext ==
    \/ \E r \in DevRanges : AddMemrange(r)
    \/ \E t \in DOMAIN DtTrees : DomainFinalize(DtTrees[t])
    \/ DomainStartup
-----------------------------------------------------------------------------
DomOf(h) == dom_list[CHOOSE i \in DOMAIN dom_list : dom_list[i].name = dom_of[h]]
FwBytes == FwStart .. FwStart + FwSize - 1
EffectiveFlags(regs, a) == regs[FindRegion(regs, a)].flags
Granted(regs, a, acc) == FindRegion(regs, a) # 0 /\ acc \in EffectiveFlags(regs, a).su

\* Ranges whose end, addr + size, is not an address: it wraps around.
AtTop(addr, size) == addr + size >= 2^W

\* Type invariant: regions are well formed (3 =< order =< W, aligned base) in
\* every domain of the list, which holds each domain once, the root first.
DomTypeOK ==
    /\ dom_phase \in {"boot", "final", "up", "hang"}
    /\ \A i \in DOMAIN dom_list :
         /\ \A k \in DOMAIN dom_list[i].regs : IsRegionValid(dom_list[i].regs[k])
         /\ \A j \in DOMAIN dom_list : dom_list[i].name = dom_list[j].name => i = j
    /\ dom_phase # "hang" => dom_list[1].name = "root"

\* Every byte of a range a driver added has exactly the flags the driver gave
\* it, whatever was added before and after: splitting into power-of-two pieces,
\* skipping compatible regions, sorting and merging lose and widen nothing. The
\* exception is a range at the top of memory: its end wraps around to 0, and
\* sbi_domain_root_add_memrange() returns 0 without having added anything.
DomRangeProtected ==
    dom_phase # "hang" =>
      \A r \in dom_granted : AtTop(r.addr, r.size) \/ \A a \in r.addr .. r.addr + r.size - 1 :
         EffectiveFlags(dom_list[1].regs, a) = r.flags

\* Every domain, the root and those of the device tree, keeps the firmware's
\* bytes from S- and U-mode and leaves M-mode its code and its data.
DomFirmwareProtected ==
    \A i \in DOMAIN dom_list : \A a \in FwBytes :
       /\ \A acc \in Rwx : ~CheckAddr(dom_list[i].regs, a, "S", {acc}, FALSE)
       /\ CheckAddr(dom_list[i].regs, a, "M", IF a < FwStart + FwRwOffset THEN {"x"} ELSE {"w"}, FALSE)

\* A device that is M-mode's alone in the root domain is so in every domain,
\* also inside a larger region that the tree gives the domain. Devices at the
\* top of memory are excepted, see DomRangeProtected.
DomDevicesPrivate ==
    dom_phase \in {"final", "up"} =>
      \A i \in DOMAIN dom_list : \A r \in dom_granted :
         r.flags.su = {} /\ ~AtTop(r.addr, r.size) => \A a \in r.addr .. r.addr + r.size - 1, mmio \in BOOLEAN :
            ~CheckAddr(dom_list[i].regs, a, "S", {"r"}, mmio)

\* At any time a hart is assigned to exactly one domain, the one its index
\* leads to, and the domain lists it as possible.
DomHartInOneDomain ==
    dom_phase # "hang" =>
      \A h \in DomHarts : /\ {n \in DomNames : h \in dom_assigned[n]} = {dom_of[h]}
                          /\ h \in DomOf(h).possible

\* A hart the boot starts enters its next stage at an address its own domain
\* lets that mode execute, in the domain it boots.
DomStartsExecutable ==
    dom_phase = "up" =>
      \A h \in DomHarts : dom_started[h] # NotStarted =>
         CheckAddr(DomOf(h).regs, dom_started[h].addr, dom_started[h].mode, {"x"}, FALSE)

\* A domain of the tree can use each byte that M-mode does not keep for itself
\* exactly as the smallest region of the tree around it says, whatever the order of
\* the regions in the tree. The exception is a domain with a region at the top of
\* memory, for which sbi_domain_memregion_init() finds no block but all of memory.
TreeRegions(name) ==
    LET dts == UNION {Range(DtTrees[t]) : t \in DOMAIN DtTrees}
    IN  Range((CHOOSE dt \in dts : dt.name = name).regions)
Smallest(rs, a, acc) == \E r \in rs : /\ Holds(r, a) /\ acc \in r.flags.su
                                      /\ \A q \in rs : Holds(q, a) => r.order =< q.order
DomTreeExact ==
    \A i \in DOMAIN dom_list \ {1} :
      LET tree == TreeRegions(dom_list[i].name)
          rest == {a \in Addrs : \A k \in DOMAIN dom_list[1].regs :
                      dom_list[1].regs[k].flags.su = {} => ~Holds(dom_list[1].regs[k], a)}
      IN  (\A r \in tree : r.order = W \/ ~AtTop(r.base, 2^r.order)) =>
            \A a \in rest, acc \in Rwx : Granted(dom_list[i].regs, a, acc) = Smallest(tree, a, acc)

\* sbi_domain_check_addr_range() ends: it goes on behind the region it has checked,
\* so no region but all of memory may end at the top, where behind is 0 again.
DomCheckEnds ==
    \A i \in DOMAIN dom_list : \A k \in DOMAIN dom_list[i].regs :
       LET r == dom_list[i].regs[k] IN r.order < W => Ulong(r.base + Bit(r.order)) > r.base

\* Ranges that S-mode passes, and what they must amount to.
RangeCases == {c \in [addr : Addrs, size : {8, 16, 24}, mmio : BOOLEAN] : c.addr % 4 = 0}
PointWise(regs, c) ==
    \A a \in c.addr .. c.addr + c.size - 1 :
       FindRegion(regs, a) # 0 /\ CheckAddr(regs, a, "S", {"r"}, c.mmio)
RangeCheckExact(regs) ==
    \A c \in RangeCases : AtTop(c.addr, c.size)
        \/ CheckAddrRange(regs, c.addr, c.size, "S", {"r"}, c.mmio) = PointWise(regs, c)

\* check_addr_range() is the conjunction of check_addr() over the bytes of the
\* range, for a domain without a region of all of memory and a range that ends below
\* the top of memory: otherwise its end wraps around and nothing of it is checked.
DomRangeCheckExact ==
    \A i \in DOMAIN dom_list :
       (\A k \in DOMAIN dom_list[i].regs : dom_list[i].regs[k].order < W) => RangeCheckExact(dom_list[i].regs)

\* After the boot of the domains the regions of each, as merged, split and sorted
\* by sbi_domain.c, keep S-mode out of what was reserved for the firmware, and each
\* hart is in one domain and starts where that domain may execute. Ranges at the top
\* of memory are excepted from the first part, see AtTop.
DomSound ==
    /\ DomTypeOK
    /\ DomRangeProtected /\ DomFirmwareProtected /\ DomDevicesPrivate
    /\ DomTreeExact /\ DomCheckEnds /\ DomRangeCheckExact
    /\ DomHartInOneDomain /\ DomStartsExecutable
=============================================================================
