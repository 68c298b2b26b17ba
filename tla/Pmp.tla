-------------------------------- MODULE Pmp ---------------------------------
(***************************************************************************)
(* The physical memory protection of one hart (sbi_hart.c, riscv_asm.c):   *)
(* the writes with which sbi_hart_pmp_configure() turns the regions of the *)
(* hart's domain into entries, with Smepmp and without, the reserved entry *)
(* that maps S-mode's buffers for M-mode, and the switch to another        *)
(* domain's regions. One CSR write is one step.                            *)
(***************************************************************************)
EXTENDS Domain

CONSTANTS
    PmpCount,        \* number of implemented entries
    PmpGran,         \* log2 of the granularity
    PmpAddrMax,      \* largest value of a pmpaddr register
    PmpDomains,      \* region lists of the registered domains, sorted
    SaddrRanges      \* buffers of S-mode: [addr, size]

VARIABLES
    pmp_sme,         \* the hart has Smepmp
    pmp_regs,        \* the regions of the hart's domain
    pmp_entry,       \* index -> [on, base, order, lock, prot]
    pmp_mml,         \* mseccfg.MML
    pmp_todo,        \* writes still to be made
    pmp_why,         \* what they are for: "lost", "config", "switch", "map"
    pmp_map          \* the buffer that is mapped, or NoMap

pmp_vars == <<pmp_sme, pmp_regs, pmp_entry, pmp_mml, pmp_todo, pmp_why, pmp_map>>

PmpIdx == 0 .. PmpCount - 1
PmpOff == [on |-> FALSE, base |-> 0, order |-> 0, lock |-> FALSE, prot |-> {}]
PmpEntry(r, f) == [on |-> TRUE, base |-> r.base, order |-> r.order, lock |-> f.lock, prot |-> f.prot]
NoMap == [addr |-> 0, size |-> 0]
ResvEntry == 0       \* SBI_SMEPMP_RESV_ENTRY

PmpSet(i, e) == [op |-> "set", idx |-> i, entry |-> e]
PmpDisable(i) == [op |-> "set", idx |-> i, entry |-> PmpOff]
SetMml == [op |-> "mml", idx |-> 0, entry |-> PmpOff]

PmpInRange(r) == PmpGran =< r.order /\ r.base \div 4 < PmpAddrMax

MOnly(f) == f.m # {} /\ f.su = {}
SuOnly(f) == f.su # {} /\ f.m = {}

\* sbi_hart_get_smepmp_flags(): no flags (prot = {} and no lock) is an error.
SmepmpFlags(f) ==
    LET pf(l, p) == [lock |-> l, prot |-> p]
    IN  CASE f.m = {"r"} /\ f.su = {"r"} -> pf(TRUE, Rwx)
          [] f.m = {"r", "x"} /\ f.su = {"x"} -> pf(TRUE, {"w", "x"})
          [] f.m = {"x"} /\ f.su = {"x"} -> pf(TRUE, {"w"})
          [] f.m = {"r", "w"} /\ f.su = {"r", "w"} -> pf(FALSE, {"w", "x"})
          [] f.m = {"r", "w"} /\ f.su = {"r"} -> pf(FALSE, {"w"})
          [] MOnly(f) -> IF f.m = Rwx THEN pf(FALSE, {}) ELSE pf(TRUE, f.m)
          [] SuOnly(f) -> pf(FALSE, f.su)
          [] OTHER -> pf(FALSE, {})
SmepmpError(r) == SmepmpFlags(r.flags) = [lock |-> FALSE, prot |-> {}]

\* One of the two loops of sbi_hart_smepmp_configure(): region i has entry i,
\* entry 0 being reserved; an error ends the function.
SmepmpPass(regs, m_only) ==
    LET seen == [i \in 1 .. Min({Len(regs), PmpCount - 1}) |-> i]
        mine == SelectSeq(seen, LAMBDA i : MOnly(regs[i].flags) = m_only)
        bad == SelectInSeq(mine, LAMBDA i : SmepmpError(regs[i]))
        todo == SelectSeq(IF bad = 0 THEN mine ELSE SubSeq(mine, 1, bad - 1), LAMBDA i : PmpInRange(regs[i]))
    IN  [ok |-> bad = 0,
         w  |-> [k \in 1 .. Len(todo) |-> PmpSet(todo[k], PmpEntry(regs[todo[k]], SmepmpFlags(regs[todo[k]].flags)))]]

\* Bug: MML is set before the entries of M-mode are written.
SmepmpWritesEarly(regs) ==
    LET first == SmepmpPass(regs, TRUE)
        second == SmepmpPass(regs, FALSE)
    IN  <<PmpDisable(ResvEntry), SetMml>> \o first.w \o (IF first.ok THEN second.w ELSE <<>>)

\* Bug: MML is set last, and not after an error.
SmepmpWritesLate(regs) ==
    LET first == SmepmpPass(regs, TRUE)
        second == SmepmpPass(regs, FALSE)
    IN  <<PmpDisable(ResvEntry)>> \o first.w \o (IF first.ok THEN second.w ELSE <<>>)
          \o (IF first.ok /\ second.ok THEN <<SetMml>> ELSE <<>>)

SmepmpWrites(regs) ==
    LET first == SmepmpPass(regs, TRUE)
        second == SmepmpPass(regs, FALSE)
    IN  <<PmpDisable(ResvEntry)>> \o first.w \o (IF first.ok THEN <<SetMml>> \o second.w ELSE <<>>)

\* sbi_hart_oldpmp_configure(): a region out of range takes no entry.
OldpmpWrites(regs) ==
    LET fit == SelectSeq(regs, PmpInRange)
        n == Min({Len(fit), PmpCount})
    IN  [k \in 1 .. n |-> PmpSet(k - 1, PmpEntry(fit[k], [lock |-> fit[k].flags.enf, prot |-> fit[k].flags.su]))]

PmpConfigWrites(regs) == IF pmp_sme THEN SmepmpWrites(regs) ELSE OldpmpWrites(regs)

PmpInit ==
    /\ pmp_sme \in BOOLEAN
    /\ pmp_regs \in PmpDomains
    /\ pmp_entry = [i \in PmpIdx |-> PmpOff]
    /\ pmp_mml = FALSE
    /\ pmp_todo = <<>>
    /\ pmp_why = "lost"
    /\ pmp_map = NoMap

PmpIdle == pmp_todo = <<>>

\* sbi_hart_pmp_configure() at boot, after a start and after a resume.
PmpConfigure ==
    /\ PmpIdle /\ pmp_map = NoMap
    /\ pmp_todo' = PmpConfigWrites(pmp_regs)
    /\ pmp_why' = "config"
    /\ UNCHANGED <<pmp_sme, pmp_regs, pmp_entry, pmp_mml, pmp_map>>

\* Bug: the entries of the domain that is left are kept.
PmpSwitchKept(regs) ==
    /\ PmpIdle /\ pmp_map = NoMap /\ pmp_why # "lost" /\ regs # pmp_regs
    /\ pmp_regs' = regs
    /\ pmp_todo' = PmpConfigWrites(regs)
    /\ pmp_why' = "switch"
    /\ UNCHANGED <<pmp_sme, pmp_entry, pmp_mml, pmp_map>>

\* switch_to_next_domain_context(): all entries off, then the configuration
\* of the target domain.
PmpSwitch(regs) ==
    /\ PmpIdle /\ pmp_map = NoMap /\ pmp_why # "lost" /\ regs # pmp_regs
    /\ pmp_regs' = regs
    /\ pmp_todo' = [i \in 1 .. PmpCount |-> PmpDisable(i - 1)] \o PmpConfigWrites(regs)
    /\ pmp_why' = "switch"
    /\ UNCHANGED <<pmp_sme, pmp_entry, pmp_mml, pmp_map>>

\* pmp_set(), pmp_disable() or csr_set(CSR_MSECCFG, MSECCFG_MML).
PmpWrite ==
    /\ ~PmpIdle
    /\ LET w == Head(pmp_todo)
       IN  IF w.op = "mml" THEN pmp_mml' = TRUE /\ UNCHANGED pmp_entry
           ELSE pmp_entry' = [pmp_entry EXCEPT ![w.idx] = w.entry] /\ UNCHANGED pmp_mml
    /\ pmp_todo' = Tail(pmp_todo)
    /\ UNCHANGED <<pmp_sme, pmp_regs, pmp_why, pmp_map>>

\* A stop or a non-retentive suspend loses the registers.
PmpLose ==
    /\ PmpIdle /\ pmp_map = NoMap /\ pmp_why \in {"config", "switch"}
    /\ pmp_entry' = [i \in PmpIdx |-> PmpOff]
    /\ pmp_mml' = FALSE
    /\ pmp_why' = "lost"
    /\ UNCHANGED <<pmp_sme, pmp_regs, pmp_todo, pmp_map>>

\* Bug: the block is aligned, and its end not compared.
MapBlockFirst(s) ==
    LET o == Max({PmpGran, Log2RoundUp(s.size)})
    IN  Region(AlignDown(s.addr, o), o, Flag({}, {}, FALSE))

\* sbi_hart_map_saddr(), on a buffer the caller has checked with the domain:
\* the smallest aligned block around it becomes readable and writable. At the top
\* of memory there is no such block; the callers do not look at the error.
MapBlock(s) ==
    LET o == BlockOrder(s.addr, s.size, Max({PmpGran, Log2RoundUp(s.size)}))
    IN  Region(IF o = W THEN 0 ELSE AlignDown(s.addr, o), o, Flag({}, {}, FALSE))
MapSaddr(s) ==
    /\ PmpIdle /\ pmp_sme /\ pmp_why \in {"config", "switch"} /\ pmp_map = NoMap
    /\ \A a \in s.addr .. s.addr + s.size - 1 : \A acc \in {"r", "w"} : Granted(pmp_regs, a, acc)
    /\ ~pmp_entry[ResvEntry].on
    /\ pmp_entry' = IF MapBlock(s).order = W THEN pmp_entry
                    ELSE [pmp_entry EXCEPT ![ResvEntry] =
                            PmpEntry(MapBlock(s), [lock |-> FALSE, prot |-> {"w", "x"}])]
    /\ pmp_map' = s
    /\ UNCHANGED <<pmp_sme, pmp_regs, pmp_mml, pmp_todo, pmp_why>>

UnmapSaddr ==
    /\ PmpIdle /\ pmp_sme /\ pmp_map # NoMap
    /\ pmp_entry' = [pmp_entry EXCEPT ![ResvEntry] = PmpOff]
    /\ pmp_map' = NoMap
    /\ UNCHANGED <<pmp_sme, pmp_regs, pmp_mml, pmp_todo, pmp_why>>

\* The hardware: what an entry gives a mode, with MML and without.
EntryGives(e, mode) ==
    IF ~pmp_mml THEN IF mode = "M" /\ ~e.lock THEN Rwx ELSE e.prot
    ELSE IF e.lock
    THEN CASE e.prot = {"w"} -> {"x"}
           [] e.prot = {"w", "x"} -> IF mode = "M" THEN {"r", "x"} ELSE {"x"}
           [] e.prot = Rwx -> {"r"}
           [] OTHER -> IF mode = "M" THEN e.prot ELSE {}
    ELSE CASE e.prot = {"w"} -> IF mode = "M" THEN {"r", "w"} ELSE {"r"}
           [] e.prot = {"w", "x"} -> {"r", "w"}
           [] OTHER -> IF mode = "M" THEN {} ELSE e.prot
PmpAllows(mode, acc, a) ==
    LET hits == {i \in PmpIdx : pmp_entry[i].on /\ Holds(pmp_entry[i], a)}
        first == CHOOSE i \in hits : \A k \in hits : i =< k
    IN  IF hits = {} THEN mode = "M" /\ (acc = "x" => ~pmp_mml)
        ELSE acc \in EntryGives(pmp_entry[first], mode)

\* M-mode can run the firmware's code and use its data.
FirmwareRuns ==
    \A a \in FwBytes : IF a < FwStart + FwRwOffset THEN PmpAllows("M", "x", a)
                       ELSE PmpAllows("M", "r", a) /\ PmpAllows("M", "w", a)

PmpStep ==
    \/ PmpConfigure
    \/ \E regs \in PmpDomains : PmpSwitch(regs)
    \/ PmpWrite
    \/ PmpLose
    \/ \E s \in SaddrRanges : MapSaddr(s)
    \/ UnmapSaddr

\* A hart that cannot fetch its next instruction traps for ever.
PmpHung == ~FirmwareRuns /\ UNCHANGED pmp_vars
PmpNext == (FirmwareRuns /\ PmpStep) \/ PmpHung
-----------------------------------------------------------------------------
\* Type invariant: an entry that is on lies in the address space.
PmpTypeOK ==
    /\ pmp_why \in {"lost", "config", "switch"}
    /\ pmp_mml => pmp_sme
    /\ \A i \in PmpIdx : pmp_entry[i].on => pmp_entry[i].order \in 2 .. W /\ pmp_entry[i].base \in Addrs

\* The entries suffice and Smepmp can express the flags of every region.
PmpFits == /\ Len(pmp_regs) =< IF pmp_sme THEN PmpCount - 1 ELSE PmpCount
           /\ pmp_sme => \A i \in DOMAIN pmp_regs : ~SmepmpError(pmp_regs[i])

\* Once the entries are written, S-mode has no access its domain does not give
\* it, and every access its domain gives it when PmpFits: sbi_hart_pmp_configure()
\* leaves out no region and widens none.
PmpMatchesDomain ==
    (PmpIdle /\ pmp_why # "lost" /\ pmp_map = NoMap) =>
      \A a \in Addrs : \A acc \in Rwx :
         /\ PmpAllows("S", acc, a) => Granted(pmp_regs, a, acc)
         /\ PmpFits => (Granted(pmp_regs, a, acc) => PmpAllows("S", acc, a))

\* At every write of a configuration M-mode can run the firmware's code and use
\* its data: the M-mode entries are complete before MML takes effect. Two exceptions:
\* switch_to_next_domain_context() turns off every entry, one after the other, while
\* MML is set, and M-mode may not execute what no entry gives it; and the block around
\* a mapped buffer, which may be read and written, can be so large that the firmware
\* is in it.
PmpFirmwareRuns ==
    \/ FirmwareRuns
    \/ pmp_why = "switch" /\ pmp_mml /\ ~PmpIdle
    \/ pmp_map # NoMap /\ \E a \in FwBytes : Holds(MapBlock(pmp_map), a)

\* While a buffer is mapped M-mode can read and write every byte of it, if there is
\* a block for it, see MapBlock.
PmpMapUsable ==
    pmp_map # NoMap /\ MapBlock(pmp_map).order < W =>
        \A a \in pmp_map.addr .. pmp_map.addr + pmp_map.size - 1 :
           PmpAllows("M", "r", a) /\ PmpAllows("M", "w", a)

\* Smepmp is never left half switched on: once the entries of a domain are
\* written, MML is set, unless the domain has a region that only M-mode may
\* use, with read, write and execute at once.
PmpEndsEnforced ==
    (PmpIdle /\ pmp_sme /\ pmp_why # "lost"
       /\ \A i \in DOMAIN pmp_regs : pmp_regs[i].flags.m # Rwx \/ pmp_regs[i].flags.su # {}) => pmp_mml

\* The PMP entries enforce the regions of the domain, and while they are written one
\* by one the firmware can go on running and reach what it maps for S-mode, with the
\* exceptions of PmpFirmwareRuns and PmpMapUsable.
PmpSound == PmpTypeOK /\ PmpMatchesDomain /\ PmpFirmwareRuns /\ PmpMapUsable /\ PmpEndsEnforced
=============================================================================
