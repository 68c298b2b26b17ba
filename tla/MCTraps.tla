-------------------------------- MODULE MCTraps --------------------------------
(***************************************************************************)
(* TLC instance of the computations: the traps a hart handles and the      *)
(* instructions it emulates, vector ones included, and the flattened       *)
(* device tree: the library that reads and writes it, overlays, what the   *)
(* firmware parses from it and what it changes before the next stage.      *)
(* They share no variable, so a behaviour works on one of them: "part"     *)
(* says on which.  Every computation ends.                                 *)
(***************************************************************************)
EXTENDS Trap, FdtCalls, FdtOverlay, FdtFixup, VecLdst

VARIABLE part

alg_vars == <<part, tr_vars, vx_vars, fdt_vars, ov_vars, fp_vars, fx_vars>>

-------------------------------------------------------------------------------
(* Trap: four harts, one of them RV32; loads and stores of every form with     *)
(* the form the architecture gives them (I32 .. C2S assemble); traps from   *)
(* every mode.                                                              *)
Env(h, z, emul, sse) ==
  [h |-> h, zicfilp |-> z, aia |-> FALSE, emulates |-> emul, sse |-> sse, irqchip |-> FALSE, pmuirq |-> TRUE,
   hedeleg |-> {"load_page_fault", "ecall_u"}, vsie |-> TRUE, vstvec |-> 100, stvec |-> 200, fwpc |-> 300,
   pseudo |-> 12288, uptinst |-> 0, mcounteren |-> {"time", "cycle", "hpmcounter"}, hcounteren |-> {"cycle"},
   scounteren |-> {"time"}, hpm |-> FALSE, priv10 |-> TRUE, vector |-> TRUE, xbytes |-> 8,
   ctr |-> [cycle |-> 700, time |-> 1000, instret |-> 300, hpmcounter |-> 513], delta |-> 612]
MCEnvs == {Env(TRUE, TRUE, FALSE, TRUE), [Env(FALSE, FALSE, TRUE, FALSE) EXCEPT !.priv10 = FALSE, !.vector = FALSE],
           [Env(TRUE, FALSE, FALSE, FALSE) EXCEPT !.aia = TRUE, !.uptinst = 12288, !.hpm = TRUE],
           [Env(TRUE, FALSE, TRUE, FALSE) EXCEPT !.xbytes = 4]}
Code(mode, virt, elp, sie, spelp) ==
  [mode |-> mode, virt |-> virt, pc |-> 8, elp |-> elp, spp |-> FALSE, spie |-> FALSE, sie |-> sie, spelp |-> spelp,
   x |-> (0 :> 0 @@ 1 :> 51234 @@ 8 :> 7), f |-> (1 :> 40000 @@ 8 :> 9)]
Modes == {<<"U", FALSE>>, <<"S", FALSE>>, <<"S", TRUE>>, <<"U", TRUE>>}
I32(op, f3, rd) == op + rd * 2 ^ 7 + f3 * 2 ^ 12
S32(op, f3, rs2) == op + f3 * 2 ^ 12 + rs2 * 2 ^ 20
C0(c3, rd) == c3 * 2 ^ 13 + (rd - 8) * 4
C2(c3, rd) == c3 * 2 ^ 13 + rd * 2 ^ 7 + 2
C2S(c3, rs2) == c3 * 2 ^ 13 + rs2 * 4 + 2
Ins(insn, tinst, ilen, len, sext, file, r) ==
  [insn |-> insn, tinst |-> tinst,
   ref |-> [ilen |-> ilen, len |-> len, sext |-> sext, file |-> file, reg |-> r, xlens |-> {4, 8}]]
Wide(insn, len, sext, file, r) == Ins(insn, 0, 4, len, sext, file, r)
Short(insn, len, sext, file, r) == Ins(insn, 0, 2, len, sext, file, r)
Only(xlen, i) == [i EXCEPT !.ref.xlens = {xlen}]
Loads ==
  {Wide(I32(3, 1, 1), 2, TRUE, "x", 1), Wide(I32(3, 2, 1), 4, TRUE, "x", 1), Only(8, Wide(I32(3, 3, 1), 8, TRUE, "x", 1)),
   Wide(I32(3, 5, 1), 2, FALSE, "x", 1), Only(8, Wide(I32(3, 6, 1), 4, FALSE, "x", 1)), Wide(I32(3, 2, 0), 4, TRUE, "x", 0),
   Wide(I32(7, 3, 1), 8, FALSE, "f", 1), Wide(I32(7, 2, 1), 4, FALSE, "f", 1),
   Only(8, Short(C0(3, 8), 8, TRUE, "x", 8)), Only(8, Short(C2(3, 1), 8, TRUE, "x", 1)), Short(C0(2, 8), 4, TRUE, "x", 8),
   Short(C2(2, 1), 4, TRUE, "x", 1), Short(C0(1, 8), 8, FALSE, "f", 8), Short(C2(1, 1), 8, FALSE, "f", 1),
   Short(C0(4, 8) + 2 ^ 10, 2, FALSE, "x", 8), Short(C0(4, 8) + 2 ^ 10 + 2 ^ 6, 2, TRUE, "x", 8),
   Only(4, Short(C0(3, 8), 4, FALSE, "f", 8)), Only(4, Short(C2(3, 1), 4, FALSE, "f", 1)), Wide(I32(7, 5, 1), 0, FALSE, "v", 0),
   Ins(I32(3, 2, 1), I32(3, 2, 1), 4, 4, TRUE, "x", 1), Ins(C0(2, 8), I32(3, 2, 8) - 2, 2, 4, TRUE, "x", 8)}
Stores ==
  {Wide(S32(35, 1, 1), 2, FALSE, "x", 1), Wide(S32(35, 2, 1), 4, FALSE, "x", 1), Only(8, Wide(S32(35, 3, 1), 8, FALSE, "x", 1)),
   Wide(S32(39, 3, 1), 8, FALSE, "f", 1), Wide(S32(39, 2, 1), 4, FALSE, "f", 1),
   Only(8, Short(C0(7, 8), 8, FALSE, "x", 8)), Only(8, Short(C2S(7, 1), 8, FALSE, "x", 1)), Short(C0(6, 8), 4, FALSE, "x", 8),
   Short(C2S(6, 1), 4, FALSE, "x", 1), Short(C0(5, 8), 8, FALSE, "f", 8), Short(C2S(5, 1), 8, FALSE, "f", 1),
   Only(4, Short(C0(7, 8), 4, FALSE, "f", 8)), Only(4, Short(C2S(7, 1), 4, FALSE, "f", 1)), Wide(S32(39, 6, 1), 0, FALSE, "v", 0),
   Short(C0(4, 8) + 3 * 2 ^ 10, 2, FALSE, "x", 8), Only(8, Ins(C0(7, 8), S32(35, 3, 8) - 2, 2, 8, FALSE, "x", 8))}
NoIns == Wide(19, 0, FALSE, "x", 0)

Cause(cause, tval, ins) ==
  [cause |-> cause, tval |-> tval, tval2 |-> 3, gva |-> FALSE, nofetch |-> {}, opcode |-> "other",
   csr |-> [f3 |-> 0, csr |-> "none", high |-> FALSE, rd |-> 0, rs1 |-> 0], irq |-> "none", pending |-> {}] @@ ins
Taken(mv, elp, sie, spelp, bad, t) ==
  [m |-> Code(mv[1], mv[2], elp, sie, spelp), mem |-> [a \in 0 .. 10 |-> (3 * a + 2) % 4], bad |-> bad, trap |-> t]
Plainly(mv, bad, t) == Taken(mv, FALSE, TRUE, FALSE, bad, t)
Accesses ==
  {Plainly(mv, bad, Cause("misaligned_load", 1, i)) :
     mv \in {<<"S", FALSE>>, <<"U", TRUE>>}, bad \in {{}, {2, 3}, {8}}, i \in Loads}
  \cup {Plainly(mv, bad, Cause("misaligned_store", 1, i)) :
          mv \in {<<"S", FALSE>>, <<"U", TRUE>>}, bad \in {{}, {2, 3}, {8}}, i \in Stores}
  \cup {Plainly(<<"S", FALSE>>, {}, Cause("load_access", 1, i)) : i \in Loads}
  \cup {Plainly(<<"S", FALSE>>, {}, Cause("store_access", 1, i)) : i \in Stores}
  \cup {Plainly(mv, {}, [Cause("misaligned_load", 1, NoIns) EXCEPT !.nofetch = nf]) :
          mv \in Modes, nf \in {{0}, {2}, {0, 2}, {}}}
Redirections ==
  {Taken(mv, elp, sie, spelp, {}, Cause(c, 5, NoIns)) :
     mv \in Modes, elp \in BOOLEAN, sie \in BOOLEAN, spelp \in BOOLEAN, c \in {"load_page_fault", "fetch_page_fault", "double"}}
CsrAccesses ==
  {Plainly(mv, {}, [Cause("illegal", 3, NoIns) EXCEPT !.opcode = "system",
                      !.csr = [f3 |-> f3, csr |-> c, high |-> high, rd |-> rd, rs1 |-> rs1]]) :
     mv \in Modes, f3 \in {0, 1, 2, 3, 6}, c \in {"htimedelta", "time", "cycle", "hpmcounter", "instret"},
     high \in BOOLEAN, rd \in {0, 1}, rs1 \in {0, 8}}
Illegals ==
  {Plainly(mv, {}, [Cause("illegal", tv, Wide(i, 0, FALSE, "x", 0)) EXCEPT !.opcode = op, !.nofetch = nf]) :
     mv \in Modes, tv \in {0, 3}, i \in {19, 4}, op \in {"fence_tso", "other"}, nf \in {{}, {0}, {0, 2}, {2}}}
Interrupts ==
  {Plainly(mv, {}, [Cause("irq", 0, NoIns) EXCEPT !.irq = q, !.pending = {q, "m_soft"}]) :
     mv \in Modes, q \in {"m_timer", "m_soft", "m_ext", "pmu", "debug"}}
Ecalls == {Plainly(mv, bad, Cause("ecall_s", 0, NoIns)) : mv \in {<<"S", FALSE>>, <<"S", TRUE>>}, bad \in {{}, {3}}}
MCInputs == Accesses \cup Redirections \cup CsrAccesses \cup Illegals \cup Interrupts \cup Ecalls
MCFwTraps ==
  {Cause("misaligned_load", 1, Wide(I32(3, 2, 1), 4, TRUE, "x", 1)),
   Cause("misaligned_store", 1, Wide(S32(35, 2, 1), 4, FALSE, "x", 1)),
   Cause("load_access", 1, Wide(I32(3, 2, 1), 4, TRUE, "x", 1)), Cause("load_page_fault", 1, NoIns)}

(* VecLdst: unit-stride, fault-only-first, strided, indexed and whole-      *)
(* register accesses, with and without a mask, over groups and fractions.   *)
VInsn(st, mop, lumop, nf, vm, vd, vs2, rs1, rs2) ==
  [store |-> st, mop |-> mop, lumop |-> lumop, width |-> 5, nf |-> nf, masked |-> vm, vd |-> vd, vs2 |-> vs2,
   rs1 |-> rs1, rs2 |-> rs2, mew |-> FALSE]
VIn(i, vl, vstart, vsew, vlmul, bad) ==
  [insn |-> i, vl |-> vl, vstart |-> vstart, vsew |-> vsew, vlmul |-> vlmul, bad |-> bad,
   wide |-> FALSE, support |-> TRUE, fill |-> <<1, 2, 0, 0, 3, 0, 2>>]
VLegal(x) == x.vl * 2 ^ x.vsew <= (IF x.vlmul = 7 THEN 2 ELSE 4 * 2 ^ x.vlmul) /\ x.vstart < x.vl
MCVectors == {x \in
  {VIn(VInsn(st, 0, 0, nf, vm, vd, 0, 1, 0), vl, vs, 1, lm, bad) :
     st \in BOOLEAN, nf \in {1, 2}, vm \in BOOLEAN, vd \in {2, 4}, vl \in {1, 2, 3}, vs \in {0, 1}, lm \in {0, 1, 7},
     bad \in {{}, {6}, {9}}}
  \cup {VIn(VInsn(FALSE, 0, 16, nf, FALSE, 2, 0, 1, 0), 3, vs, 1, 1, bad) :
          nf \in {1, 2}, vs \in {0, 1}, bad \in {{}, {2}, {6}}}
  \cup {VIn(VInsn(st, 2, 0, nf, vm, 2, 0, 3, s), 3, 0, 1, 1, bad) :
          st \in BOOLEAN, nf \in {1, 2}, vm \in BOOLEAN, s \in {0, 3, 5}, bad \in {{}, {8}}}
  \cup {VIn(VInsn(st, 1, 0, nf, vm, 4, 1, 3, 0), 2, 0, sew, 1, bad) :
          st \in BOOLEAN, nf \in {1, 2}, vm \in BOOLEAN, sew \in {0, 1}, bad \in {{}, {8}}}
  \cup {VIn(VInsn(FALSE, 0, 8, nf, FALSE, 4, 0, 1, 0), 1, 0, 1, 1, bad) : nf \in {1, 2}, bad \in {{}, {4}}}
  \cup UNION {LET x == VIn(VInsn(st, 0, 0, 2, TRUE, 2, 0, 1, 0), 3, 1, 1, 1, {})
              IN  {[x EXCEPT !.insn.mew = TRUE], [x EXCEPT !.wide = TRUE], [x EXCEPT !.support = FALSE]} : st \in BOOLEAN}
  : VLegal(x)}
-------------------------------------------------------------------------------
(* Fdt: a blob to edit. *)
MCGiven ==
  {<<TreeNode(0, 0, <<Prop(phandle, <<1>>)>>), TreeNode(1, 110, <<Prop(53, <<3, 9>>), Prop(address_cells, <<1>>)>>),
     TreeNode(2, 111, <<Prop(phandle, <<2>>)>>), TreeNode(1, 111, << >>)>>}
MCValues == {<<2>>, <<3, 1>>}

(* FdtOverlay: bases whose symbols come before or after the nodes, and one  *)
(* without; overlays with local references, symbols and targets by phandle  *)
(* and by path; two that cannot be applied.                                 *)
Refs(handle, name) == <<Prop(ref, <<handle>>), Prop(means, <<name>>)>>
OvBase(first) ==
  LET sym == <<TreeNode(1, symbols_node, <<Prop(62, <<110>>), Prop(63, <<110, 211>>)>>)>>
      body == <<TreeNode(1, 110, <<Prop(phandle, <<2>>), Prop(label_of, <<62>>)>> \o Refs(4, 211)),
                TreeNode(2, 211, <<Prop(linux_phandle, <<4>>), Prop(label_of, <<63>>)>>),
                TreeNode(1, 120, Refs(2, 110))>>
  IN  <<TreeNode(0, 0, <<Prop(53, <<7>>)>>)>> \o (IF first THEN sym \o body ELSE body \o sym)
OvBare == <<TreeNode(0, 0, << >>), TreeNode(1, 110, <<Prop(phandle, <<2>>), Prop(label_of, <<62>>)>>)>>
ToPhandle ==
  <<TreeNode(0, 0, << >>),
    TreeNode(1, 651, <<Prop(target, <<31>>)>>), TreeNode(2, 610, <<Prop(53, <<8>>)>>),
    TreeNode(3, 311, <<Prop(phandle, <<1>>), Prop(label_of, <<64>>)>> \o Refs(2, 312)),
    TreeNode(3, 312, <<Prop(phandle, <<2>>)>> \o Refs(31, 211)),
    TreeNode(1, symbols_node, <<Prop(64, <<651, 610, 311>>), Prop(65, <<110>>)>>),
    TreeNode(1, fixups_node, <<Prop(62, <<1, 651, target, 0>>), Prop(63, <<3, 651, 610, 312, ref, 0>>)>>),
    TreeNode(1, local_fixups_node, << >>), TreeNode(2, 651, << >>), TreeNode(3, 610, << >>),
    TreeNode(4, 311, <<Prop(ref, <<0>>)>>)>>
ToPath ==
  <<TreeNode(0, 0, << >>),
    TreeNode(1, 651, <<Prop(target_path, << >>)>>), TreeNode(2, 610, << >>),
    TreeNode(3, 330, <<Prop(phandle, <<1>>), Prop(label_of, <<66>>)>> \o Refs(31, 311)),
    TreeNode(1, 652, <<Prop(target_path, <<120>>)>>), TreeNode(2, 610, <<Prop(53, <<9>>)>>),
    TreeNode(3, 341, <<Prop(label_of, <<67>>)>> \o Refs(1, 330)),
    TreeNode(1, symbols_node, <<Prop(66, <<651, 610, 330>>), Prop(67, <<652, 610, 341>>)>>),
    TreeNode(1, fixups_node, <<Prop(64, <<3, 651, 610, 330, ref, 0>>)>>),
    TreeNode(1, local_fixups_node, << >>), TreeNode(2, 652, << >>), TreeNode(3, 610, << >>),
    TreeNode(4, 341, <<Prop(ref, <<0>>)>>)>>
SymbolOnly ==
  <<TreeNode(0, 0, << >>), TreeNode(1, 651, <<Prop(target_path, <<110>>)>>), TreeNode(2, 610, << >>),
    TreeNode(3, 345, <<Prop(label_of, <<68>>)>>), TreeNode(1, symbols_node, <<Prop(68, <<651, 610, 345>>)>>)>>
NoTarget == <<TreeNode(0, 0, << >>), TreeNode(1, 651, << >>), TreeNode(2, 610, << >>)>>
HighPhandle == <<TreeNode(0, 0, << >>), TreeNode(1, 651, <<Prop(target, <<29>>)>>), TreeNode(2, 610, <<Prop(phandle, <<28>>)>>)>>
Fixed(p, offsets) ==
  <<TreeNode(0, 0, << >>), TreeNode(1, 651, <<Prop(target_path, <<110>>)>>), TreeNode(2, 610, << >>),
    TreeNode(3, 346, Refs(1, 346) \o <<Prop(phandle, <<1>>)>>),
    TreeNode(1, local_fixups_node, << >>), TreeNode(2, 651, << >>), TreeNode(3, 610, << >>),
    TreeNode(4, 346, <<Prop(p, offsets)>>)>>
MCOvBases == {Compiled(t, s) : t \in {OvBase(TRUE), OvBase(FALSE), OvBare}, s \in {90, 120, 200}}
MCOvOverlays == {Compiled(t, 200) : t \in {ToPhandle, ToPath, SymbolOnly, NoTarget, HighPhandle,
                                           Fixed(ref, <<1>>), Fixed(ref, <<31>>), Fixed(label_of, << >>)}}

(* FdtParse: CPUs, timers, UARTs behind buses, IMSICs and APLICs. *)
CpuNode(d, name, id, props, ph) ==
  <<TreeNode(d, name, <<Prop(device_type, <<cpu>>), Prop(reg, id)>> \o props),
    TreeNode(d + 1, 119, <<Prop(phandle, <<ph>>), Prop(mbox_cells, <<1>>)>>)>>
CpusNode(isa, second) ==
  <<TreeNode(1, cpus, <<Prop(address_cells, <<1>>), Prop(size_cells, <<0>>)>>)>>
  \o CpuNode(2, 110, <<1>>, isa, 1) \o CpuNode(2, 111, <<0, 2>>, second, 2)
  \o CpuNode(2, 112, <<3>>, <<Prop(status, <<disabled, disabled, disabled>>)>>, 3)
SocNode(rng, nodes) ==
  <<TreeNode(1, 120, <<Prop(phandle, <<9>>), Prop(mbox_cells, <<2>>), Prop(ranges, rng),
                       Prop(address_cells, <<2>>), Prop(size_cells, <<1>>)>>)>> \o nodes
DevNode(name, compat, props) == TreeNode(2, name, <<Prop(compatible, <<compat>>)>> \o props)
ImsicNode(name, ph, irq, regs, extra) ==
  DevNode(name, 303, <<Prop(phandle, <<ph>>), Prop(reg, regs), Prop(num_ids, <<3>>),
                   Prop(interrupts_extended, <<1, irq, 2, irq, 3, irq>>)>> \o extra)
AplicNode(kids, del) ==
  DevNode(123, 304, <<Prop(reg, <<0, 4, 2>>), Prop(msi_parent, <<4>>), Prop(children, kids), Prop(delegation, del)>>)
KidNode(ph, msi) == DevNode(124, 304, <<Prop(phandle, <<ph>>), Prop(reg, <<0, 6, 2>>), Prop(msi_parent, msi)>>)
TimerNode(compat, w) ==
  DevNode(125, compat, <<Prop(reg, <<1, 0, 2, 1, 2, 2>>), Prop(reg_names, <<mtime, mtimecmp>>)>> \o w)
AtRoot(nodes) == <<TreeNode(0, 0, << >>)>> \o nodes
FirstIsa == {<<Prop(isa_extensions, <<81, 83>>)>>, <<Prop(riscv_isa, <<1, 6, 4, 82, 81>>)>>}
SecondIsa == {<<Prop(riscv_isa, <<1, 3, 2, 82>>)>>, <<Prop(riscv_isa, <<0, 3, 2, 82>>)>>}
FarRanges == <<1, 0, 4, 0, 7>>
TimerWires == {<<Prop(interrupts_extended, <<1, 7, 1, 3, 2, 7, 2, 3>>)>>, << >>,
               <<Prop(interrupts_extended, <<2, 7, 3, 7, 9, 7, 2, 3>>)>>, <<Prop(interrupts_extended, <<1, 7, 3, 7>>)>>}
BusNode(cells, rng, r) ==
  <<TreeNode(2, 128, <<Prop(ranges, rng), Prop(address_cells, <<cells>>), Prop(size_cells, <<1>>)>>),
    TreeNode(3, 126, <<Prop(compatible, <<302>>), Prop(reg, r)>>)>>
MCFpTrees ==
  {AtRoot(CpusNode(isa, second)) : isa \in FirstIsa, second \in SecondIsa}
  \cup {AtRoot(CpusNode(<< >>, << >>) \o SocNode(FarRanges, <<TimerNode(c, w)>>)) : c \in 305 .. 308, w \in TimerWires}
  \cup {AtRoot(SocNode(rng, <<DevNode(126, c, <<Prop(reg, r), Prop(mboxes, <<9, 5, 6, 8, 1, 9, 3, 4>>)>>),
                        TreeNode(2, 127, <<Prop(phandle, <<8>>), Prop(mbox_cells, <<1>>)>>)>>)) :
          rng \in {<< >>, FarRanges, FarRanges \o <<2, 0, 6, 0, 7>>}, c \in {301, 302}, r \in {<<1, 1, 3>>, <<2, 1, 3>>}}
  \cup {AtRoot(SocNode(FarRanges, b)) :
          b \in {BusNode(2, <<0, 1, 1, 2, 5>>, <<0, 2, 1>>), BusNode(1, <<1, 1, 2, 5>>, <<2, 1>>)}}
  \cup {AtRoot(SocNode(<< >>, <<ImsicNode(121, 4, 11, r, x), ImsicNode(122, 5, 9, <<2, 0, 12>>, << >>),
                        AplicNode(<<6>>, << >>), KidNode(6, <<5>>)>>)) :
          r \in {<<4, 0, 12>>, <<6, 0, 4, 6, 4, 8>>, <<4, 0, 4, 6, 0, 8>>}, x \in {<< >>, <<Prop(group_index_bits, <<1>>)>>}}
  \cup {AtRoot(SocNode(<< >>, <<ImsicNode(121, 4, 11, <<4, 0, 12>>, << >>), AplicNode(kids, del),
                        KidNode(6, << >>), KidNode(7, << >>)>>)) :
          kids \in {<<6>>, <<6, 7>>}, del \in {<<7, 1, 2, 6, 3, 4>>, <<6, 1, 1, 7, 2, 2, 6, 3, 3>>}}

(* FdtFixup: trees with and without memory nodes; four domains, one with    *)
(* more regions than there is room for, one with more than PMP entries.     *)
FxCpu(name, id, ph, props) ==
  <<TreeNode(2, name, <<Prop(device_type, <<cpu>>), Prop(reg, <<id>>)>> \o props),
    TreeNode(3, 119, <<Prop(phandle, <<ph>>)>>)>>
FxMmu == <<Prop(mmu_type, <<90>>)>>
FxStatus(w) == <<Prop(status, w)>>
FxCpus(a, b) ==
  <<TreeNode(1, cpus, <<Prop(address_cells, <<1>>), Prop(size_cells, <<0>>)>>)>>
  \o FxCpu(110, 1, 1, FxMmu \o <<Prop(opensbi_domain, <<9>>)>>) \o FxCpu(111, 2, 2, a) \o FxCpu(112, 3, 3, b)
FxChosen ==
  <<TreeNode(1, chosen, << >>),
    TreeNode(2, 141, <<Prop(compatible, <<opensbi_config>>)>>),
    TreeNode(2, 142, <<Prop(compatible, <<domain_config>>)>>),
    TreeNode(3, 143, <<Prop(compatible, <<domain_memregion>>), Prop(phandle, <<5>>), Prop(devices_prop, <<7, 8>>)>>),
    TreeNode(3, 144, <<Prop(compatible, <<domain_memregion>>), Prop(phandle, <<6>>)>>),
    TreeNode(3, 145, <<Prop(compatible, <<domain_instance>>), Prop(phandle, <<9>>), Prop(regions_prop, <<6, 7, 5, 64>>)>>)>>
FxDevices(plics) ==
  <<TreeNode(1, 151, <<Prop(compatible, <<plics>>), Prop(reg, <<0, 4, 2>>), Prop(phandle, <<7>>),
                       Prop(interrupts_extended, <<1, 11, 1, 9, 2, 9, 2, 11>>)>>),
    TreeNode(1, 152, <<Prop(compatible, <<imsics>>), Prop(reg, <<1, 0, 2>>), Prop(phandle, <<8>>)>>),
    TreeNode(1, 153, <<Prop(compatible, <<imsics>>), Prop(reg, <<1, 4, 2>>)>>),
    TreeNode(1, 154, <<Prop(compatible, <<aplic>>), Prop(reg, <<2, 0, 2>>)>>),
    TreeNode(1, 155, <<Prop(compatible, <<pmu>>), Prop(event_map, <<1, 2>>), Prop(event_map3, <<3>>),
                       Prop(interrupts_extended, <<1, 13>>)>>)>>
FxResv == <<TreeNode(1, reserved_memory, <<Prop(ranges, << >>)>>), TreeNode(2, 160, <<Prop(reg, <<3, 3, 1>>)>>)>>
FxRoot(props, nodes) == <<TreeNode(0, 0, props)>> \o nodes
MCFxTrees ==
  {FxRoot(<< >>, FxCpus(a, b) \o FxChosen \o FxDevices(plic)) :
     a \in {FxMmu \o FxStatus(<<okay, okay>>)}, b \in {<< >>, FxMmu \o FxStatus(Disabled3)}}
  \cup {FxRoot(<<Prop(address_cells, <<2>>), Prop(size_cells, <<2>>)>>, FxDevices(plic0) \o FxCpus(FxMmu, FxMmu) \o r \o FxChosen) :
     r \in {<< >>, FxResv}}
FxMem(base, order, mmio, su) == [base |-> base, order |-> order, mmio |-> mmio, su |-> su]
MCFxDomains ==
  {[index |-> 0, name |-> 140, harts |-> {1, 2, 3}, open |-> {4, 12, 16},
    regions |-> <<FxMem(32, 2, FALSE, FALSE), FxMem(16, 1, TRUE, FALSE), FxMem(0, 6, FALSE, TRUE)>>],
   [index |-> 1, name |-> 145, harts |-> {1, 3}, open |-> {8},
    regions |-> <<FxMem(32, 1, FALSE, FALSE), FxMem(32, 2, FALSE, FALSE), FxMem(20, 2, FALSE, FALSE), FxMem(0, 6, FALSE, TRUE)>>],
   [index |-> 1, name |-> 145, harts |-> {2}, open |-> {},
    regions |-> [i \in 1 .. 5 |-> FxMem(3 * i, 1, FALSE, FALSE)]],
   [index |-> 0, name |-> 140, harts |-> {}, open |-> {},
    regions |-> [i \in 1 .. 17 |-> FxMem(3 * i, 1, FALSE, FALSE)]]}
MCFxIdle == <<[name |-> 131, stop |-> TRUE, wakeup |-> 0], [name |-> 132, stop |-> FALSE, wakeup |-> 3]>>
-------------------------------------------------------------------------------
(* A part at rest has one state, in which its invariants have nothing to    *)
(* say: no trap is taken, no blob is finished, no call has been made.       *)
TrapRest ==
  /\ tr_env = CHOOSE e \in TrapEnvs : TRUE
  /\ tr_m = Code("S", FALSE, FALSE, FALSE, FALSE) /\ tr_mem = (0 :> 0) /\ tr_bad = {} /\ tr_next = Cause("none", 0, NoIns)
  /\ tr_s = TrapCsrs /\ tr_vs = TrapCsrs /\ tr_h = TrapCsrs
  /\ tr_stack = << >> /\ tr_ctx = 0 /\ tr_did = << >> /\ tr_old = [m |-> tr_m, mem |-> tr_mem, trap |-> tr_next]
VxRest ==
  /\ vx_in = CHOOSE x \in VxInputs : ~x.insn.store
  /\ vx_reg = << >> /\ vx_mem = << >> /\ vx_el = 0 /\ vx_vl = 0 /\ vx_csr = << >> /\ vx_pc = "rest"
FdtRest ==
  /\ fdt = Create(Max(FdtSizes)) /\ tree = << >> /\ open = 0 /\ balanced = TRUE /\ orderly = TRUE
  /\ fdt_calls = 0 /\ fdt_ret = 0
OvRest == ov_base = Create(Max(FdtSizes)) /\ ov_last = ov_base /\ ov_ret = 0 /\ ov_left = {}
FpRest == fp_tree = << >> /\ fp_blob = << >> /\ fp_out = [call |-> "none"] /\ fp_isa = FALSE /\ fp_exts = << >>
FxRest == /\ fx_tree = << >> /\ fx_blob = << >> /\ fx_dom = << >> /\ fx_list = << >> /\ fx_step = "boot"

AlgInit ==
  /\ part \in {"trap", "vector", "fdt", "overlay", "parse", "fixup"}
  /\ IF part = "trap" THEN TRUE ELSE TrapRest
  /\ IF part = "vector" THEN TRUE ELSE VxRest
  /\ IF part = "fdt" THEN TRUE ELSE FdtRest
  /\ IF part = "overlay" THEN TRUE ELSE OvRest
  /\ IF part = "parse" THEN TRUE ELSE FpRest
  /\ IF part = "fixup" THEN TRUE ELSE FxRest
  /\ CASE part = "trap" -> TrapInit
       [] part = "vector" -> VxInit
       [] part = "fdt" -> FdtInit
       [] part = "overlay" -> OvInit
       [] part = "parse" -> FpInit
       [] part = "fixup" -> FxInit

AlgNext ==
  /\ UNCHANGED part
  /\ \/ /\ part = "trap" /\ TrapNext
        /\ UNCHANGED <<vx_vars, fdt_vars, ov_vars, fp_vars, fx_vars>>
     \/ /\ part = "vector" /\ VxNext
        /\ UNCHANGED <<tr_vars, fdt_vars, ov_vars, fp_vars, fx_vars>>
     \/ /\ part = "fdt" /\ FdtNext
        /\ UNCHANGED <<tr_vars, vx_vars, ov_vars, fp_vars, fx_vars>>
     \/ /\ part = "overlay" /\ OvNext
        /\ UNCHANGED <<tr_vars, vx_vars, fdt_vars, fp_vars, fx_vars>>
     \/ /\ part = "parse" /\ FpNext
        /\ UNCHANGED <<tr_vars, vx_vars, fdt_vars, ov_vars, fx_vars>>
     \/ /\ part = "fixup" /\ FxNext
        /\ UNCHANGED <<tr_vars, vx_vars, fdt_vars, ov_vars, fp_vars>>

AlgSpec == AlgInit /\ [][AlgNext]_alg_vars

\* An instruction that the firmware emulates has the effect it has on a machine that
\* implements it, on registers, memory and CSRs; or it faults at the byte that is to
\* blame and has no effect.
EmulationExact == TrapEmulationExact /\ TrapFaultPrecise /\ TrapCsrExact /\ VxExact

\* An edit of a tree touches nothing but what it edits: a call of libfdt that fails
\* leaves the blob as it was, and an overlay keeps what it does not name.
EditKeeps == FdtFailureHarmless /\ OvBaseKept
===============================================================================
