------------------------------- MODULE VecLdst -------------------------------
(***************************************************************************)
(* Misaligned vector loads and stores, emulated element by element:        *)
(* lib/sbi/sbi_trap_v_ldst.c with the decoding of riscv_encoding.h.        *)
(*                                                                         *)
(* An instruction is its fields: store, mop, lumop, width, nf, masked, vd, *)
(* vs2, mew and the values of rs1 and rs2.  The vector unit is vlenb,      *)
(* vsew, vlmul, vl and vstart and the registers, a sequence of two-bit     *)
(* bytes; "wide" says that vlenb is more than VLEN_MAX / 8, "support" that *)
(* the build has the emulators at all.  The emulators fetch the            *)
(* instruction again; that this finds the one that trapped is assumed.     *)
(* A register group has at most VxGroup registers.                         *)
(***************************************************************************)
EXTENDS Integers, Sequences, FiniteSets, SequencesExt

CONSTANTS
  VxInputs,  \* what may trap: [insn, vl, vstart, vsew, vlmul, wide, support, bad: addresses that fault]
  VxLenb,    \* bytes of a register
  VxRegs,    \* number of registers
  VxGroup    \* registers of the largest group

VARIABLES
  vx_in,     \* the instruction and the vector unit when it trapped
  vx_reg,    \* the registers' bytes, from byte 0 of v0
  vx_mem,    \* memory
  vx_el,     \* vstart, the element at hand
  vx_vl,     \* vl, as the emulator knows it
  vx_csr,    \* the CSRs vl and vstart, as the trapped code finds them
  vx_pc      \* start, run, and then done, trapped, illegal or again
vx_vars == <<vx_in, vx_reg, vx_mem, vx_el, vx_vl, vx_csr, vx_pc>>

I == vx_in.insn

\* IS_UNIT_STRIDE_LOAD() and IS_UNIT_STRIDE_STORE(): 16 bits and more.
UnitStride(i) == i.mop = 0 /\ i.lumop = 0 /\ i.width \in 5 .. 7

\* IS_FAULT_ONLY_FIRST_LOAD()
FaultOnlyFirst(i) == ~i.store /\ i.mop = 0 /\ i.lumop = 16 /\ i.width \in 5 .. 7

\* IS_WHOLE_REG_LOAD() and IS_WHOLE_REG_STORE()
WholeReg(i) == i.mop = 0 /\ i.lumop = 8 /\ ~i.masked /\ i.nf \in {1, 2, 4, 8}

\* IS_INDEXED_LOAD() and IS_INDEXED_STORE(): indices of 16 bits and more.
Indexed(i) == i.mop \in {1, 3} /\ i.width \in 5 .. 7

\* GET_VIEW(), GET_LEN(), GET_EMUL() and GET_VEMUL()
View(i) == i.width % 4
Emul(vemul) == IF vemul >= 4 THEN 1 ELSE 2 ^ vemul

\* What the emulators settle before the loop: bytes and fields of an element, registers of a
\* field, the distance of elements, and how many there are.
Shape ==
  LET len == 2 ^ View(I)
      vemul == (vx_in.vlmul + View(I) - vx_in.vsew) % 8
      sew == 2 ^ vx_in.vsew
  IN  IF UnitStride(I) \/ FaultOnlyFirst(I)
      THEN [len |-> len, nf |-> I.nf, emul |-> Emul(vemul), stride |-> I.nf * len, vl |-> vx_in.vl]
      ELSE IF WholeReg(I) THEN [len |-> len, nf |-> 1, emul |-> 1, stride |-> len, vl |-> (I.nf * VxLenb) \div len]
      ELSE IF Indexed(I)
      THEN [len |-> sew, nf |-> I.nf, emul |-> Emul(vx_in.vlmul), stride |-> I.nf * sew, vl |-> vx_in.vl]
      ELSE [len |-> len, nf |-> I.nf, emul |-> Emul(vemul), stride |-> I.rs2, vl |-> vx_in.vl]

\* Where set_vreg() and get_vreg() touch: the place in the group the register is in; behind
\* its end the hardware stops.
Place(which, pos) == (which % VxGroup) * VxLenb + pos
InGroup(which, pos) == Place(which, pos) < VxGroup * VxLenb
ByteAt(which, pos) == (which \div VxGroup) * VxGroup * VxLenb + Place(which, pos) + 1

\* set_vreg()
SetVreg(reg, which, pos, bytes) ==
  [b \in DOMAIN reg |->
     LET at == {k \in DOMAIN bytes : InGroup(which, pos + k - 1) /\ ByteAt(which, pos + k - 1) = b}
     IN  IF at = {} THEN reg[b] ELSE bytes[CHOOSE k \in at : TRUE]]

\* get_vreg()
GetVreg(reg, which, pos, size) == [k \in 1 .. size |-> reg[ByteAt(which, pos + k - 1)]]

Little(bytes) == FoldRight(LAMBDA b, n : b + 4 * n, bytes, 0)

\* Bug: the mask is not consulted.
ActiveAll(el) == TRUE

\* mask[vstart / 8] >> (vstart % 8): two elements to a byte here.
Active(el) == I.masked => (GetVreg(vx_reg, 0, 0, VxLenb)[el \div 2 + 1] \div 2 ^ (el % 2)) % 2 = 1

\* Bug: the index is not scaled to its width.
AddrUnscaled(el) == IF Indexed(I) THEN I.rs1 + Little(GetVreg(vx_reg, I.vs2, el, 2 ^ View(I))) ELSE I.rs1 + el * Shape.stride

\* The address of an element.
Addr(el) == IF Indexed(I) THEN I.rs1 + Little(GetVreg(vx_reg, I.vs2, el * 2 ^ View(I), 2 ^ View(I)))
            ELSE I.rs1 + el * Shape.stride

Bytes(el) == {Addr(el) + k : k \in 0 .. (Shape.nf * Shape.len - 1)}
Faults(el) == Bytes(el) \cap vx_in.bad # {}

-----------------------------------------------------------------------------
VxInit ==
  /\ vx_in \in VxInputs
  /\ vx_reg = [b \in 1 .. (VxRegs * VxLenb) |-> vx_in.fill[((b - 1) % Len(vx_in.fill)) + 1]]
  /\ vx_mem = [a \in 0 .. 40 |-> (a * 3 + 1) % 4]
  /\ vx_el = vx_in.vstart
  /\ vx_vl = Shape.vl
  /\ vx_csr = [vl |-> vx_in.vl, vstart |-> vx_in.vstart]
  /\ vx_pc = "start"

\* The stubs of a build without vector support return 0, which leaves the instruction to be
\* tried again; the emulators redirect what they cannot handle as an illegal instruction.
VxStart ==
  /\ vx_pc = "start"
  /\ vx_pc' = IF ~vx_in.support THEN "again" ELSE IF I.mew \/ vx_in.wide THEN "illegal" ELSE "run"
  /\ UNCHANGED <<vx_in, vx_reg, vx_mem, vx_el, vx_vl, vx_csr>>

\* vsetvl(): at most VLMAX; like every vector instruction it clears vstart.
Vsetvl(vl) ==
  LET lmul == IF vx_in.vlmul >= 4 THEN vx_in.vlmul - 8 ELSE vx_in.vlmul
      vlmax == IF lmul < 0 THEN VxLenb \div 2 ^ (vx_in.vsew - lmul) ELSE (VxLenb * 2 ^ lmul) \div 2 ^ vx_in.vsew
  IN  vx_csr' = [vl |-> IF vl < vlmax THEN vl ELSE vlmax, vstart |-> 0]

\* Bug: vl is not put back when the loop ends.
AdvanceShort(vl) ==
  /\ vx_vl' = vl
  /\ vx_el' = vx_el + 1
  /\ IF vx_el + 1 < vl THEN vx_pc' = "run" /\ UNCHANGED vx_csr ELSE vx_pc' = "done" /\ Vsetvl(1)

\* The loop ends, and vsetvl() puts vl and vtype back: the vl of the emulator.
Advance(vl) ==
  /\ vx_vl' = vl
  /\ vx_el' = vx_el + 1
  /\ IF vx_el + 1 < vl THEN vx_pc' = "run" /\ UNCHANGED vx_csr ELSE vx_pc' = "done" /\ Vsetvl(vl)

\* Bug: every field goes to the first register.
FieldRegFirst(seg) == I.vd

\* vd + seg * emul
FieldReg(seg) == I.vd + seg * Shape.emul

Field(bytes, seg) == SubSeq(bytes, seg * Shape.len + 1, (seg + 1) * Shape.len)

\* The loaded bytes written to the registers, field by field.
Written(bytes) ==
  FoldLeft(LAMBDA reg, seg : SetVreg(reg, FieldReg(seg), vx_el * Shape.len, Field(bytes, seg)),
           vx_reg, [s \in 1 .. Shape.nf |-> s - 1])

\* An element the mask leaves out.
SkipElement ==
  /\ vx_pc = "run" /\ ~Active(vx_el)
  /\ Advance(vx_vl)
  /\ UNCHANGED <<vx_in, vx_reg, vx_mem>>

\* sbi_misaligned_v_ld_emulator(): one element.  A byte of a fault-only-first load that faults
\* behind element 0 shortens vl; what was loaded of the element is written all the same.
LoadElement ==
  /\ vx_pc = "run" /\ ~I.store /\ Active(vx_el)
  /\ ~Faults(vx_el) \/ (FaultOnlyFirst(I) /\ vx_el # 0)
  /\ LET size == Shape.nf * Shape.len
         bytes == [k \in 1 .. size |-> IF Addr(vx_el) + k - 1 \in vx_in.bad THEN 0 ELSE vx_mem[Addr(vx_el) + k - 1]]
     IN  vx_reg' = Written(bytes)
  /\ Advance(IF Faults(vx_el) THEN vx_el ELSE vx_vl)
  /\ UNCHANGED <<vx_in, vx_mem>>

\* The bytes of an element's fields, from the registers.
Stored(el) == FlattenSeq([s \in 1 .. Shape.nf |-> GetVreg(vx_reg, FieldReg(s - 1), el * Shape.len, Shape.len)])

\* sbi_store_u8() of the bytes before the first one that faults.
StoredUpTo(el) ==
  LET bad == {k \in 1 .. (Shape.nf * Shape.len) : Addr(el) + k - 1 \in vx_in.bad}
      n == IF bad = {} THEN Shape.nf * Shape.len ELSE (CHOOSE k \in bad : \A j \in bad : k <= j) - 1
  IN  [a \in DOMAIN vx_mem |-> IF a \in Addr(el) .. (Addr(el) + n - 1) THEN Stored(el)[a - Addr(el) + 1] ELSE vx_mem[a]]

\* sbi_misaligned_v_st_emulator(): one element.
StoreElement ==
  /\ vx_pc = "run" /\ I.store /\ Active(vx_el) /\ ~Faults(vx_el)
  /\ vx_mem' = StoredUpTo(vx_el)
  /\ Advance(vx_vl)
  /\ UNCHANGED <<vx_in, vx_reg>>

\* A fault that is the caller's: vsetvl() first, which loses vstart, then the trap.
FaultElement ==
  /\ vx_pc = "run" /\ Active(vx_el) /\ Faults(vx_el)
  /\ ~(FaultOnlyFirst(I) /\ vx_el # 0)
  /\ vx_mem' = IF I.store THEN StoredUpTo(vx_el) ELSE vx_mem
  /\ vx_pc' = "trapped" /\ Vsetvl(vx_vl)
  /\ UNCHANGED <<vx_in, vx_reg, vx_el, vx_vl>>

VxNext == VxStart \/ SkipElement \/ LoadElement \/ StoreElement \/ FaultElement

-----------------------------------------------------------------------------
\* The architecture: the byte of the register file that holds byte k of a field of an element,
\* and the memory byte it corresponds to.
Fill == [b \in 1 .. (VxRegs * VxLenb) |-> vx_in.fill[((b - 1) % Len(vx_in.fill)) + 1]]
RegByte(el, seg, k) ==
  (I.vd + seg * (IF WholeReg(I) THEN 0
                 ELSE LET lmul == vx_in.vlmul + (IF Indexed(I) THEN 0 ELSE View(I) - vx_in.vsew)
                      IN  IF lmul \in 0 .. 3 THEN 2 ^ lmul ELSE 1)) * VxLenb + el * Shape.len + k + 1
IndexAt(el) == LET w == 2 ^ View(I) IN Little([k \in 1 .. w |-> Fill[I.vs2 * VxLenb + el * w + k]])
MemByte(el, seg, k) ==
  I.rs1 + seg * Shape.len + k +
    (CASE Indexed(I) -> IndexAt(el)
       [] I.mop = 2 -> el * I.rs2
       [] OTHER -> el * (IF WholeReg(I) THEN 1 ELSE I.nf) * Shape.len)
Elements == {el \in vx_in.vstart .. (vx_vl - 1) : I.masked => (Fill[el \div 2 + 1] \div 2 ^ (el % 2)) % 2 = 1}
Parts == (0 .. (Shape.nf - 1)) \X (0 .. (Shape.len - 1))
Before == {el \in Elements : el < vx_el}

(***************************************************************************)
(* A load leaves the registers as the instruction would have: every byte   *)
(* of every field of an active element done so far is the memory's, in the *)
(* register group of its field, and no byte that belongs to no element     *)
(* changes; a fault-only-first load stops before the element that faulted. *)
(***************************************************************************)
VxLoadExact ==
  (vx_pc \in {"run", "done", "trapped"} /\ ~I.store) =>
    /\ \A el \in Before, p \in Parts : vx_reg[RegByte(el, p[1], p[2])] = vx_mem[MemByte(el, p[1], p[2])]
    /\ LET touched == {RegByte(el, p[1], p[2]) : el \in vx_in.vstart .. vx_el, p \in Parts}
       IN  \A b \in DOMAIN vx_reg \ touched : vx_reg[b] = Fill[b]
    /\ vx_pc = "done" => \A el \in Elements, p \in Parts : MemByte(el, p[1], p[2]) \notin vx_in.bad

(***************************************************************************)
(* A store leaves memory as the instruction would have, the last element   *)
(* winning where two overlap; at a fault only bytes of that element and of *)
(* those before it have been written, so that running it again is safe.    *)
(***************************************************************************)
VxStoreExact ==
  I.store =>
    LET upto == {el \in Elements : el < vx_el \/ (vx_pc = "trapped" /\ el = vx_el)}
        Writers(a) == {el \in upto : \E p \in Parts : MemByte(el, p[1], p[2]) = a}
        Done(a) == {el \in Writers(a) : el < vx_el}
        Value(el, a) == LET p == CHOOSE p \in Parts : MemByte(el, p[1], p[2]) = a IN Fill[RegByte(el, p[1], p[2])]
    IN  \A a \in DOMAIN vx_mem :
          /\ Writers(a) = {} => vx_mem[a] = (a * 3 + 1) % 4
          /\ (Done(a) # {} /\ Done(a) = Writers(a)) => vx_mem[a] = Value(CHOOSE e \in Done(a) : \A d \in Done(a) : d <= e, a)
          /\ a \in vx_in.bad => vx_mem[a] = (a * 3 + 1) % 4

(***************************************************************************)
(* The caller is interrupted by a fault only where the instruction has one *)
(* to report: an active element with a faulting byte, the first element    *)
(* for a fault-only-first load.                                            *)
(***************************************************************************)
VxFaultDue ==
  vx_pc = "trapped" =>
    /\ vx_el \in Elements /\ \E p \in Parts : MemByte(vx_el, p[1], p[2]) \in vx_in.bad
    /\ \A el \in Before, p \in Parts : MemByte(el, p[1], p[2]) \notin vx_in.bad
    /\ (I.lumop = 16 /\ I.mop = 0) => vx_el = 0

(***************************************************************************)
(* The trapped code finds vl as it was, or as a fault-only-first load      *)
(* leaves it.  At a fault vstart is not behind the element that faulted,   *)
(* so that none is skipped when the access is run again: it is 0, the      *)
(* elements done are done again.  What is not emulated changes nothing.    *)
(* One case is left out: a whole-register access leaves in vl the number   *)
(* of its own elements.                                                    *)
(***************************************************************************)
VxCsrsKept ==
  /\ vx_pc = "done" => vx_csr.vstart = 0
  /\ vx_pc = "trapped" => vx_csr.vstart <= vx_el
  /\ vx_pc \in {"done", "trapped"} /\ ~WholeReg(I) =>
       vx_csr.vl = IF ~I.store /\ I.mop = 0 /\ I.lumop = 16 /\ vx_pc = "done" THEN vx_vl ELSE vx_in.vl
  /\ vx_pc \in {"illegal", "again"} =>
       vx_csr = [vl |-> vx_in.vl, vstart |-> vx_in.vstart] /\ vx_reg = Fill /\ vx_el = vx_in.vstart

\* A vector access, done element by element by the handler, moves what one access
\* would have moved, up to the first element that must fault; vl after a whole-register
\* access is excepted, see VxCsrsKept.
VxExact == VxLoadExact /\ VxStoreExact /\ VxFaultDue /\ VxCsrsKept
=============================================================================
