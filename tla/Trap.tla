---------------------------------- MODULE Trap ---------------------------------
(***************************************************************************)
(* Trap handling on one hart: entry and exit (firmware/fw_base.S), dispatch *)
(* and redirection to S-mode (sbi_trap.c), emulation of misaligned and      *)
(* faulting loads and stores byte by byte (sbi_trap_ldst.c, sbi_unpriv.c),  *)
(* of CSR accesses (sbi_illegal_insn.c, sbi_emulate_csr.c), double traps.   *)
(* A trap may hit the firmware itself while it serves another one: frames   *)
(* nest on the exception stack.  The firmware counters that are bumped and  *)
(* the SSE events delivered on the way out belong to Pmu and Sse.           *)
(*                                                                         *)
(* tr_m     the running code: mode, virt, pc, ELP, fields of sstatus, x     *)
(*          and f registers, htimedelta                                     *)
(* tr_s, tr_vs, tr_h   S-mode, VS-mode and hypervisor trap CSRs             *)
(* tr_mem, tr_bad      memory, and the addresses that fault                 *)
(* tr_env   the hart and platform: see TrapEnvs in MCTraps                  *)
(* tr_next  the trap about to happen                                        *)
(* tr_stack frames on the exception stack, the running handler's last       *)
(* tr_ctx   scratch->trap_context (number of a frame, 0 for NULL)           *)
(* tr_old   history: the hart when the first trap was taken                 *)
(* tr_did   history: what was done with each frame's trap, oldest first     *)
(***************************************************************************)
EXTENDS SbiDefs, FiniteSetsExt, Sequences, TLC, Bitwise

CONSTANTS ByteVals,    \* number of values of a byte
          TrapEnvs,    \* harts and platforms
          TrapInputs,  \* code that traps: [m, mem, bad, trap]
          FwTraps      \* traps of the firmware while it serves an ecall

VARIABLES tr_m, tr_s, tr_vs, tr_h, tr_mem, tr_bad, tr_env, tr_next, tr_stack, tr_ctx, tr_old, tr_did

tr_vars == <<tr_m, tr_s, tr_vs, tr_h, tr_mem, tr_bad, tr_env, tr_next, tr_stack, tr_ctx, tr_old, tr_did>>
tr_csrs == <<tr_s, tr_vs, tr_h>>
tr_fixed == <<tr_bad, tr_env, tr_old>>

\* __riscv_xlen / 8, and the values of so many bytes
XBytes == tr_env.xbytes
Power(n) == ByteVals ^ n

TrapCsrs == [epc |-> 0, cause |-> "none", tval |-> 0]
TrapInit ==
    /\ tr_env \in TrapEnvs
    /\ \E i \in TrapInputs : /\ (i.m.virt => tr_env.h) /\ (i.m.elp \/ i.m.spelp => tr_env.zicfilp)
                            /\ XBytes \in i.trap.ref.xlens
                            /\ tr_m = [i.m EXCEPT !.x = [r \in DOMAIN @ |-> @[r] % Power(XBytes)]]
                            /\ tr_mem = i.mem /\ tr_bad = i.bad /\ tr_next = i.trap
    /\ tr_s = TrapCsrs
    /\ tr_vs = TrapCsrs @@ [spp |-> FALSE, spie |-> FALSE, sie |-> tr_env.vsie, spelp |-> tr_m.spelp]
    /\ tr_h = [spv |-> FALSE, spvp |-> FALSE, gva |-> FALSE, tval2 |-> 0, tinst |-> 0, delta |-> tr_env.delta]
    /\ tr_stack = <<>> /\ tr_ctx = 0 /\ tr_did = <<>>
    /\ tr_old = [m |-> tr_m, mem |-> tr_mem, trap |-> tr_next]

Top == tr_stack[Len(tr_stack)]
SetTop(f) == tr_stack' = [tr_stack EXCEPT ![Len(tr_stack)] = f]
Handling(step) == tr_stack # <<>> /\ Top.step = step
-------------------------------------------------------------------------------
\* Bug: a trap of M-mode starts at the top of the stack again.
PushedOver(frame) == IF tr_stack = <<>> THEN <<frame>> ELSE <<frame, frame>>

(* _trap_handler: the registers go into a frame, on the scratch stack or,  *)
(* for a trap of M-mode, below the interrupted frames; then                *)
(* sbi_trap_handler() links its context.                                   *)
Pushed(frame) == Append(tr_stack, frame)

TrapEnter ==
    /\ tr_next.cause # "none" /\ (tr_stack # <<>> => Top.step = "ecall")
    /\ tr_stack' = Pushed([regs |-> tr_m, trap |-> tr_next, prev |-> tr_ctx, step |-> "dispatch",
                           insn |-> 0, len |-> 0, at |-> 0, bytes |-> <<>>])
    /\ tr_ctx' = Len(tr_stack) + 1
    /\ tr_m' = [tr_m EXCEPT !.mode = "M", !.virt = FALSE]
    /\ tr_next' = [tr_next EXCEPT !.cause = "none"]
    /\ UNCHANGED <<tr_csrs, tr_mem, tr_did, tr_fixed>>

\* Bug: no context is left when a nested trap returns.
ContextAfterNone(f) == 0

ContextAfter(f) == f.prev

(* The handler is done: rc = 0 and the frame's registers are restored, or  *)
(* sbi_trap_error() stops the hart.  Register 0 is not restored.           *)
TrapFinish(f, rc, how) ==
    /\ tr_did' = Append(tr_did, IF rc = SBI_OK THEN how ELSE "fatal")
    /\ IF rc = SBI_OK
       THEN /\ tr_m' = [f.regs EXCEPT !.x[0] = 0]
            /\ tr_stack' = SubSeq(tr_stack, 1, Len(tr_stack) - 1)
            /\ tr_ctx' = ContextAfter(f)
       ELSE SetTop([f EXCEPT !.step = "hang"]) /\ UNCHANGED <<tr_m, tr_ctx>>

\* Bug: the mode the trap comes from is not asked.
ToVirtAny(r, t) == tr_env.h /\ t.cause \in tr_env.hedeleg

(* sbi_trap_redirect(): where the trap goes, and the CSRs it leaves.  SPELP *)
(* is set when a landing pad was due, and not cleared when none was.        *)
ToVirt(r, t) == tr_env.h /\ r.virt /\ t.cause \in tr_env.hedeleg
NextElp(old, elp) == IF elp THEN TRUE ELSE old
VsEntered(r, t) ==
    [epc |-> r.pc, cause |-> t.cause, tval |-> t.tval,
     spp |-> r.mode = "S", spie |-> tr_vs.sie, sie |-> FALSE, spelp |-> NextElp(tr_vs.spelp, tr_env.zicfilp /\ r.elp)]

HEntered(r, t) ==
    [tr_h EXCEPT !.spv = r.virt, !.spvp = IF r.virt THEN r.mode = "S" ELSE @, !.gva = t.gva,
                 !.tval2 = t.tval2, !.tinst = t.tinst]
Redirected(r, t) ==
    LET virt == ToVirt(r, t)
        elp == tr_env.zicfilp /\ r.elp
        base == [r EXCEPT !.mode = "S", !.virt = virt, !.pc = IF virt THEN tr_env.vstvec ELSE tr_env.stvec,
                          !.elp = IF tr_env.zicfilp THEN FALSE ELSE @]
    IN IF virt THEN base
       ELSE [base EXCEPT !.spp = r.mode = "S", !.spie = r.sie, !.sie = FALSE, !.spelp = NextElp(@, elp)]

\* Bug: U-mode is forgotten.
RedirectableS(r) == r.mode = "S"

Redirectable(r) == r.mode \in {"S", "U"}

Redirect(f, t) ==
    IF ~Redirectable(f.regs)
    THEN TrapFinish(f, SBI_ENOTSUPP, "redirected") /\ UNCHANGED <<tr_csrs, tr_mem, tr_next, tr_fixed>>
    ELSE /\ TrapFinish([f EXCEPT !.regs = Redirected(f.regs, t)], SBI_OK, "redirected")
         /\ tr_h' = IF tr_env.h /\ ~ToVirt(f.regs, t) THEN HEntered(f.regs, t) ELSE tr_h
         /\ tr_vs' = IF ToVirt(f.regs, t) THEN VsEntered(f.regs, t) ELSE tr_vs
         /\ tr_s' = IF ToVirt(f.regs, t) THEN tr_s
                    ELSE [epc |-> f.regs.pc, cause |-> t.cause, tval |-> t.tval]
         /\ UNCHANGED <<tr_mem, tr_next, tr_fixed>>

TrapDone(f, rc, how) == TrapFinish(f, rc, how) /\ UNCHANGED <<tr_csrs, tr_mem, tr_next, tr_fixed>>
Continue(f) == SetTop(f) /\ UNCHANGED <<tr_m, tr_ctx, tr_did, tr_csrs, tr_mem, tr_next, tr_fixed>>
-------------------------------------------------------------------------------
(* sbi_trap_handler(): interrupts.  sbi_trap_nonaia_irq() serves the one   *)
(* named by mcause, sbi_trap_aia_irq() all that are pending (mtopi).       *)
IrqServed(irq) == \/ irq \in {"m_timer", "m_soft"}
                  \/ irq = "m_ext" /\ tr_env.irqchip
                  \/ irq = "pmu" /\ tr_env.pmuirq
TrapIrq ==
    /\ Handling("dispatch") /\ Top.trap.cause = "irq"
    /\ LET irqs == IF tr_env.aia THEN Top.trap.pending ELSE {Top.trap.irq}
       IN TrapDone(Top, IF \A i \in irqs : IrqServed(i) THEN SBI_OK ELSE SBI_ENOENT, "handled")

(* The exceptions without a handler of their own are S-mode's. *)
EmulatedCauses == {"misaligned_load", "misaligned_store", "load_access", "store_access"}
HandledCauses == EmulatedCauses \cup {"irq", "illegal", "ecall_s", "ecall_m", "double"}
TrapOther == /\ Handling("dispatch") /\ Top.trap.cause \notin HandledCauses
             /\ Redirect(Top, Top.trap)

(* sbi_double_trap_handler(); the SSE event may be refused (module Sse) *)
TrapDouble ==
    /\ Handling("dispatch") /\ Top.trap.cause = "double"
    /\ IF Top.regs.mode # "S" THEN TrapDone(Top, SBI_EINVAL, "handled")
       ELSE IF Top.regs.virt THEN Redirect(Top, Top.trap)
       ELSE TrapDone(Top, IF tr_env.sse THEN SBI_OK ELSE SBI_EINVALID_STATE, "handled")

(* sbi_ecall_handler() (module Ecall): an SBI call that answers. *)
TrapEcall ==
    /\ Handling("dispatch") /\ Top.trap.cause \in {"ecall_s", "ecall_m"}
    /\ Continue([Top EXCEPT !.step = "ecall"])

EcallDone ==
    /\ Handling("ecall") /\ tr_next.cause = "none"
    /\ TrapDone([Top EXCEPT !.regs.pc = @ + 4], SBI_OK, "handled")

(* ... while the firmware runs, an instruction of its own traps. *)
FwTrap(t) ==
    /\ Handling("ecall") /\ tr_next.cause = "none" /\ Len(tr_stack) = 1 /\ tr_did = <<>>
    /\ tr_next' = t
    /\ tr_m' = [tr_m EXCEPT !.pc = tr_env.fwpc]
    /\ UNCHANGED <<tr_csrs, tr_mem, tr_stack, tr_ctx, tr_did, tr_fixed>>
-------------------------------------------------------------------------------
(* Instruction fields, and the forms of load and store that are emulated:   *)
(* bytes, sign extension, register file and register.                       *)
InsnField(insn, lo, n) == (insn \div 2 ^ lo) % 2 ^ n
Is16Bit(insn) == insn % 4 # 3
InsnLen(insn) == IF Is16Bit(insn) THEN 2 ELSE 4
Form(len, sext, file, reg) == [len |-> len, sext |-> sext, file |-> file, reg |-> reg]
NoForm == Form(0, FALSE, "none", 0)
VectorForm == Form(0, FALSE, "v", 0)

RVC_RS2S(insn) == 8 + InsnField(insn, 2, 3)

LoadForm(insn) ==
    LET op == InsnField(insn, 0, 7)   f3 == InsnField(insn, 12, 3)   rd == InsnField(insn, 7, 5)
        q == insn % 4             c3 == InsnField(insn, 13, 3)   c6 == InsnField(insn, 10, 6)
        rv64 == XBytes = 8
    IN CASE op = 3 /\ f3 \in {0, 1, 2, 4, 5} -> Form(2 ^ (f3 % 4), f3 < 4, "x", rd)
         [] op = 3 /\ f3 \in {3, 6} /\ rv64 -> Form(2 ^ (f3 % 4), f3 < 4, "x", rd)
         [] op = 7 /\ f3 \in {2, 3} -> Form(2 ^ f3, FALSE, "f", rd)
         [] q = 0 /\ c3 = 3 /\ rv64 -> Form(8, TRUE, "x", RVC_RS2S(insn))
         [] q = 2 /\ c3 = 3 /\ rv64 /\ rd # 0 -> Form(8, TRUE, "x", rd)
         [] q = 0 /\ c3 = 2 -> Form(4, TRUE, "x", RVC_RS2S(insn))
         [] q = 2 /\ c3 = 2 /\ rd # 0 -> Form(4, TRUE, "x", rd)
         [] q = 0 /\ c3 = 1 -> Form(8, FALSE, "f", RVC_RS2S(insn))
         [] q = 2 /\ c3 = 1 -> Form(8, FALSE, "f", rd)
         [] q = 0 /\ c3 = 3 /\ ~rv64 -> Form(4, FALSE, "f", RVC_RS2S(insn))
         [] q = 2 /\ c3 = 3 /\ ~rv64 -> Form(4, FALSE, "f", rd)
         [] q = 0 /\ c6 = 33 -> Form(2, InsnField(insn, 6, 1) = 1, "x", RVC_RS2S(insn))
         [] op \in {7, 39} -> VectorForm
         [] OTHER -> NoForm

StoreForm(insn) ==
    LET op == InsnField(insn, 0, 7)   f3 == InsnField(insn, 12, 3)   rs2 == InsnField(insn, 20, 5)
        q == insn % 4             c3 == InsnField(insn, 13, 3)   rs2c == InsnField(insn, 2, 5)
        rv64 == XBytes = 8
    IN CASE op = 35 /\ f3 \in (IF rv64 THEN 0 .. 3 ELSE 0 .. 2) -> Form(2 ^ f3, FALSE, "x", rs2)
         [] op = 39 /\ f3 \in {2, 3} -> Form(2 ^ f3, FALSE, "f", rs2)
         [] q = 0 /\ c3 = 7 -> Form(XBytes, FALSE, IF rv64 THEN "x" ELSE "f", RVC_RS2S(insn))
         [] q = 2 /\ c3 = 7 -> Form(XBytes, FALSE, IF rv64 THEN "x" ELSE "f", rs2c)
         [] q = 0 /\ c3 = 6 -> Form(4, FALSE, "x", RVC_RS2S(insn))
         [] q = 2 /\ c3 = 6 -> Form(4, FALSE, "x", rs2c)
         [] q = 0 /\ c3 = 5 -> Form(8, FALSE, "f", RVC_RS2S(insn))
         [] q = 2 /\ c3 = 5 -> Form(8, FALSE, "f", rs2c)
         [] q = 0 /\ InsnField(insn, 10, 6) = 35 /\ InsnField(insn, 6, 1) = 0 -> Form(2, FALSE, "x", RVC_RS2S(insn))
         [] op \in {7, 39} -> VectorForm
         [] OTHER -> NoForm

(* Little-endian bytes of a register, and the shifts that sign-extend *)
ByteOf(v, i) == (v \div Power(i)) % ByteVals
TrapJoined(b) == MapThenSumSet(LAMBDA i : b[i] * Power(i - 1), 1 .. Len(b))
Shl(v, k) == (v * Power(k)) % Power(XBytes)
Sar(v, k) == ((IF 2 * v >= Power(XBytes) THEN v - Power(XBytes) ELSE v) \div Power(k)) % Power(XBytes)

\* Bug: a signed load is not extended.
ExtendedNot(v, form) == v

Extended(v, form) == IF form.sext THEN Sar(Shl(v, XBytes - form.len), XBytes - form.len) ELSE v

(* sbi_get_insn(): the two halves are read with MXR; the second one if the *)
(* first says so, and after a failed first half whatever the register      *)
(* held says so.  A load fault is reported as a fetch fault.               *)
FetchFaults(t, pc) ==
    IF 0 \in t.nofetch THEN {pc} \cup (IF 2 \in t.nofetch THEN {pc + 2} ELSE {})
    ELSE IF ~Is16Bit(t.insn) /\ 2 \in t.nofetch THEN {pc + 2} ELSE {}
FetchTrap(f, a) == [cause |-> "fetch_page_fault", tval |-> a, tval2 |-> 0, tinst |-> 0,
                    gva |-> tr_env.h /\ f.regs.virt]

IsStore(t) == t.cause \in {"misaligned_store", "store_access"}
FormOf(t, insn) == IF IsStore(t) THEN StoreForm(insn) ELSE LoadForm(insn)

(* sbi_trap_emulate_load(), sbi_trap_emulate_store(): the instruction, from *)
(* mtinst if it is there, else from memory; its form; the access.          *)
StartBytes(f, insn, len) ==
    LET form == FormOf(f.trap, insn)
        src == IF form.file = "f" THEN f.regs.f ELSE f.regs.x
        g == [f EXCEPT !.insn = insn, !.len = len, !.step = IF form = VectorForm THEN "vector" ELSE "bytes",
                       !.bytes = IF IsStore(f.trap) /\ form # NoForm
                                 THEN [i \in 1 .. form.len |-> ByteOf(src[form.reg], i - 1)] ELSE <<>>,
                       !.at = 0]
    IN IF form = NoForm THEN Redirect(f, f.trap) ELSE Continue(g)

(* insn = tinst | INSN_16BIT_MASK; a compressed one has bit 1 clear *)
TinstInsn(tinst) == tinst + (3 - (tinst % 4))

TinstLen(tinst) == IF tinst % 4 = 3 THEN InsnLen(TinstInsn(tinst)) ELSE 2
Decode ==
    /\ Handling("dispatch") /\ Top.trap.cause \in EmulatedCauses
    /\ IF Top.trap.tinst % 2 = 1
       THEN StartBytes(Top, TinstInsn(Top.trap.tinst), TinstLen(Top.trap.tinst))
       ELSE IF FetchFaults(Top.trap, Top.regs.pc) # {}
       THEN \E a \in FetchFaults(Top.trap, Top.regs.pc) : Redirect(Top, FetchTrap(Top, a))
       ELSE StartBytes(Top, Top.trap.insn, InsnLen(Top.trap.insn))

(* sbi_misaligned_tinst_fixup() *)
TinstFixup(orig, new, off) == IF new = tr_env.pseudo THEN new ELSE IF orig = 0 THEN 0 ELSE orig + off * 2 ^ 15

\* Bug: the fault is reported at the first byte.
ByteTrapStart(f) ==
    [cause |-> IF IsStore(f.trap) THEN "store_page_fault" ELSE "load_page_fault",
     tval |-> f.trap.tval, tval2 |-> 0, gva |-> tr_env.h /\ f.regs.virt,
     tinst |-> TinstFixup(f.trap.tinst, tr_env.uptinst, f.at)]

ByteTrap(f) ==
    [cause |-> IF IsStore(f.trap) THEN "store_page_fault" ELSE "load_page_fault",
     tval |-> f.trap.tval + f.at, tval2 |-> 0, gva |-> tr_env.h /\ f.regs.virt,
     tinst |-> TinstFixup(f.trap.tinst, tr_env.uptinst, f.at)]

(* sbi_misaligned_ld_emulator(), sbi_misaligned_st_emulator(): a byte *)
EmulateByte ==
    LET f == Top
        form == FormOf(f.trap, f.insn)
        a == f.trap.tval + f.at
    IN /\ Handling("bytes") /\ f.trap.cause \in {"misaligned_load", "misaligned_store"} /\ f.at < form.len
       /\ IF a \in tr_bad THEN Redirect(f, ByteTrap(f))
          ELSE /\ SetTop([f EXCEPT !.at = @ + 1,
                                   !.bytes = IF IsStore(f.trap) THEN @ ELSE Append(@, tr_mem[a])])
               /\ tr_mem' = IF IsStore(f.trap) THEN [tr_mem EXCEPT ![a] = f.bytes[f.at + 1]] ELSE tr_mem
               /\ UNCHANGED <<tr_m, tr_ctx, tr_did, tr_csrs, tr_next, tr_fixed>>

(* sbi_ld_access_emulator(), sbi_st_access_emulator(): the platform (which *)
(* is external) answers for the whole access, or the fault is S-mode's     *)
EmulateAccess ==
    LET f == Top
        n == FormOf(f.trap, f.insn).len
        a == f.trap.tval
    IN /\ Handling("bytes") /\ f.trap.cause \in {"load_access", "store_access"} /\ f.at = 0
       /\ IF f.regs.mode = "M" THEN TrapDone(f, SBI_EINVAL, "emulated")
          ELSE IF ~tr_env.emulates THEN Redirect(f, f.trap)
          ELSE /\ SetTop([f EXCEPT !.at = n, !.bytes = IF IsStore(f.trap) THEN @
                                                       ELSE [i \in 1 .. n |-> tr_mem[a + i - 1]]])
               /\ tr_mem' = IF IsStore(f.trap)
                            THEN [b \in a .. a + n - 1 |-> f.bytes[b - a + 1]] @@ tr_mem ELSE tr_mem
               /\ UNCHANGED <<tr_m, tr_ctx, tr_did, tr_csrs, tr_next, tr_fixed>>

(* sbi_misaligned_v_ld_emulator(), sbi_misaligned_v_st_emulator(), for an   *)
(* access fault too: the elements are moved (module VecLdst), or one of     *)
(* them faults; without vector support nothing is done, not even a step     *)
(* past the instruction.                                                    *)
EmulateVector ==
    LET f == Top
    IN /\ Handling("vector")
       /\ IF ~tr_env.vector THEN TrapDone(f, SBI_OK, "again")
          ELSE \/ TrapDone([f EXCEPT !.regs.pc = @ + f.len], SBI_OK, "emulated")
               \/ \E a \in tr_bad : Redirect(f, [ByteTrap(f) EXCEPT !.tval = a])

(* SET_RD() or SET_F64_RD(), and past the instruction *)
EmulateEnd ==
    LET f == Top
        form == FormOf(f.trap, f.insn)
        past == [f EXCEPT !.regs.pc = @ + f.len]
    IN /\ Handling("bytes") /\ f.at = form.len
       /\ TrapDone(CASE IsStore(f.trap) -> past
                 [] form.file = "f" -> [past EXCEPT !.regs.f[form.reg] = TrapJoined(f.bytes)]
                 [] OTHER -> [past EXCEPT !.regs.x[form.reg] = Extended(TrapJoined(f.bytes), form)],
               SBI_OK, "emulated")
-------------------------------------------------------------------------------
\* Bug: hcounteren is not asked.
HpmAllowedHost(csr, r) ==
    tr_env.priv10 /\ csr \in tr_env.mcounteren /\ (r.mode = "U" => csr \in tr_env.scounteren)

(* hpm_allowed(): the counter is enabled for the mode that reads it; before *)
(* version 1.10 of the privileged architecture none is.                     *)
HpmAllowed(csr, r) ==
    /\ tr_env.priv10
    /\ csr \in tr_env.mcounteren
    /\ r.virt => csr \in tr_env.hcounteren
    /\ r.mode = "U" => csr \in tr_env.scounteren

(* sbi_emulate_csr_read(), sbi_emulate_csr_write(): a CSR and, for RV32,    *)
(* whether it is the one of the high half.  TIMEH is read without asking.   *)
DeltaOk(r) == r.mode = "S" /\ ~r.virt
CsrReadable(i, r) ==
    /\ i.high => XBytes = 4
    /\ CASE i.csr = "htimedelta" -> DeltaOk(r)
         [] i.csr = "time" /\ i.high -> TRUE
         [] i.csr \in {"cycle", "time", "instret"} -> HpmAllowed(i.csr, r)
         [] i.csr = "hpmcounter" -> ~tr_env.hpm /\ HpmAllowed(i.csr, r)
         [] OTHER -> FALSE
CsrWritable(i, r) == i.csr = "htimedelta" /\ DeltaOk(r)
CsrHalf(i, v) == IF i.high THEN v \div Power(XBytes) ELSE v % Power(XBytes)
CsrValue(i, r) == CsrHalf(i, CASE i.csr = "htimedelta" -> tr_h.delta
                               [] i.csr = "time" /\ r.virt -> (tr_env.ctr.time + tr_h.delta) % Power(8)
                               [] OTHER -> tr_env.ctr[i.csr])

(* sbi_timer_set_delta(), sbi_timer_set_delta_upper() *)
DeltaSet(i, word) == IF i.high THEN word * Power(XBytes) + (tr_h.delta % Power(XBytes))
                     ELSE tr_h.delta - (tr_h.delta % Power(XBytes)) + word

(* system_opcode_insn(): CSRRW, CSRRS, CSRRC and their immediate forms *)
CsrNew(i, old, rs1) == CASE i.f3 \in {1, 5} -> rs1
                         [] i.f3 \in {2, 6} -> old | rs1
                         [] OTHER -> old - (old & rs1)

CsrWrites(i) == i.f3 \in {1, 5} \/ i.rs1 # 0
TrulyIllegal(f) == Redirect(f, [cause |-> "illegal", tval |-> f.trap.insn, tval2 |-> 0, tinst |-> 0, gva |-> FALSE])
SystemOpcode(f, i) ==
    LET r == f.regs
        old == CsrValue(i, r)
        rs1 == IF i.f3 > 4 THEN i.rs1 ELSE r.x[i.rs1]
    IN IF r.mode = "M" THEN TrapDone(f, SBI_EFAIL, "emulated")
       ELSE IF i.f3 \in {0, 4} THEN TrulyIllegal(f)
       ELSE IF ~CsrReadable(i, r) THEN TrulyIllegal(f)
       ELSE IF CsrWrites(i) /\ ~CsrWritable(i, r) THEN TrulyIllegal(f)
       ELSE /\ TrapFinish([f EXCEPT !.regs.x[i.rd] = old, !.regs.pc = @ + 4], SBI_OK, "emulated")
            /\ tr_h' = IF CsrWrites(i) THEN [tr_h EXCEPT !.delta = DeltaSet(i, CsrNew(i, old, rs1))] ELSE tr_h
            /\ UNCHANGED <<tr_s, tr_vs, tr_mem, tr_next, tr_fixed>>

(* sbi_illegal_insn_handler(): mtval has the instruction if its low bits   *)
(* say so, otherwise it is fetched; a 16-bit one is illegal.               *)
IllegalInsn ==
    LET f == Top
        t == f.trap
    IN /\ Handling("dispatch") /\ t.cause = "illegal"
       /\ IF t.tval % 4 # 3 /\ FetchFaults(t, f.regs.pc) # {}
          THEN \E a \in FetchFaults(t, f.regs.pc) : Redirect(f, FetchTrap(f, a))
          ELSE IF t.tval % 4 # 3 /\ Is16Bit(t.insn) THEN TrulyIllegal(f)
          ELSE CASE t.opcode = "system" -> SystemOpcode(f, t.csr)
                 [] t.opcode = "fence_tso" -> TrapDone([f EXCEPT !.regs.pc = @ + 4], SBI_OK, "emulated")
                 [] OTHER -> TrulyIllegal(f)

TrapNext ==
    \/ TrapEnter \/ TrapIrq \/ TrapOther \/ TrapDouble \/ TrapEcall \/ EcallDone
    \/ Decode \/ EmulateByte \/ EmulateAccess \/ EmulateVector \/ EmulateEnd \/ IllegalInsn
    \/ \E t \in FwTraps : FwTrap(t)
-------------------------------------------------------------------------------
(* The context pointer names the innermost frame, every frame links the    *)
(* one it interrupted, and the memory keeps its extent.                    *)
TrapTypeOK ==
    /\ tr_ctx = Len(tr_stack) /\ Len(tr_stack) <= 2
    /\ \A k \in 1 .. Len(tr_stack) : tr_stack[k].prev = k - 1
    /\ DOMAIN tr_mem = DOMAIN tr_old.mem /\ tr_mem[0] \in 0 .. ByteVals - 1
    /\ tr_m.mode \in {"U", "S", "M"}

OnlyTrapWas(how) == tr_stack = <<>> /\ tr_did = <<how>>
RefExtended(u, ref) == IF ref.sext /\ 2 * u >= Power(ref.len) THEN u + Power(XBytes) - Power(ref.len) ELSE u

(* An emulated load or store has the effect its instruction has: the       *)
(* register gets the bytes in memory order, sign-extended or not; a store  *)
(* changes just its bytes; execution goes on after the instruction,        *)
(* whatever its length and however it was found; nothing else changes.  A  *)
(* vector access is left to be tried again, unchanged, where the firmware  *)
(* was built without vector support, and only there.                       *)
TrapEmulationExact ==
    LET t == tr_old.trap
        ref == t.ref
        was == tr_old.m
        past == [was EXCEPT !.pc = @ + ref.ilen]
        v == TrapJoined([i \in 1 .. ref.len |-> tr_old.mem[t.tval + i - 1]])
    IN /\ OnlyTrapWas("again") => ref.file = "v" /\ ~tr_env.vector /\ tr_m = was /\ tr_mem = tr_old.mem
       /\ OnlyTrapWas("emulated") /\ t.cause \in EmulatedCauses =>
          IF IsStore(t)
          THEN /\ tr_m = past
               /\ tr_mem = [a \in DOMAIN tr_old.mem |->
                             IF a \in t.tval .. t.tval + ref.len - 1
                             THEN ByteOf((IF ref.file = "f" THEN was.f ELSE was.x)[ref.reg], a - t.tval)
                             ELSE tr_old.mem[a]]
          ELSE /\ tr_mem = tr_old.mem
               /\ tr_m = IF ref.file = "f" THEN [past EXCEPT !.f[ref.reg] = v]
                         ELSE IF ref.reg = 0 THEN past
                         ELSE [past EXCEPT !.x[ref.reg] = RefExtended(v, ref)]

(* A byte that faults gives the fault a plain access would have given: the *)
(* page fault at the first bad byte, with the instruction not executed: no *)
(* register changed, only bytes below the faulting one stored.  (For the   *)
(* elements of a vector VxFaultDue says so.)                               *)
TrapFaultPrecise ==
    LET t == tr_old.trap
        span == t.tval .. t.tval + t.ref.len - 1
        csr == IF tr_m.virt THEN tr_vs ELSE tr_s
    IN OnlyTrapWas("redirected") /\ csr.cause \in {"load_page_fault", "store_page_fault"} /\ t.cause \in EmulatedCauses
       /\ t.ref.file # "v"
       => /\ csr.tval = CHOOSE a \in span \cap tr_bad : \A b \in span \cap tr_bad : a <= b
          /\ csr.epc = tr_old.m.pc /\ tr_m.x = tr_old.m.x /\ tr_m.f = tr_old.m.f
          /\ \A a \in DOMAIN tr_mem : tr_mem[a] # tr_old.mem[a] => a \in span /\ a < csr.tval

(* What sret does with the CSRs a redirected trap leaves *)
SretFrom(m, s, vs, h) ==
    IF m.virt THEN [m EXCEPT !.mode = IF vs.spp THEN "S" ELSE "U", !.pc = vs.epc, !.elp = vs.spelp]
    ELSE [m EXCEPT !.mode = IF m.spp THEN "S" ELSE "U", !.virt = h.spv, !.pc = s.epc, !.sie = m.spie, !.elp = m.spelp]

(* A redirected trap can be returned from: sret of the handler it is given *)
(* to gets back to the interrupted instruction with mode, virtualization,  *)
(* interrupt enable and landing-pad state as they were, and a guest's trap *)
(* stays in the guest exactly when the hypervisor delegated that cause.    *)
(* One case is left out: where SPELP was still set from an earlier trap,   *)
(* it stays set, and sret expects a landing pad that was not due.          *)
TrapReturnable ==
    LET back == SretFrom(tr_m, tr_s, tr_vs, tr_h)
        was == tr_old.m
    IN OnlyTrapWas("redirected")
       => /\ back.mode = was.mode /\ back.virt = was.virt /\ back.pc = was.pc /\ back.elp = (was.elp \/ was.spelp)
          /\ back.x = was.x
          /\ IF tr_m.virt THEN tr_vs.spie = tr_env.vsie /\ ~tr_vs.sie /\ tr_m.sie = was.sie
             ELSE back.sie = was.sie /\ ~tr_m.sie
          /\ tr_m.virt <=> was.virt /\ tr_vs.cause # "none"
          /\ tr_m.virt => tr_vs.cause \in tr_env.hedeleg
          /\ was.virt /\ ~tr_m.virt => tr_s.cause \notin tr_env.hedeleg /\ tr_h.spvp = (was.mode = "S")
          /\ ~was.virt => ~tr_h.spvp

(* Only traps of the firmware itself, interrupts nobody serves and double  *)
(* traps without a registered event stop a hart: nothing else that S-mode  *)
(* or U-mode code does ends in sbi_trap_error().                           *)
TrapHangs == Handling("hang") => \/ Top.regs.mode = "M"
                                 \/ Top.trap.cause \in {"irq", "double"}

(* A trap of the firmware leaves the one it serves alone: the outer frame  *)
(* still holds the caller's registers, and the firmware goes on behind its *)
(* instruction.                                                            *)
TrapNestKept ==
    /\ tr_stack # <<>> => tr_stack[1].regs = tr_old.m
    /\ Len(tr_stack) = 1 /\ tr_did = <<"emulated">> => tr_m.mode = "M" /\ tr_m.pc > tr_env.fwpc

(* Emulated CSRs: an access is emulated just when the enables of the modes *)
(* above allow it, except that TIMEH asks for none of them, and is illegal *)
(* otherwise.  The register gets the value, for a guest with htimedelta    *)
(* added and carried into the high half; only a write changes htimedelta,  *)
(* bit by bit as CSRRW, CSRRS or CSRRC say, and only the half it names.    *)
TrapCsrExact ==
    LET i == tr_old.trap.csr
        was == tr_old.m
        enables == {tr_env.mcounteren} \cup (IF was.virt THEN {tr_env.hcounteren} ELSE {})
                   \cup (IF was.mode = "U" THEN {tr_env.scounteren} ELSE {})
        writes == i.f3 \in {1, 5} \/ i.rs1 # 0
        due == /\ i.f3 \notin {0, 4} /\ (i.high => XBytes = 4)
               /\ IF i.csr = "htimedelta" THEN was.mode = "S" /\ ~was.virt
                  ELSE /\ ~writes
                       /\ \/ i.csr = "time" /\ i.high
                          \/ /\ \A en \in enables : i.csr \in en
                             /\ tr_env.priv10 /\ (i.csr = "hpmcounter" => ~tr_env.hpm)
        all == IF i.csr = "htimedelta" THEN tr_env.delta
               ELSE tr_env.ctr[i.csr] + (IF i.csr = "time" /\ was.virt THEN tr_env.delta ELSE 0)
        Half(v, high) == IF high THEN v \div Power(XBytes) ELSE v % Power(XBytes)
        Bit(v, b) == (v \div 2 ^ b) % 2 = 1
        src == IF i.f3 > 4 THEN i.rs1 ELSE was.x[i.rs1]
    IN tr_stack = <<>> /\ tr_did # <<>> /\ tr_old.trap.cause = "illegal" /\ tr_old.trap.opcode = "system"
       => /\ tr_did = <<"emulated">> <=> due
          /\ due => tr_m = [was EXCEPT !.pc = @ + 4, !.x[i.rd] = IF i.rd = 0 THEN 0 ELSE Half(all, i.high)]
          /\ IF due /\ writes
             THEN /\ Half(tr_h.delta, ~i.high) = Half(tr_env.delta, ~i.high)
                  /\ \A b \in 0 .. 15 : LET old == Bit(Half(tr_env.delta, i.high), b)
                                        IN  Bit(Half(tr_h.delta, i.high), b) =
                                              CASE i.f3 \in {1, 5} -> Bit(src, b)
                                                [] i.f3 \in {2, 6} -> old \/ Bit(src, b)
                                                [] OTHER -> old /\ ~Bit(src, b)
             ELSE tr_h.delta = tr_env.delta

\* Where a trap ends: in a mode and at an address the trapped code can be resumed
\* from, in a hang only when nobody can take it, and with the contexts of nested
\* traps of the firmware kept; with the exception of TrapReturnable.
TrapHandled == TrapTypeOK /\ TrapReturnable /\ TrapHangs /\ TrapNestKept
===============================================================================
