-------------------------------- MODULE Ecall --------------------------------
(***************************************************************************)
(* The entry of the SBI: the registry of extensions and the dispatch of    *)
(* lib/sbi/sbi_ecall.c, the handlers of lib/sbi/sbi_ecall_*.c with the     *)
(* arguments they pass on, and the guards of lib/sbi/sbi_cppc.c.           *)
(*                                                                         *)
(* A service a handler calls answers with any of EcAnswers; what it was    *)
(* asked is recorded in ec_did.  Extension identities are renumbered; the  *)
(* legacy ones, the functions and the ACPI registers keep their numbers.   *)
(***************************************************************************)
EXTENDS Integers, Sequences, FiniteSets, SbiDefs

CONSTANTS
  EcPlats,    \* platforms: console, resets, suspends, cppc (its registers), vendor, h, triggers, channels
  EcAnswers,  \* what a service may return
  EcRegs,     \* the registers a0 .. a4 of a call
  EcVmid      \* the VMID in hgatp

VARIABLES
  ec_plat,  \* the platform
  ec_next,  \* the next of sbi_ecall_exts[]; -1 after an error
  ec_list,  \* ecall_exts_list, in order
  ec_call,  \* the last call: extension, function and registers
  ec_regs,  \* the caller's registers after it: a0, a1, how far mepc moved, whether a trap was redirected
  ec_did,   \* what it asked of a service, << >>: nothing
  ec_answer \* ghost: what the service answered

ec_vars == <<ec_plat, ec_next, ec_list, ec_call, ec_regs, ec_did, ec_answer>>

EcUnmapped == 900    \* an address M-mode faults on when it loads for the caller
Foreign == 901     \* an address outside the caller's domain
AllHarts == -1     \* hbase of an absent hart mask
Stack == 902       \* a value left on the firmware's stack
MaskInMemory == 5  \* the hart mask a legacy caller's pointer leads to

\* sbi_ecall_exts[], in the order of lib/sbi/objects.mk, and the identities of each.
EcallExts == <<"time", "rfnc", "ipi", "base", "hsm", "srst", "susp", "pmu", "dbcn", "cppc",
               "fwft", "legacy", "vendor", "dbtr", "sse", "mpxy">>
Vendors == 40 .. 43
EcIds == [time |-> 17, rfnc |-> 19, ipi |-> 18, base |-> 16, hsm |-> 20, srst |-> 21, susp |-> 24, pmu |-> 22,
          dbcn |-> 23, cppc |-> 25, fwft |-> 28, dbtr |-> 26, sse |-> 27, mpxy |-> 29]
FirstId(e) == IF e = "legacy" THEN 0 ELSE IF e = "vendor" THEN 40 + (ec_plat.vendor % 4) ELSE EcIds[e]
LastId(e) == IF e = "legacy" THEN 8 ELSE FirstId(e)
Legacy == 0 .. 8
Getchar == 2

\* sbi_ecall_find_extension()
Found(id) == SelectSeq(ec_list, LAMBDA e : FirstId(e) <= id /\ id <= LastId(e))

\* Bug: the extensions without a device are registered too.
AvailableAny(e) == e = "vendor" => ec_plat.vendor >= 0

\* The conditions of sbi_ecall_*_register_extensions().
Available(e) ==
  CASE e = "srst" -> ec_plat.resets # {}
    [] e = "susp" -> ec_plat.suspends # {}
    [] e = "dbcn" -> ec_plat.console
    [] e = "cppc" -> ec_plat.cppc # {}
    [] e = "vendor" -> ec_plat.vendor >= 0
    [] e = "dbtr" -> ec_plat.triggers > 0
    [] e = "mpxy" -> ec_plat.channels
    [] OTHER -> TRUE

\* sbi_ecall_register_extension() refuses a range that meets one registered.
Overlaps(e) == \E i \in DOMAIN ec_list : ~(LastId(ec_list[i]) < FirstId(e) \/ LastId(e) < FirstId(ec_list[i]))

-----------------------------------------------------------------------------
Out(ret, value, did) == [ret |-> ret, value |-> value, skip |-> FALSE, did |-> did, answer |-> ret]
Redirected == [ret |-> 0, value |-> 0, skip |-> TRUE, did |-> << >>, answer |-> 0]
Refused(ret) == {Out(ret, 0, << >>)}

\* ret = read(&temp); out->value = temp: temp is only written by a read that succeeds.
ReadTemp(did, answers) == UNION {{Out(a, v, did) : v \in IF a = 0 THEN {0, 7} ELSE {Stack}} : a \in answers}

\* ret = service(): the service's answer.
EcAsked(did) == {Out(a, 0, did) : a \in EcAnswers}

\* Bug: the answer stays where the error goes.
SplitNot(outs) == outs

\* if (ret >= 0) { out->value = ret; ret = 0; }
Split(outs) == {IF o.ret >= 0 THEN [o EXCEPT !.value = o.ret, !.ret = 0] ELSE o : o \in outs}

\* SBI_TLB_INFO_INIT() and sbi_tlb_request()
TlbAsked(type, mask, base, start, size, asid, vmid) == EcAsked(<<"tlb", type, mask, base, start, size, asid, vmid>>)

\* sbi_ecall_base_probe()
Probe(id) == IF Found(id) = << >> THEN 0 ELSE 1

\* sbi_ecall_base_handler(): the identities of versions and the machine are constants.
BaseHandler(f, r) ==
  CASE f = 3 -> {Out(0, Probe(r.a0), << >>)}
    [] f \in {0, 1, 2, 4, 5, 6} -> {Out(0, 100 + f, << >>)}
    [] OTHER -> Refused(SBI_ENOTSUPP)

\* sbi_ecall_time_handler()
TimeHandler(f, r) == IF f = 0 THEN {Out(0, 0, <<"timer", r.a0>>)} ELSE Refused(SBI_ENOTSUPP)

\* Bug: the VMID is the caller's fifth register.
RfenceHandlerVmid(f, r) ==
  IF f = 6 /\ ec_plat.h THEN TlbAsked("hfence_vvma", r.a0, r.a1, r.a2, r.a3, 0, r.a4) ELSE Refused(SBI_ENOTSUPP)

\* sbi_ecall_rfence_handler()
RfenceHandler(f, r) ==
  CASE f \in 3 .. 6 /\ ~ec_plat.h -> Refused(SBI_ENOTSUPP)
    [] f = 0 -> TlbAsked("fence_i", r.a0, r.a1, 0, 0, 0, 0)
    [] f = 1 -> TlbAsked("sfence_vma", r.a0, r.a1, r.a2, r.a3, 0, 0)
    [] f = 2 -> TlbAsked("sfence_vma_asid", r.a0, r.a1, r.a2, r.a3, r.a4, 0)
    [] f = 3 /\ ec_plat.h -> TlbAsked("hfence_gvma_vmid", r.a0, r.a1, r.a2, r.a3, 0, r.a4)
    [] f = 4 /\ ec_plat.h -> TlbAsked("hfence_gvma", r.a0, r.a1, r.a2, r.a3, 0, 0)
    [] f = 5 /\ ec_plat.h -> TlbAsked("hfence_vvma_asid", r.a0, r.a1, r.a2, r.a3, r.a4, EcVmid)
    [] f = 6 /\ ec_plat.h -> TlbAsked("hfence_vvma", r.a0, r.a1, r.a2, r.a3, 0, EcVmid)
    [] OTHER -> Refused(SBI_ENOTSUPP)

\* sbi_ecall_ipi_handler()
IpiHandler(f, r) == IF f = 0 THEN EcAsked(<<"ipi", r.a0, r.a1>>) ELSE Refused(SBI_ENOTSUPP)

\* sbi_ecall_hsm_handler()
HsmHandler(f, r) ==
  CASE f = 0 -> Split(EcAsked(<<"hart_start", r.a0, r.a1, r.a2>>))
    [] f = 1 -> Split(EcAsked(<<"hart_stop">>))
    [] f = 2 -> Split(EcAsked(<<"hart_state", r.a0>>))
    [] f = 3 -> Split(EcAsked(<<"hart_suspend", r.a0, r.a1, r.a2>>))
    [] OTHER -> Refused(SBI_ENOTSUPP)

\* sbi_ecall_srst_handler(): a supported reset does not come back.
SrstHandler(f, r) ==
  CASE f # 0 -> Refused(SBI_ENOTSUPP)
    [] f = 0 /\ (r.a0 \notin 0 .. 2 \/ r.a1 \notin 0 .. 1) -> Refused(SBI_EINVAL)
    [] OTHER -> IF r.a0 \in ec_plat.resets THEN {[Redirected EXCEPT !.did = <<"reset", r.a0, r.a1>>]}
                ELSE Refused(SBI_ENOTSUPP)

\* sbi_ecall_susp_handler()
SuspHandler(f, r) ==
  IF f = 0 THEN Split(EcAsked(<<"suspend", r.a0, r.a1, r.a2>>)) ELSE Refused(SBI_ENOTSUPP)

\* sbi_load_hart_mask_unpriv(): the caller's mask with its base, or all harts.
HartMaskUnpriv(r) == IF r.a0 = 0 THEN <<0, AllHarts>> ELSE <<MaskInMemory, 0>>

\* sbi_ecall_legacy_handler(), the calls with a hart mask
LegacySend(id, r, m) ==
  CASE id = 4 -> EcAsked(<<"ipi", m[1], m[2]>>)
    [] id = 5 -> TlbAsked("fence_i", m[1], m[2], 0, 0, 0, 0)
    [] id = 6 -> TlbAsked("sfence_vma", m[1], m[2], r.a1, r.a2, 0, 0)
    [] id = 7 -> TlbAsked("sfence_vma_asid", m[1], m[2], r.a1, r.a2, r.a3, 0)

\* sbi_ecall_legacy_handler(): a mask that cannot be read redirects the trap.
LegacyHandler(id, r) ==
  CASE id = 0 -> {Out(0, 0, <<"timer", r.a0>>)}
    [] id = 1 -> {Out(0, 0, <<"putc", r.a0>>)}
    [] id = Getchar -> {Out(c, 0, <<"getc">>) : c \in {-1, 65}}
    [] id = 3 -> {Out(0, 0, <<"clear_ipi">>)}
    [] id \in 4 .. 7 -> IF r.a0 = EcUnmapped THEN {Redirected} ELSE LegacySend(id, r, HartMaskUnpriv(r))
    [] id = 8 -> {[Redirected EXCEPT !.did = <<"reset", 0, 0>>]}

\* sbi_ecall_vendor_handler()
VendorHandler(f, r) == EcAsked(<<"vendor", f>>)

\* Bug: the caller's domain is not asked.
DbcnHandlerUnchecked(f, r) ==
  IF f \in {0, 1} THEN {Out(0, r.a0, <<"console", r.a1, r.a0>>)} ELSE Refused(SBI_ENOTSUPP)

\* sbi_ecall_dbcn_handler()
DbcnHandler(f, r) ==
  CASE f \in {0, 1} /\ r.a2 # 0 -> Refused(SBI_EFAIL)
    [] f \in {0, 1} /\ r.a2 = 0 /\ r.a1 = Foreign -> Refused(SBI_EINVAL)
    [] f \in {0, 1} /\ r.a2 = 0 /\ r.a1 # Foreign -> {Out(0, n, <<"console", r.a1, r.a0>>) : n \in {0, r.a0}}
    [] f = 2 -> {Out(0, 0, <<"putc", r.a0>>)}
    [] OTHER -> Refused(SBI_ENOTSUPP)

-----------------------------------------------------------------------------
CppcAcpiLast == 20
CppcTransition == 30  \* TRANSITION_LATENCY and NON_ACPI_LAST

\* sbi_cppc_is_reserved()
CppcReserved(reg) == (reg > CppcAcpiLast /\ reg < CppcTransition) \/ reg > CppcTransition

\* sbi_cppc_writable()
CppcWritable(reg) == reg \notin ({0, 1, 2, 3, 4} \cup {10, 11, 12} \cup {18, 19, 20} \cup {CppcTransition})

\* sbi_cppc_probe(): the width the platform reports, 0: not implemented.
CppcProbe(reg) == IF CppcReserved(reg) THEN SBI_EINVAL ELSE IF reg \in ec_plat.cppc THEN 64 ELSE 0

\* sbi_cppc_read()
CppcRead(reg) ==
  IF CppcProbe(reg) <= 0 THEN ReadTemp(<< >>, {SBI_ENOTSUPP}) ELSE ReadTemp(<<"cppc_read", reg>>, EcAnswers)

\* Bug: a read-only register is written.
CppcWriteAny(reg, val) ==
  IF CppcProbe(reg) <= 0 THEN Refused(SBI_ENOTSUPP) ELSE EcAsked(<<"cppc_write", reg, val>>)

\* sbi_cppc_write()
CppcWrite(reg, val) ==
  IF CppcProbe(reg) <= 0 THEN Refused(SBI_ENOTSUPP)
  ELSE IF ~CppcWritable(reg) THEN Refused(SBI_EDENIED)
  ELSE EcAsked(<<"cppc_write", reg, val>>)

\* sbi_ecall_cppc_handler(), 64-bit registers
CppcHandler(f, r) ==
  CASE f = 0 -> Split({Out(CppcProbe(r.a0), 0, << >>)})
    [] f = 1 -> CppcRead(r.a0)
    [] f = 2 -> Refused(0)
    [] f = 3 -> CppcWrite(r.a0, r.a1)
    [] OTHER -> Refused(SBI_ENOTSUPP)

\* Bug: a match that fails leaves the firmware's own value in a1.
PmuHandlerTemp(f, r) == IF f \in {2, 5} THEN ReadTemp(<<"pmu", f>>, EcAnswers) ELSE Refused(SBI_ENOTSUPP)

\* sbi_ecall_pmu_handler()
PmuHandler(f, r) ==
  CASE f = 0 -> Split(EcAsked(<<"pmu", f>>))
    [] f = 2 -> Split(EcAsked(<<"pmu", f>>))
    [] f \in {1, 3, 4, 8} -> EcAsked(<<"pmu", f>>)
    [] f = 5 -> ReadTemp(<<"pmu", f>>, {a \in EcAnswers : a <= 0})
    [] f = 6 -> Refused(0)
    [] OTHER -> Refused(SBI_ENOTSUPP)

\* A handler that passes the arguments of functions 0 to last on to the service.
PassedOn(e, f, last) == IF f <= last THEN EcAsked(<<e, f>>) ELSE Refused(SBI_ENOTSUPP)

\* sbi_ecall_dbtr_handler()
DbtrHandler(f, r) == PassedOn("dbtr", f, 7)

\* sbi_ecall_fwft_handler()
FwftHandler(f, r) == PassedOn("fwft", f, 1)

\* sbi_ecall_mpxy_handler()
MpxyHandler(f, r) == IF f = 0 THEN {Out(0, 100, <<"mpxy", f>>)} ELSE PassedOn("mpxy", f, 7)

\* sbi_ecall_sse_handler(): a completed event resumes what it interrupted, which keeps its
\* registers.
SseHandler(f, r) ==
  (IF f = 6 THEN {[Redirected EXCEPT !.did = <<"sse", f>>]} ELSE {}) \cup PassedOn("sse", f, 9)

\* ext->handle()
Handle(e, id, f, r) ==
  CASE e = "base" -> BaseHandler(f, r)
    [] e = "time" -> TimeHandler(f, r)
    [] e = "rfnc" -> RfenceHandler(f, r)
    [] e = "ipi" -> IpiHandler(f, r)
    [] e = "hsm" -> HsmHandler(f, r)
    [] e = "srst" -> SrstHandler(f, r)
    [] e = "susp" -> SuspHandler(f, r)
    [] e = "legacy" -> LegacyHandler(id, r)
    [] e = "vendor" -> VendorHandler(f, r)
    [] e = "dbcn" -> DbcnHandler(f, r)
    [] e = "cppc" -> CppcHandler(f, r)
    [] e = "pmu" -> PmuHandler(f, r)
    [] e = "dbtr" -> DbtrHandler(f, r)
    [] e = "fwft" -> FwftHandler(f, r)
    [] e = "mpxy" -> MpxyHandler(f, r)
    [] e = "sse" -> SseHandler(f, r)

\* Bug: an error no caller knows is returned as it is.
CleanedNot(id, ret) == ret

\* sbi_ecall_handler(): an error the SBI does not define, or a positive one, is a failure.
Cleaned(id, ret) == IF ret < SBI_EDENIED_LOCKED \/ (id # Getchar /\ ret > 0) THEN SBI_EFAIL ELSE ret

-----------------------------------------------------------------------------
NoCall == [id |-> -1, f |-> 0, r |-> [a0 |-> 0, a1 |-> 0, a2 |-> 0, a3 |-> 0, a4 |-> 0]]

EcInit ==
  /\ ec_plat \in EcPlats
  /\ ec_next = 1 /\ ec_list = << >>
  /\ ec_call = NoCall
  /\ ec_regs = [a0 |-> 0, a1 |-> 0, moved |-> 0, skip |-> FALSE]
  /\ ec_did = << >> /\ ec_answer = 0

\* sbi_ecall_init(), one extension: it stops at the first error.
EcallInit ==
  /\ ec_next \in DOMAIN EcallExts
  /\ LET e == EcallExts[ec_next]
     IN  IF Available(e) /\ Overlaps(e) THEN ec_next' = -1 /\ UNCHANGED ec_list
         ELSE /\ ec_next' = ec_next + 1
              /\ ec_list' = IF Available(e) THEN Append(ec_list, e) ELSE ec_list
  /\ UNCHANGED <<ec_plat, ec_call, ec_regs, ec_did, ec_answer>>

\* sbi_ecall_handler()
EcallHandler(id, f, r) ==
  /\ ec_call' = [id |-> id, f |-> f, r |-> r]
  /\ \E o \in IF Found(id) = << >> THEN Refused(SBI_ENOTSUPP) ELSE Handle(Head(Found(id)), id, f, r) :
       /\ ec_did' = o.did /\ ec_answer' = o.answer
       /\ ec_regs' = IF o.skip THEN [a0 |-> r.a0, a1 |-> r.a1, moved |-> 0, skip |-> TRUE]
                     ELSE [a0 |-> Cleaned(id, o.ret), moved |-> 4, skip |-> FALSE,
                           a1 |-> IF id \in Legacy /\ Found(id) # << >> THEN r.a1 ELSE o.value]
  /\ UNCHANGED <<ec_plat, ec_next, ec_list>>

\* The caller goes on; nothing is left of the call.
GoOn ==
  /\ ec_call # NoCall
  /\ ec_call' = NoCall /\ ec_did' = << >> /\ ec_answer' = 0
  /\ ec_regs' = [a0 |-> 0, a1 |-> 0, moved |-> 0, skip |-> FALSE]
  /\ UNCHANGED <<ec_plat, ec_next, ec_list>>

EcNext ==
  \/ EcallInit \/ GoOn
  \/ /\ ec_next > Len(EcallExts) /\ ec_call = NoCall
     /\ \E id \in (0 .. 9) \cup (16 .. 29) \cup Vendors, f \in 0 .. 10, r \in EcRegs :
          (id \in Legacy \cup {9} => f = 0) /\ EcallHandler(id, f, r)

-----------------------------------------------------------------------------
Called == ec_call.id >= 0

(***************************************************************************)
(* Every call comes back at the next instruction with an error the SBI     *)
(* specification defines, or a character; a redirected or reset one leaves *)
(* the registers to the trap; a legacy call keeps a1.  (sbi_ecall_handler) *)
(***************************************************************************)
EcReturnsClean ==
  Called => IF ec_regs.skip THEN ec_regs.moved = 0 /\ ec_regs.a0 = ec_call.r.a0
            ELSE /\ ec_regs.moved = 4
                 /\ ec_regs.a0 \in SBI_EDENIED_LOCKED .. 0 \/ (ec_call.id = Getchar /\ ec_regs.a0 >= 0)
                 /\ ec_call.id \in Legacy => ec_regs.a1 = ec_call.r.a1

(***************************************************************************)
(* Probing tells the truth: sbi_ecall_base_probe() says 1 of exactly the   *)
(* identities one registered extension has, calls of all others do         *)
(* nothing and say so, and an extension whose device the platform lacks    *)
(* is never reached.                                                       *)
(***************************************************************************)
EcProbeTrue ==
  LET Owners(id) == {i \in DOMAIN ec_list : id \in FirstId(ec_list[i]) .. LastId(ec_list[i])}
  IN  Called =>
        /\ Cardinality(Owners(ec_call.id)) <= 1
        /\ Owners(ec_call.id) = {} => ec_did = << >> /\ ec_regs.a0 = SBI_ENOTSUPP
        /\ ec_call.id = EcIds.base /\ ec_call.f = 3 => ec_regs.a1 = Cardinality(Owners(ec_call.r.a0))
        /\ ec_did # << >> => CASE ec_call.id = EcIds.dbtr -> ec_plat.triggers > 0
                               [] ec_call.id = EcIds.mpxy -> ec_plat.channels
                               [] ec_call.id = EcIds.srst -> ec_call.r.a0 \in ec_plat.resets
                               [] ec_call.id = EcIds.susp -> ec_plat.suspends # {}
                               [] OTHER -> TRUE

(***************************************************************************)
(* A remote fence reaches the harts asked for, all of them for a legacy    *)
(* call without a mask, with the caller's range; the ASID only where the   *)
(* call has one; the VMID of the caller for a guest's own translations.    *)
(***************************************************************************)
EcFenceAsAsked ==
  (Called /\ ec_did # << >> /\ ec_did[1] = "tlb") =>
    LET r == ec_call.r
        legacy == ec_call.id \in Legacy
    IN  /\ <<ec_did[3], ec_did[4]>> = IF ~legacy THEN <<r.a0, r.a1>>
                                      ELSE IF r.a0 = 0 THEN <<0, AllHarts>> ELSE <<MaskInMemory, 0>>
        /\ ec_did[2] # "fence_i" =>
             <<ec_did[5], ec_did[6]>> = IF legacy THEN <<r.a1, r.a2>> ELSE <<r.a2, r.a3>>
        /\ ec_did[2] \in {"hfence_vvma", "hfence_vvma_asid"} => ec_did[8] = EcVmid /\ ec_plat.h
        /\ ec_did[2] = "hfence_gvma_vmid" => ec_did[8] = r.a4 /\ ec_plat.h
        /\ ec_did[7] # 0 => ec_did[2] \in {"sfence_vma_asid", "hfence_vvma_asid"}

(***************************************************************************)
(* The CPPC driver is asked only for registers it has reported, and to     *)
(* write only those the SBI lets a supervisor write.  (sbi_cppc.c)         *)
(***************************************************************************)
EcCppcGuarded ==
  (ec_did # << >> /\ ec_did[1] \in {"cppc_read", "cppc_write"}) =>
    /\ ec_did[2] \in ec_plat.cppc /\ (ec_did[2] \in 0 .. CppcAcpiLast \/ ec_did[2] = CppcTransition)
    /\ ec_did[1] = "cppc_write" => ec_did[2] \in (5 .. 9) \cup (13 .. 17)

(***************************************************************************)
(* The console reads and writes no memory for a caller whose domain does   *)
(* not own it, nor beyond the addresses M-mode reaches.                    *)
(***************************************************************************)
EcConsoleInDomain ==
  (ec_did # << >> /\ ec_did[1] = "console") => ec_did[2] # Foreign /\ ec_call.r.a2 = 0 /\ ec_plat.console

(***************************************************************************)
(* A number that sbi_hsm_hart_get_state(), sbi_pmu_ctr_cfg_match() and the *)
(* others with one result answer reaches the caller in a1 with success,    *)
(* never as an error; a failure reaches it as one.                         *)
(***************************************************************************)
EcAnswerInValue ==
  (Called /\ ec_did # << >> /\ (ec_did[1] \in {"hart_state", "hart_suspend", "suspend"} \/ ec_did = <<"pmu", 2>>)) =>
    IF ec_answer >= 0 THEN ec_regs.a0 = 0 /\ ec_regs.a1 = ec_answer ELSE ec_regs.a0 < 0

(***************************************************************************)
(* A call that fails returns 0 in a1, where it returns a1 at all, but for  *)
(* two: a read of a CPPC register or of a firmware counter that fails      *)
(* returns what was on the firmware's stack, never with a0 = 0.            *)
(***************************************************************************)
EcFailsWithZero ==
  (Called /\ ~ec_regs.skip /\ ec_call.id \notin Legacy) =>
    LET reads == {<<EcIds.cppc, 1>>, <<EcIds.pmu, 5>>}
    IN  /\ ec_regs.a0 < 0 => ec_regs.a1 = 0 \/ <<ec_call.id, ec_call.f>> \in reads
        /\ ec_regs.a1 = Stack => ec_regs.a0 < 0

\* What a call returns to S-mode, and what it did, is what its registers asked for:
\* a failure comes with nothing in a1 but for two reads, a probe tells the truth, and
\* each handler reaches its service with the arguments and within the limits given.
EcSound ==
  /\ EcReturnsClean /\ EcFailsWithZero /\ EcProbeTrue /\ EcAnswerInValue
  /\ EcFenceAsAsked /\ EcCppcGuarded /\ EcConsoleInDomain
=============================================================================
