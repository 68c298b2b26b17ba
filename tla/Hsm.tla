-------------------------------- MODULE Hsm --------------------------------
(***************************************************************************)
(* The life of a hart in OpenSBI: cold and warm boot (lib/sbi/sbi_init.c), *)
(* the Hart State Management calls (lib/sbi/sbi_hsm.c) and system suspend  *)
(* (lib/sbi/sbi_system.c), for all harts at once.                          *)
(*                                                                         *)
(* A hart is a sequential M-mode program; pc[h] names the access to shared *)
(* memory it makes next.  In S-mode (pc = "S") it may call any of the      *)
(* services.  next_addr, next_arg1 and next_mode are written and read      *)
(* together and are one value, next_addr.  entry_count and init_count are  *)
(* only compared for equality and with zero, so the model keeps the two    *)
(* answers: entered (entry_count # init_count) and inited (init_count # 0).*)
(***************************************************************************)
EXTENDS Naturals, FiniteSets

CONSTANTS
  Harts,
  Domains,
  BootHart,   \* boot_hartid of each domain
  Addrs,      \* the addresses S-mode passes to start, suspend, system suspend
  Platforms   \* the platforms the firmware may find itself on

(***************************************************************************)
(* What a platform and the software on it decide:                          *)
(*   domain    the domain each hart is assigned to                         *)
(*   device    the HSM device                                              *)
(*   power_on  the harts that enter the firmware at power-on               *)
(*   services  the SBI calls S-mode makes                                  *)
(***************************************************************************)
PlatformType ==
  [domain : [Harts -> Domains],
   device : {"none", "hotplug", "secondary", "smu"},
   power_on : {"one", "all"},
   services : SUBSET {"start", "stop", "suspend", "system_suspend"}]

ASSUME HsmAssumption ==
  /\ BootHart \in [Domains -> Harts]
  /\ Platforms \subseteq PlatformType

VARIABLES
  platform,         \* chosen once
  state,            \* hdata->state
  start_ticket,     \* hdata->start_ticket
  next_addr,        \* scratch->next_addr (with next_arg1 and next_mode)
  coldboot_lottery,
  coldboot_done,
  entered,          \* entry_count # init_count
  inited,           \* init_count # 0
  msip,             \* software interrupt pending at the hart
  csrs,             \* M-mode CSRs: "reset", or "live" once set up by init
  saved,            \* hdata->saved_mie, saved_mip, saved_medeleg, saved_menvcfg
  pc,
  call,             \* arguments and locals of the call a hart is executing
  asked,            \* history: where the start or suspend in progress points
  astray            \* history: the hart last entered S-mode somewhere else

boot == <<coldboot_lottery, coldboot_done, entered, inited>>
cpu == <<msip, csrs, saved>>
history == <<asked, astray>>

vars == <<platform, state, start_ticket, next_addr, boot, cpu, pc, call, history>>

Domain == platform.domain
Device == platform.device
Services == platform.services

\* Where the boot loader asks the boot harts to go.
Payload == "payload"

Targets == Addrs \cup {Payload}

States == {"STARTED", "STOPPED", "START_PENDING", "STOP_PENDING",
           "SUSPENDED", "RESUME_PENDING"}

BootLabels ==
  {"off", "sbi_init", "cold", "cold_rest", "domain_startup", "wait_coldboot",
   "warmboot", "hart_wait", "wfi", "warm_init", "start_finish", "start_jump",
   "resume_start", "resume_finish", "resume_jump"}

CallLabels ==
  {"hs_prepare", "hs_cmpxchg", "hs_kick", "hs_rollback", "hs_release",
   "sbi_exit", "hsm_exit", "hsm_stop", "susp_cmpxchg", "susp_device",
   "susp_sleep", "susp_return", "sys_scan", "sys_save"}

\* The frame of a call: the hart a start is for, the address, the kind of
\* suspend, where the call returns to, what a loop has left to visit (domains of
\* sbi_domain_startup(), harts of sbi_system_suspend()), and the answers that
\* sbi_hsm_hart_start() computes from the counts it read.
Frames == [target : Harts, addr : Targets, kind : {"ret", "nonret"},
           back : {"S", "domain_startup"},
           todo : SUBSET (Harts \cup Domains),
           out : BOOLEAN, first : BOOLEAN]

Frame(h) == [target |-> h, addr |-> Payload, kind |-> "ret", back |-> "S",
             todo |-> {}, out |-> FALSE, first |-> FALSE]

TypeOK ==
  /\ platform \in Platforms
  /\ state \in [Harts -> States]
  /\ start_ticket \in [Harts -> 0 .. 1]
  /\ next_addr \in [Harts -> Targets]
  /\ coldboot_lottery \in 0 .. 1
  /\ coldboot_done \in BOOLEAN
  /\ entered \in [Harts -> BOOLEAN]
  /\ inited \in [Harts -> BOOLEAN]
  /\ msip \in [Harts -> BOOLEAN]
  /\ csrs \in [Harts -> {"reset", "live"}]
  /\ saved \in [Harts -> {"reset", "live"}]
  /\ pc \in [Harts -> BootLabels \cup CallLabels \cup {"S", "hang"}]
  /\ call \in [Harts -> Frames]
  /\ asked \in [Harts -> Targets]
  /\ astray \in [Harts -> BOOLEAN]

\* Power-on: every hart enters the firmware, or one does and the others are off
\* until the device's hart_start().
Init ==
  /\ platform \in Platforms
  /\ state = [h \in Harts |-> "STOPPED"]
  /\ start_ticket = [h \in Harts |-> 0]
  /\ next_addr = [h \in Harts |-> Payload]
  /\ coldboot_lottery = 0
  /\ coldboot_done = FALSE
  /\ entered = [h \in Harts |-> FALSE]
  /\ inited = [h \in Harts |-> FALSE]
  /\ msip = [h \in Harts |-> FALSE]
  /\ csrs = [h \in Harts |-> "reset"]
  /\ saved = [h \in Harts |-> "reset"]
  /\ call = [h \in Harts |-> Frame(h)]
  /\ asked = [h \in Harts |-> Payload]
  /\ astray = [h \in Harts |-> FALSE]
  /\ \E b \in Harts :
       pc = [h \in Harts |->
               IF platform.power_on = "one" /\ h # b THEN "off" ELSE "sbi_init"]
-----------------------------------------------------------------------------
Goto(h, label) == pc' = [pc EXCEPT ![h] = label]

\* __sbi_hsm_hart_change_state(): atomic_cmpxchg, then one of two ways on.
ChangeState(h, t, old, new, yes, no) ==
  IF state[t] = old
  THEN /\ state' = [state EXCEPT ![t] = new]
       /\ Goto(h, yes)
  ELSE /\ Goto(h, no)
       /\ UNCHANGED state

\* sbi_hart_switch_mode(): the hart is in S-mode, at the address it was asked to
\* go to or not.
SwitchMode(h) ==
  /\ Goto(h, "S")
  /\ astray' = [astray EXCEPT ![h] = next_addr[h] # asked[h]]
  /\ asked' = [asked EXCEPT ![h] = Payload]

\* The hart enters _start_warm: the CSRs are back to their reset values.
EnterFirmware(h) ==
  /\ Goto(h, "sbi_init")
  /\ csrs' = [csrs EXCEPT ![h] = "reset"]
-----------------------------------------------------------------------------
\* Boot: sbi_init(), init_coldboot(), init_warmboot() and what they call.

\* Bug: a lottery every hart wins.
SbiInitAllCold(h) ==
  /\ pc[h] = "sbi_init"
  /\ Goto(h, "cold")
  /\ coldboot_lottery' = 1
  /\ UNCHANGED <<state, start_ticket, next_addr, coldboot_done, entered, inited,
                 cpu, call, history>>

\* sbi_init(): atomic_xchg(&coldboot_lottery, 1) == 0 picks the cold boot hart.
SbiInit(h) ==
  /\ pc[h] = "sbi_init"
  /\ Goto(h, IF coldboot_lottery = 0 THEN "cold" ELSE "wait_coldboot")
  /\ coldboot_lottery' = 1
  /\ UNCHANGED <<state, start_ticket, next_addr, coldboot_done, entered, inited,
                 cpu, call, history>>

\* init_coldboot() up to and including sbi_hsm_init(): no other hart is past
\* wait_for_coldboot(), so the loop over all harts is one step.
InitColdboot(h) ==
  /\ pc[h] = "cold"
  /\ entered' = [entered EXCEPT ![h] = TRUE]
  /\ state' = [i \in Harts |-> IF i = h THEN "START_PENDING" ELSE "STOPPED"]
  /\ start_ticket' = [i \in Harts |-> 0]
  /\ Goto(h, "cold_rest")
  /\ UNCHANGED <<next_addr, coldboot_lottery, coldboot_done, inited, cpu, call,
                 history>>

\* wake_coldboot_harts() and the rest of init_coldboot() before domain startup,
\* of which sbi_ipi_init() and the CSR set-up matter here.
WakeColdbootHarts(h) ==
  /\ pc[h] = "cold_rest"
  /\ coldboot_done' = TRUE
  /\ msip' = [msip EXCEPT ![h] = FALSE]
  /\ csrs' = [csrs EXCEPT ![h] = "live"]
  /\ call' = [call EXCEPT ![h].todo = {Domain[i] : i \in Harts}]
  /\ Goto(h, "domain_startup")
  /\ UNCHANGED <<state, start_ticket, next_addr, coldboot_lottery, entered,
                 inited, saved, history>>

\* wait_for_coldboot()
WaitForColdboot(h) ==
  /\ pc[h] = "wait_coldboot"
  /\ coldboot_done
  /\ Goto(h, "warmboot")
  /\ UNCHANGED <<state, start_ticket, next_addr, boot, cpu, call, history>>

\* Bug: a suspended hart goes to the end of its resume at once.
InitWarmbootShort(h) ==
  /\ pc[h] = "warmboot"
  /\ IF state[h] = "SUSPENDED"
     THEN /\ Goto(h, "resume_finish")
          /\ UNCHANGED <<msip, entered>>
     ELSE /\ Goto(h, "hart_wait")
          /\ msip' = [msip EXCEPT ![h] = FALSE]
          /\ entered' = [entered EXCEPT ![h] = TRUE]
  /\ UNCHANGED <<state, start_ticket, next_addr, coldboot_lottery, coldboot_done,
                 inited, csrs, saved, call, history>>

\* init_warmboot(): resume a suspended hart, else clear the IPI, count the entry
\* and wait to be started.
InitWarmboot(h) ==
  /\ pc[h] = "warmboot"
  /\ IF state[h] = "SUSPENDED"
     THEN /\ Goto(h, "resume_start")
          /\ UNCHANGED <<msip, entered>>
     ELSE /\ Goto(h, "hart_wait")
          /\ msip' = [msip EXCEPT ![h] = FALSE]
          /\ entered' = [entered EXCEPT ![h] = TRUE]
  /\ UNCHANGED <<state, start_ticket, next_addr, coldboot_lottery, coldboot_done,
                 inited, csrs, saved, call, history>>

\* Bug: any wake-up is taken for a start.
HartWaitOnce(h) ==
  /\ pc[h] = "hart_wait"
  /\ Goto(h, IF state[h] = "START_PENDING" \/ msip[h] THEN "warm_init" ELSE "wfi")
  /\ UNCHANGED <<state, start_ticket, next_addr, boot, cpu, call, history>>

\* sbi_hsm_hart_wait(): the test of the while loop.
HartWait(h) ==
  /\ pc[h] = "hart_wait"
  /\ Goto(h, IF state[h] = "START_PENDING" THEN "warm_init" ELSE "wfi")
  /\ UNCHANGED <<state, start_ticket, next_addr, boot, cpu, call, history>>

\* sbi_hsm_hart_wait(): wfi returns once a software interrupt is pending.
Wfi(h) ==
  /\ pc[h] = "wfi"
  /\ msip[h]
  /\ Goto(h, "hart_wait")
  /\ UNCHANGED <<state, start_ticket, next_addr, boot, cpu, call, history>>

\* The rest of init_warm_startup(): sbi_ipi_init() clears the IPI that woke us.
InitWarmStartup(h) ==
  /\ pc[h] = "warm_init"
  /\ msip' = [msip EXCEPT ![h] = FALSE]
  /\ csrs' = [csrs EXCEPT ![h] = "live"]
  /\ entered' = [entered EXCEPT ![h] = FALSE]
  /\ inited' = [inited EXCEPT ![h] = TRUE]
  /\ Goto(h, "start_finish")
  /\ UNCHANGED <<state, start_ticket, next_addr, coldboot_lottery, coldboot_done,
                 saved, call, history>>

\* Bug: the hart leaves for S-mode before it publishes STARTED.
StartFinishEarly(h) ==
  /\ pc[h] = "start_finish"
  /\ Goto(h, "start_jump")
  /\ UNCHANGED <<state, start_ticket, next_addr, boot, cpu, call, history>>

\* sbi_hsm_hart_start_finish(): the state change.
StartFinish(h) ==
  /\ pc[h] = "start_finish"
  /\ ChangeState(h, h, "START_PENDING", "STARTED", "start_jump", "hang")
  /\ UNCHANGED <<start_ticket, next_addr, boot, cpu, call, history>>

\* sbi_hsm_hart_start_finish(): read next_*, release the ticket, switch mode.
StartJump(h) ==
  /\ pc[h] = "start_jump"
  /\ SwitchMode(h)
  /\ start_ticket' = [start_ticket EXCEPT ![h] = 0]
  /\ UNCHANGED <<state, next_addr, boot, cpu, call>>

\* init_warm_resume(): sbi_hsm_hart_resume_start().
ResumeStart(h) ==
  /\ pc[h] = "resume_start"
  /\ ChangeState(h, h, "SUSPENDED", "RESUME_PENDING", "resume_finish", "hang")
  /\ UNCHANGED <<start_ticket, next_addr, boot, cpu, call, history>>

\* sbi_hsm_hart_resume_finish(): the state change.
ResumeFinish(h) ==
  /\ pc[h] = "resume_finish"
  /\ ChangeState(h, h, "RESUME_PENDING", "STARTED", "resume_jump", "hang")
  /\ UNCHANGED <<start_ticket, next_addr, boot, cpu, call, history>>

\* sbi_hsm_hart_resume_finish(): restore the CSRs, read next_*, switch mode.
ResumeJump(h) ==
  /\ pc[h] = "resume_jump"
  /\ csrs' = [csrs EXCEPT ![h] = saved[h]]
  /\ SwitchMode(h)
  /\ UNCHANGED <<state, start_ticket, next_addr, boot, msip, saved, call>>
-----------------------------------------------------------------------------
\* sbi_hsm_hart_start()

\* Bug: the ticket is counted up, not compared and exchanged.
AcquireAlways(h, frame) ==
  /\ start_ticket' = [start_ticket EXCEPT ![frame.target] = @ + 1]
  /\ call' = [call EXCEPT ![h] = frame]
  /\ Goto(h, "hs_prepare")

\* The checks and hsm_start_ticket_acquire().  A refused call changes nothing in
\* S-mode and is a stuttering step; in sbi_domain_startup() it hangs the hart.
Acquire(h, frame) ==
  /\ start_ticket[frame.target] = 0
  /\ start_ticket' = [start_ticket EXCEPT ![frame.target] = 1]
  /\ call' = [call EXCEPT ![h] = frame]
  /\ Goto(h, "hs_prepare")

\* The SBI call: a hart starts harts of its own domain only.
HartStart(h) ==
  /\ pc[h] = "S"
  /\ "start" \in Services
  /\ \E t \in {i \in Harts : Domain[i] = Domain[h]}, a \in Addrs :
       Acquire(h, [Frame(t) EXCEPT !.addr = a])
  /\ UNCHANGED <<state, next_addr, boot, cpu, history>>

\* The boot hart of domain d: sbi_domain_register() forces the cold boot hart.
DomainBootHart(h, d) == IF Domain[h] = d THEN h ELSE BootHart[d]

\* sbi_domain_startup(): one domain of the list.
DomainStartup(h) ==
  /\ pc[h] = "domain_startup"
  /\ \E d \in call[h].todo :
       LET b == DomainBootHart(h, d)
           frame == [Frame(b) EXCEPT !.back = "domain_startup",
                                     !.todo = call[h].todo \ {d}]
       IN IF b = h \/ Domain[b] # d
          THEN /\ next_addr' = IF b = h THEN [next_addr EXCEPT ![h] = Payload]
                                        ELSE next_addr
               /\ call' = [call EXCEPT ![h].todo = @ \ {d}]
               /\ UNCHANGED <<start_ticket, pc>>
          ELSE /\ UNCHANGED next_addr
               /\ \/ Acquire(h, frame)
                  \/ /\ start_ticket[b] = 1
                     /\ Goto(h, "hang")
                     /\ UNCHANGED <<start_ticket, call>>
  /\ UNCHANGED <<state, boot, cpu, history>>

\* init_coldboot() after sbi_domain_startup(): count the init, start_finish.
ColdbootFinish(h) ==
  /\ pc[h] = "domain_startup"
  /\ call[h].todo = {}
  /\ entered' = [entered EXCEPT ![h] = FALSE]
  /\ inited' = [inited EXCEPT ![h] = TRUE]
  /\ Goto(h, "start_finish")
  /\ UNCHANGED <<state, start_ticket, next_addr, coldboot_lottery, coldboot_done,
                 cpu, call, history>>

\* Bug: next_* is written for the first start of a hart only.
HartStartPrepareOnce(h) ==
  /\ pc[h] = "hs_prepare"
  /\ LET t == call[h].target
     IN /\ call' = [call EXCEPT ![h].out = ~entered[t], ![h].first = ~inited[t]]
        /\ next_addr' = IF inited[t] THEN next_addr
                        ELSE [next_addr EXCEPT ![t] = call[h].addr]
  /\ Goto(h, "hs_cmpxchg")
  /\ UNCHANGED <<state, start_ticket, boot, cpu, history>>

\* Read the counts and write the target's next_*, before the state is looked at.
HartStartPrepare(h) ==
  /\ pc[h] = "hs_prepare"
  /\ LET t == call[h].target
     IN /\ call' = [call EXCEPT ![h].out = ~entered[t], ![h].first = ~inited[t]]
        /\ next_addr' = [next_addr EXCEPT ![t] = call[h].addr]
  /\ Goto(h, "hs_cmpxchg")
  /\ UNCHANGED <<state, start_ticket, boot, cpu, history>>

\* Bug: the starter drops the ticket as soon as the start is accepted.
HartStartCmpxchgDrop(h) ==
  /\ pc[h] = "hs_cmpxchg"
  /\ LET t == call[h].target
     IN /\ ChangeState(h, t, "STOPPED", "START_PENDING", "hs_kick", "hs_release")
        /\ asked' = IF state[t] = "STOPPED"
                    THEN [asked EXCEPT ![t] = call[h].addr] ELSE asked
        /\ start_ticket' = [start_ticket EXCEPT ![t] = 0]
  /\ UNCHANGED <<next_addr, boot, cpu, call, astray>>

\* atomic_cmpxchg(&hdata->state, STOPPED, START_PENDING)
HartStartCmpxchg(h) ==
  /\ pc[h] = "hs_cmpxchg"
  /\ LET t == call[h].target
     IN /\ ChangeState(h, t, "STOPPED", "START_PENDING", "hs_kick", "hs_release")
        /\ asked' = IF state[t] = "STOPPED"
                    THEN [asked EXCEPT ![t] = call[h].addr] ELSE asked
  /\ UNCHANGED <<start_ticket, next_addr, boot, cpu, call, astray>>

\* The frame of a hart that is back from sbi_hsm_hart_start().
Returned(h) == [call EXCEPT ![h] = [Frame(h) EXCEPT !.todo = call[h].todo]]

\* hsm_device_has_hart_hotplug() and hsm_device_has_hart_secondary_boot()
ViaDevice(h) ==
  \/ Device \in {"hotplug", "smu"} /\ call[h].out
  \/ Device = "secondary" /\ call[h].first

\* hsm_device_hart_start(): the device powers the hart up at warmboot_addr.  Asked
\* to start a hart that is on, "hotplug" (RPMI) refuses; "smu" (ae350_hart_start)
\* sends an IPI to a hart never initialised and else accepts, to no effect.
DeviceStart(h) ==
  LET t == call[h].target
  IN \/ /\ pc[t] = "off"
        /\ pc' = [pc EXCEPT ![h] = call[h].back, ![t] = "sbi_init"]
        /\ csrs' = [csrs EXCEPT ![t] = "reset"]
        /\ call' = Returned(h)
        /\ UNCHANGED msip
     \/ /\ pc[t] # "off"
        /\ Device # "smu"
        /\ Goto(h, "hs_rollback")
        /\ UNCHANGED <<csrs, msip, call>>
     \/ /\ pc[t] # "off"
        /\ Device = "smu"
        /\ msip' = IF inited[t] THEN msip ELSE [msip EXCEPT ![t] = TRUE]
        /\ Goto(h, call[h].back)
        /\ call' = Returned(h)
        /\ UNCHANGED csrs

\* Wake the target: through the device, else sbi_ipi_raw_send().
HartStartKick(h) ==
  /\ pc[h] = "hs_kick"
  /\ \/ /\ ViaDevice(h)
        /\ DeviceStart(h)
     \/ /\ ~ViaDevice(h)
        /\ msip' = [msip EXCEPT ![call[h].target] = TRUE]
        /\ Goto(h, call[h].back)
        /\ call' = Returned(h)
        /\ UNCHANGED csrs
  /\ UNCHANGED <<state, start_ticket, next_addr, boot, saved, history>>

\* Bug: a start that failed leaves START_PENDING behind.
HartStartRollbackNot(h) ==
  /\ pc[h] = "hs_rollback"
  /\ Goto(h, "hs_release")
  /\ UNCHANGED <<state, start_ticket, next_addr, boot, cpu, call, history>>

\* The start failed: the state goes back to STOPPED.
HartStartRollback(h) ==
  /\ pc[h] = "hs_rollback"
  /\ ChangeState(h, call[h].target, "START_PENDING", "STOPPED",
                 "hs_release", "hs_release")
  /\ UNCHANGED <<start_ticket, next_addr, boot, cpu, call, history>>

\* hsm_start_ticket_release() on the error path; a domain that cannot be started
\* hangs the cold boot hart.
HartStartRelease(h) ==
  /\ pc[h] = "hs_release"
  /\ start_ticket' = [start_ticket EXCEPT ![call[h].target] = 0]
  /\ Goto(h, IF call[h].back = "S" THEN "S" ELSE "hang")
  /\ call' = Returned(h)
  /\ UNCHANGED <<state, next_addr, boot, cpu, history>>
-----------------------------------------------------------------------------
\* sbi_hsm_hart_stop() with exitnow, sbi_exit() and sbi_hsm_exit().  The same path
\* serves the halt IPI and sbi_system_reset().

HartStop(h) ==
  /\ pc[h] = "S"
  /\ "stop" \in Services
  /\ ChangeState(h, h, "STARTED", "STOP_PENDING", "sbi_exit", "S")
  /\ UNCHANGED <<start_ticket, next_addr, boot, cpu, call, history>>

\* sbi_exit() up to sbi_hsm_exit(): sbi_ipi_exit() takes the pending IPI.
SbiExit(h) ==
  /\ pc[h] = "sbi_exit"
  /\ msip' = [msip EXCEPT ![h] = FALSE]
  /\ Goto(h, "hsm_exit")
  /\ UNCHANGED <<state, start_ticket, next_addr, boot, csrs, saved, call, history>>

\* sbi_hsm_exit(): the state change.
HsmExit(h) ==
  /\ pc[h] = "hsm_exit"
  /\ ChangeState(h, h, "STOP_PENDING", "STOPPED", "hsm_stop", "hang")
  /\ UNCHANGED <<start_ticket, next_addr, boot, cpu, call, history>>

\* sbi_hsm_exit(): hsm_device_hart_stop() powers the hart down, or the hart jumps
\* to warmboot_addr ("smu": ae350_hart_stop() of a hart without deep sleep).
HsmStop(h) ==
  /\ pc[h] = "hsm_stop"
  /\ \/ /\ Device = "hotplug"
        /\ Goto(h, "off")
        /\ UNCHANGED csrs
     \/ /\ Device # "hotplug"
        /\ EnterFirmware(h)
  /\ UNCHANGED <<state, start_ticket, next_addr, boot, msip, saved, call, history>>
-----------------------------------------------------------------------------
\* sbi_hsm_hart_suspend() and sbi_system_suspend()

\* "Save the resume address and resume mode", while still STARTED.
HartSuspend(h) ==
  /\ pc[h] = "S"
  /\ "suspend" \in Services
  /\ \E k \in {"ret", "nonret"}, a \in Addrs :
       /\ next_addr' = [next_addr EXCEPT ![h] = a]
       /\ call' = [call EXCEPT ![h] = [Frame(h) EXCEPT !.kind = k, !.addr = a]]
  /\ Goto(h, "susp_cmpxchg")
  /\ UNCHANGED <<state, start_ticket, boot, cpu, history>>

\* Bug: the context is not saved before a non-retentive suspend.
HartSuspendCmpxchgUnsaved(h) ==
  /\ pc[h] = "susp_cmpxchg"
  /\ ChangeState(h, h, "STARTED", "SUSPENDED", "susp_device", "S")
  /\ asked' = IF call[h].kind = "nonret" /\ state[h] = "STARTED"
              THEN [asked EXCEPT ![h] = call[h].addr] ELSE asked
  /\ UNCHANGED <<start_ticket, next_addr, boot, cpu, call, astray>>

\* STARTED to SUSPENDED, then __sbi_hsm_suspend_non_ret_save().
HartSuspendCmpxchg(h) ==
  /\ pc[h] = "susp_cmpxchg"
  /\ ChangeState(h, h, "STARTED", "SUSPENDED", "susp_device", "S")
  /\ IF call[h].kind = "nonret" /\ state[h] = "STARTED"
     THEN /\ saved' = [saved EXCEPT ![h] = csrs[h]]
          /\ asked' = [asked EXCEPT ![h] = call[h].addr]
     ELSE UNCHANGED <<saved, asked>>
  /\ UNCHANGED <<start_ticket, next_addr, boot, msip, csrs, call, astray>>

\* hsm_device_hart_suspend(), the default wfi or suspend_dev->system_suspend():
\* the hart sleeps, or the platform refuses.
SuspendDevice(h) ==
  /\ pc[h] = "susp_device"
  /\ Goto(h, "susp_sleep") \/ Goto(h, "susp_return")
  /\ UNCHANGED <<state, start_ticket, next_addr, boot, cpu, call, history>>

\* An interrupt ends the sleep.  From a non-retentive one the hart resumes at
\* warmboot_addr, on its own or because the code jumps there.
SuspendWake(h) ==
  /\ pc[h] = "susp_sleep"
  /\ IF call[h].kind = "nonret"
     THEN /\ EnterFirmware(h)
          /\ call' = [call EXCEPT ![h] = Frame(h)]
     ELSE /\ Goto(h, "susp_return")
          /\ UNCHANGED <<csrs, call>>
  /\ UNCHANGED <<state, start_ticket, next_addr, boot, msip, saved, history>>

\* Back from a retentive suspend, or the suspend failed: STARTED again.
SuspendReturn(h) ==
  /\ pc[h] = "susp_return"
  /\ ChangeState(h, h, "SUSPENDED", "STARTED", "S", "hang")
  /\ call' = [call EXCEPT ![h] = Frame(h)]
  /\ asked' = [asked EXCEPT ![h] = Payload]
  /\ UNCHANGED <<start_ticket, next_addr, boot, cpu, astray>>

SystemSuspend(h) ==
  /\ pc[h] = "S"
  /\ "system_suspend" \in Services
  /\ \E a \in Addrs :
       call' = [call EXCEPT ![h] =
                  [Frame(h) EXCEPT !.kind = "nonret", !.addr = a,
                     !.todo = {i \in Harts : Domain[i] = Domain[h] /\ i # h}]]
  /\ Goto(h, "sys_scan")
  /\ UNCHANGED <<state, start_ticket, next_addr, boot, cpu, history>>

\* The loop over the assigned harts: one state is read per step.
SystemSuspendScan(h) ==
  /\ pc[h] = "sys_scan"
  /\ \E i \in call[h].todo :
       IF state[i] = "STOPPED"
       THEN /\ call' = [call EXCEPT ![h].todo = @ \ {i}]
            /\ UNCHANGED pc
       ELSE /\ call' = [call EXCEPT ![h] = Frame(h)]
            /\ Goto(h, "S")
  /\ UNCHANGED <<state, start_ticket, next_addr, boot, cpu, history>>

\* STARTED to SUSPENDED.
SystemSuspendCmpxchg(h) ==
  /\ pc[h] = "sys_scan"
  /\ call[h].todo = {}
  /\ ChangeState(h, h, "STARTED", "SUSPENDED", "sys_save", "S")
  /\ UNCHANGED <<start_ticket, next_addr, boot, cpu, call, history>>

\* "Prepare for resume"
SystemSuspendSave(h) ==
  /\ pc[h] = "sys_save"
  /\ next_addr' = [next_addr EXCEPT ![h] = call[h].addr]
  /\ saved' = [saved EXCEPT ![h] = csrs[h]]
  /\ asked' = [asked EXCEPT ![h] = call[h].addr]
  /\ Goto(h, "susp_device")
  /\ UNCHANGED <<state, start_ticket, boot, msip, csrs, call, astray>>

\* S-mode is interrupted by a software interrupt: sbi_ipi_process().
TakeIpi(h) ==
  /\ pc[h] = "S"
  /\ msip[h]
  /\ msip' = [msip EXCEPT ![h] = FALSE]
  /\ UNCHANGED <<state, start_ticket, next_addr, boot, csrs, saved, pc, call,
                 history>>
-----------------------------------------------------------------------------
BootStep(h) ==
  \/ SbiInit(h) \/ InitColdboot(h) \/ WakeColdbootHarts(h) \/ DomainStartup(h)
  \/ ColdbootFinish(h) \/ WaitForColdboot(h) \/ InitWarmboot(h) \/ HartWait(h)
  \/ Wfi(h) \/ InitWarmStartup(h) \/ StartFinish(h) \/ StartJump(h)
  \/ ResumeStart(h) \/ ResumeFinish(h) \/ ResumeJump(h)

CallStep(h) ==
  \/ HartStartPrepare(h) \/ HartStartCmpxchg(h) \/ HartStartKick(h)
  \/ HartStartRollback(h) \/ HartStartRelease(h)
  \/ SbiExit(h) \/ HsmExit(h) \/ HsmStop(h)
  \/ HartSuspendCmpxchg(h) \/ SuspendDevice(h) \/ SuspendReturn(h)
  \/ SystemSuspendScan(h) \/ SystemSuspendCmpxchg(h) \/ SystemSuspendSave(h)

\* What S-mode software and the interrupts that end a sleep decide.
EnvStep(h) ==
  \/ HartStart(h) \/ HartStop(h) \/ HartSuspend(h) \/ SystemSuspend(h)
  \/ TakeIpi(h) \/ SuspendWake(h)

Next ==
  /\ \E h \in Harts : BootStep(h) \/ CallStep(h) \/ EnvStep(h)
  /\ UNCHANGED platform

Spec == Init /\ [][Next]_vars

\* A hart in M-mode keeps executing: interrupts are disabled there.  Nothing is
\* assumed of S-mode, nor of the interrupts that would end a sleep.
Fairness == \A h \in Harts : WF_vars((BootStep(h) \/ CallStep(h)) /\ UNCHANGED platform)

FairSpec == Spec /\ Fairness
-----------------------------------------------------------------------------
\* The hart runs S-mode code.
InSMode(h) == pc[h] = "S"

\* h holds the start ticket of t and t has not been handed over.
Preparing(h, t) ==
  pc[h] \in {"hs_prepare", "hs_cmpxchg", "hs_release"} /\ call[h].target = t

\* No cmpxchg of the life cycle ever finds a state it does not expect: no hart
\* ends in the sbi_hart_hang() of start_finish, hsm_exit, resume or suspend, and
\* no rollback of a failed start pulls the state from under a running hart.
NoHang == \A h \in Harts : pc[h] # "hang"

\* S-mode runs on a hart only while every other hart reads its state as STARTED,
\* and with the CSRs set up by its init or restored by its resume.
RunsWhenStarted ==
  \A h \in Harts : InSMode(h) => state[h] = "STARTED" /\ csrs[h] = "live"

\* The life cycle of the harts holds together: no step finds a state another hart
\* took away, and S-mode runs on a whole, STARTED hart.
LifecycleSound == NoHang /\ RunsWhenStarted

\* "only one hart prepares the start of the target hart": while one does, the
\* ticket is taken, nobody else prepares it and no earlier start is unfinished.
StartIsExclusive ==
  \A h, t \in Harts :
    Preparing(h, t) =>
      /\ start_ticket[t] = 1
      /\ state[t] # "START_PENDING"
      /\ pc[t] # "start_jump"
      /\ \A g \in Harts : Preparing(g, t) => g = h

\* One cold boot: sbi_hsm_init() has run before any hart looks at its state.
OneColdboot ==
  /\ \A g, h \in Harts :
       pc[g] \in {"cold", "cold_rest"} /\ pc[h] \in {"cold", "cold_rest"} => g = h
  /\ (\E h \in Harts : pc[h] = "cold") =>
       \A g \in Harts : pc[g] \in {"off", "sbi_init", "cold", "wait_coldboot"}

\* A hart enters S-mode at the address of the start or the suspend call that was
\* accepted for it.
EntersWhereAsked == \A h \in Harts : ~astray[h]

\* No pending state lasts: a start, a stop and a resume all come to an end.
PendingEnds ==
  \A h \in Harts :
    \A s \in {"START_PENDING", "STOP_PENDING", "RESUME_PENDING"} :
      state[h] = s ~> state[h] # s

\* One hart at a time sets things up: a single cold boot for the system, and at any
\* time a single starter for each target.
StartsSound == TypeOK /\ OneColdboot /\ StartIsExclusive
=============================================================================
