-------------------------------- MODULE Ipi --------------------------------
(***************************************************************************)
(* Inter-processor interrupts (lib/sbi/sbi_ipi.c): the S-mode IPI, and the *)
(* halt IPI of sbi_system_reset() (lib/sbi/sbi_system.c).                  *)
(*                                                                         *)
(* A sender sets an event bit in the target's ipi_type and raises the      *)
(* interrupt only if the word was zero; the target clears the interrupt,   *)
(* then exchanges the word with zero and runs the callbacks.  Each of      *)
(* these accesses is one step.  Harts stop (by a halt IPI or by their own  *)
(* reset or stop call) and are started again at any time, also under a     *)
(* sender that still has the hart in its mask; they suspend themselves and *)
(* resume.  The HSM protocol that does it is module Hsm, reduced here to   *)
(* the state it publishes.                                                 *)
(***************************************************************************)
EXTENDS Naturals, FiniteSets

CONSTANTS
  Harts,
  Calls,      \* the calls S-mode on each hart makes, in any order, any number of times
  Masks       \* the harts it asks to send S-mode IPIs to

ASSUME IpiAssumption ==
  /\ Calls \in [Harts -> SUBSET {"send", "reset", "stop", "start", "suspend"}]
  /\ Masks \subseteq SUBSET Harts

\* The registered events, by their bit: sbi_ipi_event_create() hands out 0 first.
SMODE == 0
HALT == 1
Events == {SMODE, HALT}

VARIABLES
  state,      \* HSM state of each hart
  ipi_type,   \* the pending events of each hart
  msip,       \* the hart's software interrupt is raised
  ssip,       \* MIP.SSIP: the S-mode IPI is pending
  pc,
  event,      \* what a sender sends
  targets,    \* target_mask of a sender, what is left of it
  dest,       \* the hart a sender is about to interrupt
  type,       \* the local ipi_type of a receiver, what is left of it
  early       \* history: the harts started under a sender (Start, IpiInitClear)

frame == <<event, targets, dest, type, early>>
ipi_vars == <<state, ipi_type, msip, ssip, pc, frame>>

Labels == {"S", "send", "raw_send", "xchg", "process", "exit", "exit_xchg",
           "exit_process", "stopped", "init", "init_clear", "start_finish",
           "suspended", "resume_finish"}

States == {"STARTED", "STOP_PENDING", "STOPPED", "START_PENDING", "SUSPENDED",
           "RESUME_PENDING"}

IpiTypeOK ==
  /\ state \in [Harts -> States]
  /\ ipi_type \in [Harts -> SUBSET Events]
  /\ msip \in [Harts -> BOOLEAN]
  /\ ssip \in [Harts -> BOOLEAN]
  /\ pc \in [Harts -> Labels]
  /\ event \in [Harts -> Events]
  /\ targets \in [Harts -> SUBSET Harts]
  /\ dest \in [Harts -> Harts]
  /\ type \in [Harts -> SUBSET Events]
  /\ early \in SUBSET Harts

IpiAtBoot ==
  /\ state = [h \in Harts |-> "STARTED"]
  /\ ipi_type = [h \in Harts |-> {}]
  /\ msip = [h \in Harts |-> FALSE]
  /\ ssip = [h \in Harts |-> FALSE]
  /\ pc = [h \in Harts |-> "S"]
  /\ event = [h \in Harts |-> SMODE]
  /\ targets = [h \in Harts |-> {}]
  /\ dest = [h \in Harts |-> h]
  /\ type = [h \in Harts |-> {}]
  /\ early = {}

Goto(h, label) == pc' = [pc EXCEPT ![h] = label]

\* S-mode on h makes this call.
Call(h, name) == pc[h] = "S" /\ name \in Calls[h]
-----------------------------------------------------------------------------
\* Sending

\* sbi_hsm_hart_interruptible_mask(): what the HSM states say at this moment.
Interruptible ==
  {t \in Harts : state[t] \in {"STARTED", "SUSPENDED", "RESUME_PENDING"}}

\* sbi_ipi_send_many(): the targets, from the mask and the states.
SendMany(h, mask, e) ==
  /\ event' = [event EXCEPT ![h] = e]
  /\ targets' = [targets EXCEPT ![h] = Interruptible \cap mask]
  /\ Goto(h, "send")
  /\ UNCHANGED <<state, ipi_type, msip, ssip, dest, type, early>>

\* sbi_ipi_send_smode(), from the ecall.
SendSmode(h) ==
  /\ Call(h, "send")
  /\ \E mask \in Masks : SendMany(h, mask, SMODE)

\* sbi_system_reset(): sbi_ipi_send_halt(0, -1UL).
SystemReset(h) ==
  /\ Call(h, "reset")
  /\ SendMany(h, Harts, HALT)

\* sbi_ipi_send() to the hart itself: the S-mode event is processed directly, the
\* halt event is not sent (sbi_ipi_update_halt()).
SendSelf(h) ==
  /\ pc[h] = "send"
  /\ h \in targets[h]
  /\ ssip' = IF event[h] = SMODE THEN [ssip EXCEPT ![h] = TRUE] ELSE ssip
  /\ targets' = [targets EXCEPT ![h] = @ \ {h}]
  /\ UNCHANGED <<state, ipi_type, msip, pc, event, dest, type, early>>

\* Bug: the interrupt is raised for an event that joins others, not for the first.
RaiseOnNew(t, e) == e \notin ipi_type[t] /\ ipi_type[t] # {}

\* __atomic_fetch_or() returned zero: this sender has to raise the interrupt.
Raise(t, e) == ipi_type[t] = {}

\* sbi_ipi_send(): the atomic OR.
SendOr(h) ==
  /\ pc[h] = "send"
  /\ \E t \in targets[h] \ {h} :
       /\ ipi_type' = [ipi_type EXCEPT ![t] = @ \cup {event[h]}]
       /\ targets' = [targets EXCEPT ![h] = @ \ {t}]
       /\ IF Raise(t, event[h])
          THEN /\ dest' = [dest EXCEPT ![h] = t]
               /\ Goto(h, "raw_send")
          ELSE UNCHANGED <<dest, pc>>
  /\ UNCHANGED <<state, msip, ssip, event, type, early>>

\* sbi_ipi_raw_send()
RawSend(h) ==
  /\ pc[h] = "raw_send"
  /\ msip' = [msip EXCEPT ![dest[h]] = TRUE]
  /\ dest' = [dest EXCEPT ![h] = h]
  /\ Goto(h, "send")
  /\ UNCHANGED <<state, ipi_type, ssip, event, targets, type, early>>

\* The loop is done.  An S-mode IPI returns; sbi_system_reset() stops this hart
\* (sbi_hsm_hart_stop(), then sbi_exit(): no reset device).
SendDone(h) ==
  /\ pc[h] = "send"
  /\ targets[h] = {}
  /\ IF event[h] = SMODE
     THEN /\ Goto(h, "S")
          /\ UNCHANGED state
     ELSE /\ Goto(h, "exit")
          /\ state' = [state EXCEPT ![h] = "STOP_PENDING"]
  /\ event' = [event EXCEPT ![h] = SMODE]
  /\ UNCHANGED <<ipi_type, msip, ssip, targets, dest, type, early>>
-----------------------------------------------------------------------------
\* Receiving

\* The software interrupt traps: sbi_ipi_process() clears it.
TakeIpi(h) ==
  /\ pc[h] = "S"
  /\ msip[h]
  /\ msip' = [msip EXCEPT ![h] = FALSE]
  /\ Goto(h, "xchg")
  /\ UNCHANGED <<state, ipi_type, ssip, frame>>

\* sbi_ipi_process(): atomic_raw_xchg_ulong(), from the trap or from sbi_ipi_exit().
Xchg(h) ==
  /\ pc[h] \in {"xchg", "exit_xchg"}
  /\ type' = [type EXCEPT ![h] = ipi_type[h]]
  /\ ipi_type' = [ipi_type EXCEPT ![h] = {}]
  /\ Goto(h, IF pc[h] = "xchg" THEN "process" ELSE "exit_process")
  /\ UNCHANGED <<state, msip, ssip, event, targets, dest, early>>

\* sbi_ipi_process_smode()
ProcessSmode(h) ==
  /\ pc[h] \in {"process", "exit_process"}
  /\ SMODE \in type[h]
  /\ ssip' = [ssip EXCEPT ![h] = TRUE]
  /\ type' = [type EXCEPT ![h] = @ \ {SMODE}]
  /\ UNCHANGED <<state, ipi_type, msip, pc, event, targets, dest, early>>

\* Bug: a halt is dropped when another event came with it.
ProcessHaltAlone(h) ==
  /\ pc[h] \in {"process", "exit_process"}
  /\ HALT \in type[h]
  /\ type' = [type EXCEPT ![h] = @ \ {HALT}]
  /\ IF state[h] = "STARTED" /\ type[h] = {HALT}
     THEN /\ state' = [state EXCEPT ![h] = "STOP_PENDING"]
          /\ Goto(h, "exit")
     ELSE UNCHANGED <<state, pc>>
  /\ UNCHANGED <<ipi_type, msip, ssip, event, targets, dest, early>>

\* sbi_ipi_process_halt(): sbi_hsm_hart_stop() stops a STARTED hart and never
\* returns; a hart that is already on its way out stays on it.
ProcessHalt(h) ==
  /\ pc[h] \in {"process", "exit_process"}
  /\ SMODE \notin type[h]
  /\ HALT \in type[h]
  /\ type' = [type EXCEPT ![h] = {}]
  /\ IF state[h] = "STARTED"
     THEN /\ state' = [state EXCEPT ![h] = "STOP_PENDING"]
          /\ Goto(h, "exit")
     ELSE UNCHANGED <<state, pc>>
  /\ UNCHANGED <<ipi_type, msip, ssip, event, targets, dest, early>>

\* No bit left: back to S-mode, or on to sbi_hsm_exit().
ProcessDone(h) ==
  /\ pc[h] \in {"process", "exit_process"}
  /\ type[h] = {}
  /\ IF pc[h] = "process"
     THEN /\ Goto(h, "S")
          /\ UNCHANGED state
     ELSE /\ Goto(h, "stopped")
          /\ state' = [state EXCEPT ![h] = "STOPPED"]
  /\ UNCHANGED <<ipi_type, msip, ssip, frame>>

\* The hart stop call: sbi_hsm_hart_stop() and sbi_exit().
HartStop(h) ==
  /\ Call(h, "stop")
  /\ state' = [state EXCEPT ![h] = "STOP_PENDING"]
  /\ Goto(h, "exit")
  /\ UNCHANGED <<ipi_type, msip, ssip, frame>>

\* sbi_ipi_exit(): interrupts off, then sbi_ipi_process() clears the interrupt.
IpiExit(h) ==
  /\ pc[h] = "exit"
  /\ msip' = [msip EXCEPT ![h] = FALSE]
  /\ Goto(h, "exit_xchg")
  /\ UNCHANGED <<state, ipi_type, ssip, frame>>

\* S-mode clears its IPI.
ClearSmode(h) ==
  /\ pc[h] = "S"
  /\ ssip[h]
  /\ ssip' = [ssip EXCEPT ![h] = FALSE]
  /\ UNCHANGED <<state, ipi_type, msip, pc, frame>>
-----------------------------------------------------------------------------
\* Restarting

\* A sender is about to raise h's interrupt.
Raising(h) == \E s \in Harts : pc[s] = "raw_send" /\ dest[s] = h

\* A sender took its mask while h was running and is not done with h.
Owed(h) == Raising(h) \/ \E s \in Harts : h \in targets[s]

\* A running hart starts a stopped one, which goes through its warm boot.  It is
\* started early when a sender still has it in its mask.
Start(g, h) ==
  /\ Call(g, "start")
  /\ pc[h] = "stopped"
  /\ state' = [state EXCEPT ![h] = "START_PENDING"]
  /\ msip' = [msip EXCEPT ![h] = TRUE]
  /\ early' = IF Owed(h) THEN early \cup {h} ELSE early \ {h}
  /\ Goto(h, "init")
  /\ UNCHANGED <<ipi_type, ssip, event, targets, dest, type>>

\* sbi_ipi_init(): ipi_type = 0
IpiInit(h) ==
  /\ pc[h] = "init"
  /\ ipi_type' = [ipi_type EXCEPT ![h] = {}]
  /\ Goto(h, "init_clear")
  /\ UNCHANGED <<state, msip, ssip, frame>>

\* sbi_ipi_init(): sbi_ipi_raw_clear(), then enable the interrupt.  An early start is
\* over with it, unless the interrupt of a pending event is what it cleared.
IpiInitClear(h) ==
  /\ pc[h] = "init_clear"
  /\ msip' = [msip EXCEPT ![h] = FALSE]
  /\ early' = IF ipi_type[h] = {} \/ Raising(h) THEN early \ {h} ELSE early
  /\ Goto(h, "start_finish")
  /\ UNCHANGED <<state, ipi_type, ssip, event, targets, dest, type>>

\* sbi_hsm_hart_start_finish()
StartFinish(h) ==
  /\ pc[h] = "start_finish"
  /\ state' = [state EXCEPT ![h] = "STARTED"]
  /\ ssip' = [ssip EXCEPT ![h] = FALSE]
  /\ Goto(h, "S")
  /\ UNCHANGED <<ipi_type, msip, frame>>
-----------------------------------------------------------------------------
\* Suspending

\* sbi_hsm_hart_suspend()
HartSuspend(h) ==
  /\ Call(h, "suspend")
  /\ state' = [state EXCEPT ![h] = "SUSPENDED"]
  /\ Goto(h, "suspended")
  /\ UNCHANGED <<ipi_type, msip, ssip, frame>>

\* The hart leaves its suspend state: a retentive one at once, a non-retentive one
\* through its warm boot (sbi_hsm_hart_resume_start()), which leaves ipi_type and the
\* interrupt alone.
Resume(h) ==
  /\ pc[h] = "suspended"
  /\ \/ /\ state' = [state EXCEPT ![h] = "STARTED"]
        /\ Goto(h, "S")
     \/ /\ state' = [state EXCEPT ![h] = "RESUME_PENDING"]
        /\ Goto(h, "resume_finish")
  /\ UNCHANGED <<ipi_type, msip, ssip, frame>>

\* sbi_hsm_hart_resume_finish()
ResumeFinish(h) ==
  /\ pc[h] = "resume_finish"
  /\ state' = [state EXCEPT ![h] = "STARTED"]
  /\ Goto(h, "S")
  /\ UNCHANGED <<ipi_type, msip, ssip, frame>>
-----------------------------------------------------------------------------
SendStep(h) == SendSelf(h) \/ SendOr(h) \/ RawSend(h) \/ SendDone(h)

ReceiveStep(h) ==
  \/ TakeIpi(h) \/ Xchg(h) \/ ProcessSmode(h) \/ ProcessHalt(h)
  \/ ProcessDone(h) \/ IpiExit(h)

InitStep(h) == IpiInit(h) \/ IpiInitClear(h) \/ StartFinish(h) \/ ResumeFinish(h)

IpiNext ==
  \E h \in Harts :
    \/ SendSmode(h) \/ SystemReset(h) \/ HartStop(h) \/ ClearSmode(h)
    \/ HartSuspend(h) \/ Resume(h)
    \/ SendStep(h) \/ ReceiveStep(h) \/ InitStep(h)
    \/ \E g \in Harts : Start(g, h)

IpiSpec == IpiAtBoot /\ [][IpiNext]_ipi_vars

\* Fairness: M-mode code keeps running.  A raised software interrupt
\* traps: MSIE is set, S-mode cannot mask a machine interrupt, and the hart looks for
\* one on every mret, so S-mode calls cannot put it off for ever (strong fairness).
\* It also wakes a suspended hart; other interrupts may do so at any time.
IpiFair ==
  \A h \in Harts :
    /\ WF_ipi_vars(SendStep(h))
    /\ WF_ipi_vars(ReceiveStep(h))
    /\ WF_ipi_vars(InitStep(h))
    /\ SF_ipi_vars(TakeIpi(h))
    /\ WF_ipi_vars(msip[h] /\ Resume(h))

-----------------------------------------------------------------------------
\* The hart takes software interrupts: MIE.MSIE is set, or will be when it resumes.
Listening(h) ==
  pc[h] \in {"S", "send", "raw_send", "xchg", "process", "start_finish", "suspended",
             "resume_finish"}

\* No lost wake-up: a pending event has its interrupt raised, or a sender about to
\* raise it, or a receiver about to look.  Otherwise every later sender would find
\* ipi_type non-zero, raise nothing, and the hart would be deaf for good.  The one
\* exception is a hart that was started while a sender from its earlier life still had
\* it in its mask, when the event came between the two halves of sbi_ipi_init(): the
\* clear of the second half takes its interrupt away.
NoLostIpi ==
  \A h \in Harts \ early :
    Listening(h) /\ ipi_type[h] # {} => msip[h] \/ pc[h] = "xchg" \/ Raising(h)

\* The inductive invariant behind NoLostIpi.  A hart that is being started, and not
\* early, has no sender left from its earlier life; the others see it START_PENDING, so
\* no sender takes it into a new mask; and once sbi_ipi_init() has emptied ipi_type
\* nobody fills it before the interrupt is cleared.
BootsQuietly ==
  \A h \in Harts \ early :
    pc[h] \in {"init", "init_clear"} =>
      /\ state[h] = "START_PENDING"
      /\ ~Owed(h)
      /\ pc[h] = "init_clear" => ipi_type[h] = {}

IpiInv == IpiTypeOK /\ NoLostIpi /\ BootsQuietly

\* An S-mode IPI set in ipi_type of a running hart reaches S-mode, or the hart is
\* halted first.
SmodeDelivered ==
  \A h \in Harts :
    SMODE \in ipi_type[h] /\ Listening(h) ~> ssip[h] \/ ~Listening(h) \/ h \in early

\* sbi_system_reset() brings down every hart it finds running.
ResetHalts ==
  \A h \in Harts :
    (\E g \in Harts : event[g] = HALT /\ h \in targets[g])
      ~> state[h] = "STOPPED" \/ h \in early

\* An IPI that was sent takes effect at its target, whatever the target was doing:
\* the S-mode event raises SSIP, the halt event of a reset stops the hart.  The
\* exception is that of NoLostIpi.
IpiTakesEffect == SmodeDelivered /\ ResetHalts
=============================================================================
