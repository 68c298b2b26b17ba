----------------------------- MODULE IpiProofs -----------------------------
(***************************************************************************)
(* Proof that no IPI is lost, for any set of harts making any calls: but   *)
(* for a hart that was started under a sender, whose early events          *)
(* sbi_ipi_init() may leave without their interrupt (Ipi!early).           *)
(***************************************************************************)
EXTENDS Ipi, TLAPS

\* The IPI protocol keeps its types.
LEMMA TypeStep == IpiTypeOK /\ [IpiNext]_ipi_vars => IpiTypeOK'
<1> SUFFICES ASSUME IpiTypeOK, [IpiNext]_ipi_vars PROVE IpiTypeOK'
  OBVIOUS
<1> USE DEF IpiTypeOK, Events, SMODE, HALT, Labels, States, Goto, frame
<1>1. ASSUME NEW h \in Harts, SendSmode(h) \/ SystemReset(h) PROVE IpiTypeOK'
  BY <1>1 DEF SendSmode, SystemReset, SendMany, Interruptible
<1>2. ASSUME NEW h \in Harts, SendStep(h) PROVE IpiTypeOK'
  <2>1. CASE SendSelf(h)
    BY <2>1 DEF SendSelf
  <2>2. CASE SendOr(h)
    BY <2>2 DEF SendOr
  <2>3. CASE RawSend(h)
    BY <2>3 DEF RawSend
  <2>4. CASE SendDone(h)
    BY <2>4 DEF SendDone
  <2> QED BY <1>2, <2>1, <2>2, <2>3, <2>4 DEF SendStep
<1>3. ASSUME NEW h \in Harts, ReceiveStep(h) PROVE IpiTypeOK'
  <2>1. CASE TakeIpi(h)
    BY <2>1 DEF TakeIpi
  <2>2. CASE Xchg(h)
    BY <2>2 DEF Xchg
  <2>3. CASE ProcessSmode(h)
    BY <2>3 DEF ProcessSmode
  <2>4. CASE ProcessHalt(h)
    BY <2>4 DEF ProcessHalt
  <2>5. CASE ProcessDone(h)
    BY <2>5 DEF ProcessDone
  <2>6. CASE IpiExit(h)
    BY <2>6 DEF IpiExit
  <2> QED BY <1>3, <2>1, <2>2, <2>3, <2>4, <2>5, <2>6 DEF ReceiveStep
<1>4. ASSUME NEW h \in Harts,
             IpiInit(h) \/ IpiInitClear(h) \/ StartFinish(h) \/ HartStop(h) \/ ClearSmode(h)
      PROVE  IpiTypeOK'
  <2>1. CASE IpiInit(h)
    BY <2>1 DEF IpiInit
  <2>2. CASE IpiInitClear(h)
    BY <2>2 DEF IpiInitClear
  <2>3. CASE StartFinish(h)
    BY <2>3 DEF StartFinish
  <2>4. CASE HartStop(h)
    BY <2>4 DEF HartStop
  <2>5. CASE ClearSmode(h)
    BY <2>5 DEF ClearSmode
  <2> QED BY <1>4, <2>1, <2>2, <2>3, <2>4, <2>5
<1>5. ASSUME NEW g \in Harts, NEW h \in Harts, Start(g, h) PROVE IpiTypeOK'
  BY <1>5 DEF Start
<1>7. ASSUME NEW h \in Harts, HartSuspend(h) \/ Resume(h) \/ ResumeFinish(h)
      PROVE  IpiTypeOK'
  BY <1>7 DEF HartSuspend, Resume, ResumeFinish
<1>6. CASE UNCHANGED ipi_vars
  BY <1>6 DEF ipi_vars
<1> QED BY <1>1, <1>2, <1>3, <1>4, <1>5, <1>6, <1>7 DEF IpiNext, InitStep

\* IpiInv is inductive, whatever S-mode does: every access of a sender, a receiver, a
\* starting and a suspending hart keeps it.
LEMMA IpiInvStep ==
  ASSUME IpiInv, [IpiNext]_ipi_vars
  PROVE  IpiInv'
<1> USE DEF IpiTypeOK, Labels, Goto, frame
<1>0. IpiTypeOK'
  BY TypeStep DEF IpiInv
<1> SUFFICES NoLostIpi' /\ BootsQuietly'
  BY <1>0 DEF IpiInv
<1> USE DEF IpiInv, NoLostIpi, BootsQuietly, Listening, Raising, Owed
<1>1. ASSUME NEW h \in Harts, SendSmode(h) \/ SystemReset(h)
      PROVE  NoLostIpi' /\ BootsQuietly'
  <2>1. PICK mask \in SUBSET Harts, e \in Events : SendMany(h, mask, e)
    BY <1>1, IpiAssumption DEF SendSmode, SystemReset, Events
  <2>2. pc[h] = "S"
    BY <1>1 DEF SendSmode, SystemReset, Call
  <2> QED BY <2>1, <2>2 DEF SendMany, Interruptible
<1>2. ASSUME NEW h \in Harts, SendSelf(h) \/ SendDone(h)
      PROVE  NoLostIpi' /\ BootsQuietly'
  <2>1. UNCHANGED <<ipi_type, msip, dest, early>> /\ pc[h] = "send"
    BY <1>2 DEF SendSelf, SendDone
  <2>2. \A k \in Harts : Raising(k)' <=> Raising(k)
    BY <1>2 DEF SendSelf, SendDone
  <2>3. \A k \in Harts : targets'[k] \subseteq targets[k]
    BY <1>2 DEF SendSelf, SendDone
  <2>4. \A k \in Harts : k # h => pc'[k] = pc[k] /\ state'[k] = state[k]
    BY <1>2 DEF SendSelf, SendDone
  <2>5. pc'[h] \in {"send", "S", "exit"}
    BY <1>2 DEF SendSelf, SendDone
  <2>6. NoLostIpi'
    BY <2>1, <2>2, <2>4, <2>5
  <2>7. BootsQuietly'
    BY <2>1, <2>2, <2>3, <2>4, <2>5
  <2> QED BY <2>6, <2>7
<1>3. ASSUME NEW h \in Harts, SendOr(h) PROVE NoLostIpi' /\ BootsQuietly'
  <2>1. PICK t \in targets[h] \ {h} :
          /\ ipi_type' = [ipi_type EXCEPT ![t] = @ \cup {event[h]}]
          /\ targets' = [targets EXCEPT ![h] = @ \ {t}]
          /\ IF Raise(t, event[h])
             THEN /\ dest' = [dest EXCEPT ![h] = t]
                  /\ Goto(h, "raw_send")
             ELSE UNCHANGED <<dest, pc>>
    BY <1>3 DEF SendOr
  <2>2. pc[h] = "send" /\ UNCHANGED <<state, msip, early>>
    BY <1>3 DEF SendOr
  <2>3. t \in Harts
    BY <2>1
  <2>4. \A k \in Harts : k # h => pc'[k] = pc[k] /\ dest'[k] = dest[k]
    BY <2>1
  <2>5. pc'[h] \in {"send", "raw_send"}
    BY <2>1, <2>2
  <2>6. \A k \in Harts : Raising(k) => Raising(k)'
    BY <2>2, <2>4
  <2>7. ipi_type[t] = {} => Raising(t)'
    BY <2>1, <2>3 DEF Raise
  <2>8. \A k \in Harts : k # t => ipi_type'[k] = ipi_type[k]
    BY <2>1
  <2>9. \A k \in Harts : Owed(k)' => Owed(k)
    BY <2>1, <2>2, <2>3, <2>4
  <2>10. NoLostIpi'
    BY <2>2, <2>4, <2>5, <2>6, <2>7, <2>8
  <2>11. BootsQuietly'
    BY <2>1, <2>2, <2>4, <2>5, <2>8, <2>9
  <2> QED BY <2>10, <2>11
<1>4. ASSUME NEW h \in Harts, RawSend(h) PROVE NoLostIpi' /\ BootsQuietly'
  BY <1>4 DEF RawSend
<1>5. ASSUME NEW h \in Harts, TakeIpi(h) \/ Xchg(h) PROVE NoLostIpi' /\ BootsQuietly'
  BY <1>5 DEF TakeIpi, Xchg
<1>6. ASSUME NEW h \in Harts, ProcessSmode(h) \/ ProcessHalt(h) \/ ProcessDone(h)
      PROVE  NoLostIpi' /\ BootsQuietly'
  BY <1>6 DEF ProcessSmode, ProcessHalt, ProcessDone
<1>7. ASSUME NEW h \in Harts, IpiExit(h) \/ HartStop(h) \/ ClearSmode(h)
      PROVE  NoLostIpi' /\ BootsQuietly'
  BY <1>7 DEF IpiExit, HartStop, Call, ClearSmode
<1>8. ASSUME NEW h \in Harts, InitStep(h) PROVE NoLostIpi' /\ BootsQuietly'
  <2>1. CASE IpiInit(h)
    BY <2>1 DEF IpiInit
  <2>2. CASE IpiInitClear(h)
    BY <2>2 DEF IpiInitClear
  <2>3. CASE StartFinish(h) \/ ResumeFinish(h)
    BY <2>3 DEF StartFinish, ResumeFinish
  <2> QED BY <1>8, <2>1, <2>2, <2>3 DEF InitStep
<1>9. ASSUME NEW g \in Harts, NEW h \in Harts, Start(g, h)
      PROVE  NoLostIpi' /\ BootsQuietly'
  <2>1. pc[h] = "stopped" /\ (Owed(h) => h \in early')
    BY <1>9 DEF Start
  <2>2. \A k \in Harts : k # h => pc'[k] = pc[k] /\ state'[k] = state[k] /\ msip'[k] = msip[k]
                                /\ (k \in early' <=> k \in early)
    BY <1>9 DEF Start
  <2>3. pc'[h] = "init" /\ state'[h] = "START_PENDING"
    BY <1>9 DEF Start
  <2>4. UNCHANGED <<ipi_type, targets, dest>>
    BY <1>9 DEF Start
  <2>5. \A k \in Harts : Raising(k)' <=> Raising(k)
    BY <2>1, <2>2, <2>3, <2>4
  <2>6. \A k \in Harts : Owed(k)' => Owed(k)
    BY <2>4, <2>5
  <2>7. NoLostIpi'
    BY <2>1, <2>2, <2>3, <2>4, <2>5
  <2>8. BootsQuietly'
    BY <2>1, <2>2, <2>3, <2>4, <2>6
  <2> QED BY <2>7, <2>8
<1>11. ASSUME NEW h \in Harts, HartSuspend(h) \/ Resume(h) PROVE NoLostIpi' /\ BootsQuietly'
  BY <1>11 DEF HartSuspend, Call, Resume
<1>10. CASE UNCHANGED ipi_vars
  BY <1>10 DEF ipi_vars
<1> QED BY <1>1, <1>2, <1>3, <1>4, <1>5, <1>6, <1>7, <1>8, <1>9, <1>10, <1>11
        DEF IpiNext, SendStep, ReceiveStep

\* No lost wake-up, for every set of harts and all they may call: raising the interrupt
\* only when ipi_type was zero is enough, but for the events that reach a hart in the
\* middle of sbi_ipi_init() because it was started under their sender.
THEOREM NoIpiIsLost == IpiSpec => []NoLostIpi
<1>1. IpiAtBoot => IpiInv
  BY DEF IpiAtBoot, IpiInv, IpiTypeOK, NoLostIpi, BootsQuietly, Listening,
     Events, SMODE, HALT, Labels, States
<1>2. IpiInv /\ [IpiNext]_ipi_vars => IpiInv'
  BY IpiInvStep
<1>3. IpiInv => NoLostIpi
  BY DEF IpiInv
<1> QED BY <1>1, <1>2, <1>3, PTL DEF IpiSpec
=============================================================================
