----------------------------- MODULE FwftProofs -----------------------------
(***************************************************************************)
(* Proofs about the firmware features, for any set of supported features,  *)
(* implemented lengths and requested values: a lock holds over sets, hart  *)
(* stops and suspends, a successful set takes effect and a refused one     *)
(* changes nothing.                                                        *)
(***************************************************************************)
EXTENDS Fwft, TLAPS

\* fwft_set_pmlen() succeeds with a length that covers the request, or fails
\* with the field as it was.
LEMMA PmlenRounds ==
  ASSUME NEW value \in FwftValues, NEW prev \in {0, 1, 7, 16}
  PROVE  /\ PmlenResult(value, prev).csr \in {0, 1, 7, 16}
         /\ PmlenResult(value, prev).ret \in Int
         /\ PmlenResult(value, prev).ret = SBI_OK =>
              /\ PmlenResult(value, prev).csr >= value
              /\ value = 0 => PmlenResult(value, prev).csr = 0
         /\ PmlenResult(value, prev).ret # SBI_OK => PmlenResult(value, prev).csr = prev
<1> DEFINE fit == {l \in PmmLengths : value =< l}
           least == CHOOSE l \in fit : \A k \in fit : l =< k
<1>1. value \in Nat /\ fit \subseteq {7, 16}
  BY FwftAssumption
<1>2. ASSUME fit # {} PROVE least \in fit
  <2>1. \E l \in fit : \A k \in fit : l =< k
    <3>1. CASE 7 \in fit
      BY <1>1, <3>1
    <3>2. CASE 7 \notin fit
      BY <1>1, <1>2, <3>2
    <3> QED BY <3>1, <3>2
  <2> HIDE DEF fit
  <2> QED BY <2>1
<1>3. CASE value = 0
  BY <1>3 DEF PmlenResult, SBI_OK
<1>4. CASE value # 0 /\ (value > 16 \/ fit = {})
  BY <1>4 DEF PmlenResult, SBI_OK, SBI_EINVAL
<1>5. CASE value # 0 /\ ~(value > 16 \/ fit = {})
  <2>1. PmlenResult(value, prev) = [ret |-> SBI_OK, csr |-> least]
    BY <1>5 DEF PmlenResult
  <2>2. least \in {7, 16} /\ value =< least
    BY <1>1, <1>2, <1>5
  <2> HIDE DEF least
  <2> QED BY <1>1, <1>5, <2>1, <2>2 DEF SBI_OK
<1> QED BY <1>1, <1>3, <1>4, <1>5

\* The same of every feature's set().
LEMMA SetRounds ==
  ASSUME FwftTypeOK, NEW f \in Features, NEW value \in FwftValues
  PROVE  /\ SetResult(f, value).csr \in {0, 1, 7, 16}
         /\ SetResult(f, value).ret \in Int
         /\ SetResult(f, value).ret = SBI_OK =>
              /\ SetResult(f, value).csr >= value
              /\ value = 0 => SetResult(f, value).csr = 0
         /\ SetResult(f, value).ret # SBI_OK => SetResult(f, value).csr = fwft_csr[f]
<1>1. fwft_csr[f] \in {0, 1, 7, 16}
  BY DEF FwftTypeOK
<1>2. CASE f = "pmlen"
  BY <1>1, <1>2, PmlenRounds DEF SetResult
<1>3. CASE f # "pmlen"
  BY <1>1, <1>3 DEF SetResult, BitResult, SBI_OK, SBI_EINVAL
<1> QED BY <1>2, <1>3

\* FwftInv holds at boot.
LEMMA InvInit == FwftInit => FwftInv
<1> SUFFICES ASSUME FwftInit PROVE FwftInv
  OBVIOUS
<1>1. ResetCsr \in [Features -> {0, 1, 7, 16}]
  BY DEF ResetCsr
<1>2. BootCsr(ResetCsr) \in [Features -> {0, 1, 7, 16}]
  BY <1>1 DEF BootCsr, Features
<1>3. NoResult \in [feature : Features, value : Nat, ret : Int] /\ NoResult.ret # SBI_OK
  BY DEF NoResult, Failed, Features, SBI_EFAIL, SBI_OK
<1> QED
  BY <1>1, <1>2, <1>3 DEF FwftInit, FwftInv, FwftSound, FwftTypeOK, FwftLockHolds, FwftSetTakesEffect

\* A set keeps the invariant, whatever it answers.
LEMMA SetKeeps ==
  ASSUME FwftInv, NEW f \in FeatureIds, NEW value \in FwftValues, NEW flag \in Flags, FwftSet(f, value, flag)
  PROVE  FwftInv'
<1> DEFINE err == SetError(f, flag)
<1> USE DEF FwftInv, FwftSound, FwftTypeOK, FwftLockHolds, FwftSetTakesEffect
<1>0. value \in Nat /\ fwft_mode = "run" /\ fwft_mode' = "run" /\ fwft_saved' = fwft_saved
  BY FwftAssumption DEF FwftSet
<1>1. CASE err # SBI_OK
  <2>1. fwft_csr' = fwft_csr /\ fwft_lock' = fwft_lock /\ fwft_promise' = fwft_promise
    BY <1>1 DEF FwftSet
  <2>2. err \in Int
    BY DEF SetError, FeatureError, SBI_OK, SBI_ENOTSUPP, SBI_EDENIED, SBI_EINVAL, SBI_EDENIED_LOCKED
  <2>3. fwft_ret' = Failed(err)
    BY <1>1 DEF FwftSet
  <2>4. fwft_ret' \in [feature : Features, value : Nat, ret : Int] /\ fwft_ret'.ret # SBI_OK
    <3> HIDE DEF err
    <3> QED BY <1>1, <2>2, <2>3 DEF Failed, Features
  <2> QED BY <1>0, <2>1, <2>4
<1>2. CASE err = SBI_OK
  <2>1. f \in FwftSupported /\ f \notin fwft_lock
    BY <1>2 DEF SetError, FeatureError, SBI_OK, SBI_ENOTSUPP, SBI_EDENIED, SBI_EINVAL, SBI_EDENIED_LOCKED
  <2>2. f \in Features
    BY <2>1, FwftAssumption
  <2> DEFINE res == SetResult(f, value)
             lock == res.ret = SBI_OK /\ flag = "lock"
  <2>3. /\ fwft_csr' = [fwft_csr EXCEPT ![f] = res.csr]
        /\ fwft_lock' = IF lock THEN fwft_lock \cup {f} ELSE fwft_lock
        /\ fwft_promise' = IF lock THEN [fwft_promise EXCEPT ![f] = res.csr] ELSE fwft_promise
        /\ fwft_ret' = IF res.ret = SBI_OK THEN [feature |-> f, value |-> value, ret |-> SBI_OK]
                       ELSE Failed(res.ret)
    BY <1>2 DEF FwftSet
  <2>4. /\ res.csr \in {0, 1, 7, 16} /\ res.ret \in Int
        /\ res.ret = SBI_OK => res.csr >= value /\ (value = 0 => res.csr = 0)
    BY <2>2, SetRounds
  <2> HIDE DEF res
  <2>5. FwftTypeOK'
    BY <1>0, <2>1, <2>2, <2>3, <2>4 DEF Failed, Features, SBI_EFAIL, SBI_OK
  <2>6. FwftLockHolds'
    BY <1>0, <2>1, <2>2, <2>3, <2>4, FwftAssumption
  <2>7. FwftSetTakesEffect'
    BY <2>2, <2>3, <2>4 DEF Failed
  <2> QED BY <1>0, <2>5, <2>6, <2>7
<1> QED BY <1>1, <1>2

\* So do the steps of the hart: a stopped hart loses its locks when it starts, a
\* suspended one resumes with the copies.
LEMMA HartKeeps ==
  ASSUME FwftInv, FwftStop \/ FwftStart \/ FwftSuspend \/ FwftResume
  PROVE  FwftInv'
<1> USE DEF FwftInv, FwftSound, FwftTypeOK, FwftLockHolds, FwftSetTakesEffect
<1>1. /\ ResetCsr \in [Features -> {0, 1, 7, 16}]
      /\ BootCsr(fwft_csr) \in [Features -> {0, 1, 7, 16}]
      /\ NoResult \in [feature : Features, value : Nat, ret : Int] /\ NoResult.ret # SBI_OK
  BY DEF ResetCsr, BootCsr, NoResult, Failed, Features, SBI_EFAIL, SBI_OK
<1>2. CASE FwftStop
  BY <1>1, <1>2 DEF FwftStop
<1>3. CASE FwftStart
  BY <1>1, <1>3 DEF FwftStart
<1>4. CASE FwftSuspend
  BY <1>1, <1>4, FwftAssumption DEF FwftSuspend
<1>5. CASE FwftResume
  BY <1>1, <1>5 DEF FwftResume
<1> QED BY <1>2, <1>3, <1>4, <1>5

\* FwftInv holds throughout.
THEOREM Invariance == FwftSpec => []FwftInv
<1>1. FwftInv /\ [FwftNext]_fwft_vars => FwftInv'
  <2> SUFFICES ASSUME FwftInv, [FwftNext]_fwft_vars PROVE FwftInv'
    OBVIOUS
  <2>1. CASE FwftNext
    BY <2>1, SetKeeps, HartKeeps DEF FwftNext
  <2>2. CASE UNCHANGED fwft_vars
    BY <2>2 DEF fwft_vars, FwftInv, FwftSound, FwftTypeOK, FwftLockHolds, FwftSetTakesEffect
  <2> QED BY <2>1, <2>2
<1> QED BY <1>1, InvInit, PTL DEF FwftSpec

\* A locked feature keeps its value whenever S-mode runs (sbi_fwft_set(),
\* init_warm_resume()), and a successful sbi_fwft_set() gives at least what was
\* asked for: for every set of features, lengths and values.
THEOREM FeaturesSound == FwftSpec => []FwftSound
<1>1. FwftInv => FwftSound
  BY DEF FwftInv
<1> QED BY <1>1, Invariance, PTL

\* A refused sbi_fwft_set() changes no feature.
THEOREM RefusalsHarmless == FwftSpec => FwftRefusalHarmless
<1> DEFINE Harmless == fwft_ret'.ret # SBI_OK /\ fwft_mode = "run" /\ fwft_mode' = "run" => fwft_csr' = fwft_csr
<1>1. FwftInv /\ [FwftNext]_fwft_vars => [Harmless]_fwft_vars
  <2> SUFFICES ASSUME FwftInv, FwftNext PROVE Harmless
    OBVIOUS
  <2>1. ASSUME NEW f \in FeatureIds, NEW value \in FwftValues, NEW flag \in Flags, FwftSet(f, value, flag),
               fwft_ret'.ret # SBI_OK
        PROVE  fwft_csr' = fwft_csr
    <3>1. CASE f \notin FwftSupported
      BY <2>1, <3>1 DEF FwftSet, SetError, FeatureError, SBI_OK, SBI_ENOTSUPP, SBI_EDENIED
    <3>2. CASE f \in FwftSupported
      <4>1. f \in Features /\ FwftTypeOK
        BY <3>2, FwftAssumption DEF FwftInv, FwftSound
      <4>2. SetResult(f, value).ret # SBI_OK => SetResult(f, value).csr = fwft_csr[f]
        BY <4>1, SetRounds
      <4>3. fwft_csr \in [Features -> {0, 1, 7, 16}]
        BY <4>1 DEF FwftTypeOK
      <4> QED
        BY <2>1, <3>2, <4>1, <4>2, <4>3
        DEF FwftSet, SetError, FeatureError, SBI_OK, SBI_EINVAL, SBI_EDENIED_LOCKED
    <3> QED BY <3>1, <3>2
  <2>2. CASE FwftStop \/ FwftStart \/ FwftSuspend \/ FwftResume
    BY <2>2 DEF FwftStop, FwftStart, FwftSuspend, FwftResume
  <2> QED BY <2>1, <2>2 DEF FwftNext
<1> QED BY <1>1, Invariance, PTL DEF FwftSpec, FwftRefusalHarmless
=============================================================================
