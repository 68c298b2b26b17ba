-------------------------------- MODULE Fwft --------------------------------
(***************************************************************************)
(* The firmware features of one hart (sbi_fwft.c): set, get and lock, over *)
(* the CSR bits that mstatus_init() and delegate_traps() write when the    *)
(* hart starts and that the HSM saves across a non-retentive suspend.      *)
(***************************************************************************)
EXTENDS SbiDefs, FiniteSets

CONSTANTS
    FwftSupported,  \* features the hart supports
    PmmLengths,     \* pointer masking lengths the hart implements: {7, 16}
    FwftValues,     \* values S-mode asks for
    Svade           \* the device tree names Svade

VARIABLES
    fwft_csr,       \* feature -> its bits in medeleg or menvcfg
    fwft_lock,      \* features whose flags have SBI_FWFT_SET_FLAG_LOCK
    fwft_saved,     \* the copies of medeleg and menvcfg of the HSM
    fwft_mode,      \* the hart: "run", "stopped" or "suspended"
    fwft_ret,       \* result of the last call: [feature, value, ret], the first two
                    \* of a successful one
    fwft_promise    \* feature -> the value it had when it was locked

fwft_vars == <<fwft_csr, fwft_lock, fwft_saved, fwft_mode, fwft_ret, fwft_promise>>

\* fwft_defined_features[]; "reserved" is an identifier that is not in it.
Features == {"misaligned", "lpad", "sstack", "double_trap", "adue", "pmlen"}
FeatureIds == Features \cup {"reserved"}

\* fwft_get_supported() tests the features of the hart; PMM encodes two lengths;
\* values are unsigned longs.
ASSUME FwftAssumption ==
    /\ FwftSupported \subseteq Features
    /\ PmmLengths \subseteq {7, 16}
    /\ FwftValues \subseteq Nat

Flags == {"none", "lock", "invalid"}

\* mstatus_init() and delegate_traps(): the landing pad, shadow stack and
\* pointer masking bits of menvcfg are left as they are.
BootCsr(csr) ==
    [f \in Features |->
        IF f \in {"misaligned", "double_trap"} THEN 0
        ELSE IF f = "adue" /\ Svade = TRUE THEN 0
        ELSE IF f = "adue" /\ f \in FwftSupported THEN 1
        ELSE csr[f]]
ResetCsr == [f \in Features |-> 0]
Failed(ret) == [feature |-> "misaligned", value |-> 0, ret |-> ret]
NoResult == Failed(SBI_EFAIL)

FwftInit ==
    /\ fwft_csr = BootCsr(ResetCsr)
    /\ fwft_lock = {}
    /\ fwft_saved = ResetCsr
    /\ fwft_mode = "run"
    /\ fwft_ret = NoResult
    /\ fwft_promise = ResetCsr

\* Bug: the length is rounded down.
PmlenResultDown(value, prev) ==
    LET fit == {l \in PmmLengths : l =< value}
    IN  IF value = 0 THEN [ret |-> SBI_OK, csr |-> 0]
        ELSE IF value > 16 \/ fit = {} THEN [ret |-> SBI_EINVAL, csr |-> prev]
        ELSE [ret |-> SBI_OK, csr |-> CHOOSE l \in fit : \A k \in fit : k =< l]

\* Bug: a length that is not implemented leaves the field cleared.
PmlenResultCleared(value, prev) ==
    LET fit == {l \in PmmLengths : value =< l}
    IN  IF value = 0 THEN [ret |-> SBI_OK, csr |-> 0]
        ELSE IF value > 16 \/ fit = {} THEN [ret |-> SBI_EINVAL, csr |-> 0]
        ELSE [ret |-> SBI_OK, csr |-> CHOOSE l \in fit : \A k \in fit : l =< k]

\* fwft_set_pmlen(): PMM is cleared, then the lengths are tried; the previous
\* value is written back when none is implemented.
PmlenResult(value, prev) ==
    LET fit == {l \in PmmLengths : value =< l}
    IN  IF value = 0 THEN [ret |-> SBI_OK, csr |-> 0]
        ELSE IF value > 16 \/ fit = {} THEN [ret |-> SBI_EINVAL, csr |-> prev]
        ELSE [ret |-> SBI_OK, csr |-> CHOOSE l \in fit : \A k \in fit : l =< k]

\* fwft_menvcfg_set_bit() and fwft_set_misaligned_delegation().
BitResult(value, prev) ==
    IF value \in {0, 1} THEN [ret |-> SBI_OK, csr |-> value] ELSE [ret |-> SBI_EINVAL, csr |-> prev]

SetResult(f, value) ==
    IF f = "pmlen" THEN PmlenResult(value, fwft_csr[f]) ELSE BitResult(value, fwft_csr[f])

\* fwft_get_feature().
FeatureError(f) == IF f \in FwftSupported THEN SBI_OK
                   ELSE IF f \in Features THEN SBI_ENOTSUPP ELSE SBI_EDENIED

\* The checks of sbi_fwft_set() before the feature's set().
SetError(f, flag) == IF FeatureError(f) # SBI_OK THEN FeatureError(f)
                     ELSE IF flag = "invalid" THEN SBI_EINVAL
                     ELSE IF f \in fwft_lock THEN SBI_EDENIED_LOCKED ELSE SBI_OK

\* sbi_fwft_set().
FwftSet(f, value, flag) ==
    /\ fwft_mode = "run"
    /\ LET err == SetError(f, flag)
           res == IF err = SBI_OK THEN SetResult(f, value) ELSE [ret |-> err, csr |-> 0]
           lock == res.ret = SBI_OK /\ flag = "lock"
       IN  /\ fwft_csr' = IF err = SBI_OK THEN [fwft_csr EXCEPT ![f] = res.csr] ELSE fwft_csr
           /\ fwft_lock' = IF lock THEN fwft_lock \cup {f} ELSE fwft_lock
           /\ fwft_promise' = IF lock THEN [fwft_promise EXCEPT ![f] = res.csr] ELSE fwft_promise
           /\ fwft_ret' = IF res.ret = SBI_OK THEN [feature |-> f, value |-> value, ret |-> SBI_OK]
                         ELSE Failed(res.ret)
    /\ UNCHANGED <<fwft_saved, fwft_mode>>

\* The hart stops; when it starts, its CSRs were kept or reset, then boot
\* writes them and sbi_fwft_init() clears the locks of supported features.
FwftStop ==
    /\ fwft_mode = "run" /\ fwft_mode' = "stopped"
    /\ \E csr \in {fwft_csr, ResetCsr} : fwft_csr' = csr
    /\ fwft_ret' = NoResult
    /\ UNCHANGED <<fwft_lock, fwft_saved, fwft_promise>>

FwftStart ==
    /\ fwft_mode = "stopped" /\ fwft_mode' = "run"
    /\ fwft_csr' = BootCsr(fwft_csr)
    /\ fwft_lock' = fwft_lock \ FwftSupported
    /\ UNCHANGED <<fwft_saved, fwft_ret, fwft_promise>>

\* __sbi_hsm_suspend_non_ret_save(); the CSRs may lose their values.
FwftSuspend ==
    /\ fwft_mode = "run" /\ fwft_mode' = "suspended"
    /\ fwft_saved' = fwft_csr
    /\ \E csr \in {fwft_csr, ResetCsr} : fwft_csr' = csr
    /\ fwft_ret' = NoResult
    /\ UNCHANGED <<fwft_lock, fwft_promise>>

\* Bug: the registers keep what the reinitialisation writes.
FwftResumeBoot ==
    /\ fwft_mode = "suspended" /\ fwft_mode' = "run"
    /\ fwft_csr' = BootCsr(fwft_csr)
    /\ UNCHANGED <<fwft_lock, fwft_saved, fwft_ret, fwft_promise>>

\* init_warm_resume(): sbi_hart_reinit(), then __sbi_hsm_suspend_non_ret_restore().
FwftResume ==
    /\ fwft_mode = "suspended" /\ fwft_mode' = "run"
    /\ fwft_csr' = fwft_saved
    /\ UNCHANGED <<fwft_lock, fwft_saved, fwft_ret, fwft_promise>>

FwftNext ==
    \/ \E f \in FeatureIds, v \in FwftValues, flag \in Flags : FwftSet(f, v, flag)
    \/ FwftStop \/ FwftStart \/ FwftSuspend \/ FwftResume

FwftSpec == FwftInit /\ [][FwftNext]_fwft_vars

(***************************************************************************)
(* Properties.                                                             *)
(***************************************************************************)
FwftTypeOK ==
    /\ fwft_csr \in [Features -> {0, 1, 7, 16}]
    /\ fwft_saved \in [Features -> {0, 1, 7, 16}]
    /\ fwft_promise \in [Features -> {0, 1, 7, 16}]
    /\ fwft_ret \in [feature : Features, value : Nat, ret : Int]
    /\ fwft_lock \subseteq FwftSupported
    /\ fwft_mode \in {"run", "stopped", "suspended"}

\* Whenever S-mode runs, a locked feature has the value it had when it was
\* locked: later sets, refused or not, and a non-retentive suspend do not change
\* it.
FwftLockHolds == fwft_mode = "run" => \A f \in fwft_lock : fwft_csr[f] = fwft_promise[f]

\* sbi_fwft_get() after a successful set returns at least what was asked for
\* (pointer masking rounds the length up).
FwftSetTakesEffect ==
    fwft_ret.ret = SBI_OK => /\ fwft_csr[fwft_ret.feature] >= fwft_ret.value
                             /\ fwft_ret.value = 0 => fwft_csr[fwft_ret.feature] = 0

\* What S-mode relies on: a locked feature keeps its value, over suspends too, and
\* a set that succeeds leaves the feature at the value asked for.
FwftSound == FwftTypeOK /\ FwftLockHolds /\ FwftSetTakesEffect

\* What makes the two inductive: the copies a suspended hart resumes with keep
\* the promises, and no result outlives the hart that got it.
FwftInv ==
    /\ FwftSound
    /\ fwft_mode = "suspended" => \A f \in fwft_lock : fwft_saved[f] = fwft_promise[f]
    /\ fwft_mode # "run" => fwft_ret.ret # SBI_OK

\* A refused set changes no feature, although fwft_set_pmlen() clears the field
\* before it tries the lengths.
FwftRefusalHarmless ==
    [][fwft_ret'.ret # SBI_OK /\ fwft_mode = "run" /\ fwft_mode' = "run" =>
          fwft_csr' = fwft_csr]_fwft_vars
=============================================================================
