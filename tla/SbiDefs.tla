------------------------------ MODULE SbiDefs ------------------------------
(* Error codes of the firmware that several components return.             *)
EXTENDS Integers

SBI_OK == 0
SBI_EFAIL == -1
SBI_ENOTSUPP == -2
SBI_EINVAL == -3
SBI_EDENIED == -4
SBI_EALREADY == -6
SBI_EINVALID_STATE == -10
SBI_ETIMEOUT == -12
SBI_ETIMEDOUT == -12
SBI_EIO == -13
SBI_EDENIED_LOCKED == -14
SBI_ENODEV == -1000
SBI_ENOSYS == -1001
SBI_ENOSPC == -1003
SBI_ENOMEM == -1004
SBI_ENOENT == -1006
=============================================================================
