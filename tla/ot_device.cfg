SPECIFICATION Spec
CONSTANTS
    Tx = {t1}
    Asset = {a1, a2}
    Thread = {w1, w2}
    NoTx = NoTx
    NoAsset = NoAsset
    Safe = Safe
    Boot = Boot
    LockTtl = 1
    MaxTime = 0
    MaxLate = 1
    Faults = {"timeout", "partial", "crash"}
INVARIANTS
    OnlyPreparedReachDevice
    SafeStateBeforeAnswer
