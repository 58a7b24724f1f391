SPECIFICATION GatewayFairSpec
CONSTANTS
    Tx = {t1}
    Asset = {a1}
    Thread = {th1, th2}
    NoTx = NoTx
    NoAsset = NoAsset
    Safe = Safe
    Boot = Boot
    LockTtl = 1
    MaxTime = 2
    MaxLate = 0
    Faults = {"db"}
    Submission = {g1}
    Policy = {p1}
    Reading = {r1, r2}
    NoThread = NoThread
    Injection = {"none", "lock_denied", "reverify_hash_mismatch", "commit_timeout", "commit_failed_recovered", "ot_interface_error"}
    Outages = {"ledger", "service", "timeout", "crash"}
INVARIANTS
    AcknowledgedIsCommitted
    RefusalIsFinal
PROPERTIES
    ImplementsOTInterface
    EverySubmissionAnswered
