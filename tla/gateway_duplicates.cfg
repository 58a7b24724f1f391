SPECIFICATION GatewaySpec
CONSTANTS
    Tx = {t1}
    Asset = {a1}
    Thread = {th1, th2}
    NoTx = NoTx
    NoAsset = NoAsset
    Safe = Safe
    Boot = Boot
    LockTtl = 1
    MaxTime = 1
    MaxLate = 1
    Faults = {"db", "crash", "timeout", "partial"}
    Submission = {g1, g2}
    Policy = {p1, p2}
    Reading = {r1}
    NoThread = NoThread
    Injection = {"none"}
    Outages = {"ledger", "service", "timeout", "crash"}
SYMMETRY Symmetry
INVARIANTS GatewayTypeOK EvidenceBeforeExecution ChainValid
PROPERTY ExecutedAtMostOnce
