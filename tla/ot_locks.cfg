SPECIFICATION Spec
CONSTANTS
    Tx = {t1, t2}
    Asset = {a1}
    Thread = {w1, w2}
    NoTx = NoTx
    NoAsset = NoAsset
    Safe = Safe
    Boot = Boot
    LockTtl = 1
    MaxTime = 2
    MaxLate = 0
    Faults = {"db", "crash"}
SYMMETRY Symmetry
INVARIANTS
    TypeOK
    CommittedOnlyAfterExecution
    NoExecAfterTerminal
    ExclusiveUnlessRaced
    SafeStateBeforeAnswer
PROPERTIES
    NeverRelocked
