SPECIFICATION Spec
CONSTANTS
    Tx = {t1}
    Asset = {a1}
    Thread = {w1, w2}
    NoTx = NoTx
    NoAsset = NoAsset
    Safe = Safe
    Boot = Boot
    LockTtl = 1
    MaxTime = 0
    MaxLate = 0
    Faults = {}
SYMMETRY Symmetry
PROPERTIES
    EstopStops
