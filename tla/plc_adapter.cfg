SPECIFICATION FairSpec
CONSTANTS
    a1 = a1
    a2 = a2
    c1 = c1
    Thread = {th1, th2}
    NoThread = NoThread
    Asset <- MCAsset
    Conn = {c1}
    SensorAsset = {a1}
    ExecAsset = {a1, a2}
    SensorConn <- MCConnOf
    ExecConn <- MCConnOf
    SensorMappings <- MCSensorMappings
    ActionMappings <- MCActionMappings
    SafeActions <- MCSafeActions
    ActionSequences <- MCActionSequences
    Preloads <- MCPreloads
    Reg = {1, 2, 3}
    Measured = {1}
    Readings <- MCReadings
    NoRequest = NoRequest
    MaxPreload = 2
    Faults = {"connect", "io", "lost", "crash"}
INVARIANTS
    TypeOK
    HealthTellsLastOutcome
    VirtualAnswersHold
PROPERTIES
    ImplementsAtomicPlc
    LockIsFreed
