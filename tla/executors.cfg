SPECIFICATION Spec
CONSTANTS
    a1 = a1
    a2 = a2
    a3 = a3
    e1 = e1
    Thread = {th1, th2}
    NoThread = NoThread
    Asset = {a1, a2, a3}
    Executor = {e1}
    NoExecutor = NoExecutor
    ExecutorOf <- MCExecutorOf
    ActionMappings <- MCActionMappings
    SafeActions <- MCSafeActions
    ActionSequences <- MCActionSequences
    Faults = {"config", "connect", "io", "timeout"}
INVARIANTS
    InstancesAccounted
    OutcomeIsReported
SYMMETRY Symmetry
