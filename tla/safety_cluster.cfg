SPECIFICATION Spec
CONSTANTS
    Case <- MCCase
    NoCase = NoCase
    Vehicle = {"agv_01", "agv_02", "agv_03", "agv_04"}
    Agv01 = "agv_01"
    XField <- MCXField
    YField <- MCYField
    MoveTo <- MCMoveTo
    SetHeater <- MCSetHeater
    SetCooling <- MCSetCooling
    MoveJoint <- MCMoveJoint
    JointOf <- MCJointOf
    JointFields <- MCJointFields
    VelocityFields <- MCVelocityFields
    EffortFields <- MCEffortFields
    Grain = 2
    Faults = {"fetch", "solver", "timeout"}
INVARIANTS
    NoVerdictWithoutValidators
    ConservativeApproval
    OpenSimulationIsBetween
    SafeMeansNoContact
    DeadlockIsCycle
    SafeSimulationIsComplete
    AdmittedIsFresh
PROPERTIES
    EveryStepCloser
