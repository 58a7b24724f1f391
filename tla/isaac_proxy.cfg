SPECIFICATION FairSpec
CONSTANTS
    Caller = {c1, c2}
    Runtime = {r1, r2}
    Scene = {s1}
    SceneOf <- MCSceneOf
    None = None
    Cleared = Cleared
    MaxJobs = 3
    s1 = s1
INVARIANTS
    TypeOK
    ResultIsOwn
    ComputedInRequestedWorld
PROPERTIES
    AbandonedRefusesAll
    LockIsReleased
