SPECIFICATION Spec
CONSTANTS
    Version = {v1, v2}
    Asset = {a1, a2}
    Profile = {p1, p2}
    Session = {s1, s2}
    None = None
    Seeded = {v1}
    p1 = p1
    SeedDoc <- MCSeedDoc
    Requests = {"create", "derive", "activate"}
SYMMETRY Symmetry
INVARIANTS
    TypeOK
    DerivedChangesOneAsset
PROPERTIES
    Immutable
    SoloActivationRepairs
