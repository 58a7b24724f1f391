SPECIFICATION Spec
CONSTANTS
    Version = {v1, v2}
    Asset = {a1}
    Profile = {p1}
    Session = {s1, s2}
    None = None
    Seeded = {v1, v2}
    p1 = p1
    SeedDoc <- MCSeedDoc
    Requests = {"activate"}
SYMMETRY SeededSymmetry
INVARIANTS
    SingleActive
