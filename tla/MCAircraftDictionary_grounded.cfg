SPECIFICATION Spec
CONSTANTS
    a1 = a1
    a2 = a2
    u1 = u1
    ModeS = {a1, a2}
    UAT = {u1}
    kMaxNumAircraft = 2
    aircraft_prune_interval_ms = 1
    Altitudes = {0, 1}
    Processors = {"rp2040"}
    MaxTime = 3
    NULL = NULL
SYMMETRY Symmetry
INVARIANTS
    ReferenceNotFromReference
