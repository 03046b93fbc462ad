SPECIFICATION Spec
CONSTANTS
    Requests = {p1, p2}
    Dates = {d1, d2}
    Zones = {z1, z2}
SYMMETRY MCSymmetry
INVARIANT
    OnlyStarredScheduled
