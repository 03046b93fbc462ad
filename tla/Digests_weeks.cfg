SPECIFICATION Spec
CONSTANTS
    Users = {u1}
    Days = {0, 1}
    Hours = {8}
    Offsets <- MCOffsets
    Deadlines = {300}
    Horizon = 1
    Instants = {152, 164, 176}
    Replicas = {r1, r2}
    MaxAttempts = 2
    BatchLimit = 1
    MaxFaults = 1
SYMMETRY MCSymmetry
INVARIANTS
    DigestTypeOK
    FiledUnderItsWeek
PROPERTIES
    ImplementsOutbox
