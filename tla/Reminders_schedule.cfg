SPECIFICATION Spec
CONSTANTS
    Users = {u1, u2}
    Confs = {c1}
    Kinds = {"submission"}
    Leads = {1}
    Offsets <- MCOffsets
    Deadlines = {100, 148}
    EndDays = {2}
    Instants = {0, 130}
    DefaultLeads = {1}
    DefaultOffset = 0
    Replicas = {r1}
    MaxAttempts = 2
    BatchLimit = 1
    GraceDays = 1
    MaxFaults = 0
SYMMETRY MCSymmetry
INVARIANTS
    TypeOK
    NoStrayReminder
    LeavesAtNineLocal
    NoGap
PROPERTIES
    HistoryIsFinal
