SPECIFICATION FairSpec
CONSTANTS
    Users = {u1, u2}
    Days = {1}
    Hours = {8}
    Offsets <- MCUTC
    Deadlines = {300}
    Horizon = 1
    Instants = {176, 200}
    Replicas = {r1}
    MaxAttempts = 2
    BatchLimit = 1
    MaxFaults = 1
PROPERTIES
    DigestsSettle
