SPECIFICATION FairSpec
CONSTANTS
    Users = {u1}
    Confs = {c1}
    Kinds = {"submission"}
    Leads = {1, 3}
    Offsets <- MCUTC
    Deadlines = {100}
    EndDays = {2}
    Instants = {0, 130}
    DefaultLeads = {1}
    DefaultOffset = 0
    Replicas = {r1}
    MaxAttempts = 2
    BatchLimit = 1
    GraceDays = 1
    MaxFaults = 1
PROPERTIES
    DueRemindersSettle
    
    ExpiredAreArchived
