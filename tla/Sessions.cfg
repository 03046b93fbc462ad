SPECIFICATION Spec
CONSTANTS
    Subjects = {"s1", "s2"}
    Emails = {"e1", "e2"}
    Groups <- MCGroups
    Directories <- MCDirectories
    MemberValue = "chair"
    AdminValue = "chair-admins"
    Browsers = {b1}
    Logins = {p1, p2}
    TTL = 2
    MaxDiscovery = 2
    MaxClock = 2
    MaxMoves = 1
    MaxFaults = 1
INVARIANTS
    TypeOK
    SessionHasRows
    RolesAgeOut
    StateLostOnlyWhenCrossed
    LoginFailsOnlyOnSharedEmail

    
