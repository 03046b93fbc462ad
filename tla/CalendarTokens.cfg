SPECIFICATION Spec
CONSTANTS
    Requests = {p1, p2, p3}
    Listings <- MCListings
INVARIANTS
    TypeOK
    CreateFailsOnlyToRival
    RevocationHolds
    
PROPERTIES
    NeverLeftWithout
    RequestsFinish
