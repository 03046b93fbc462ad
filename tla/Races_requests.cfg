SPECIFICATION Spec
CONSTANTS
    Requests = {p1, p2, p3}
    Dates = {d1, d2}
    Zones = {z1, z2}
INVARIANTS
    TypeOK
    CleanUnlessEditsOverlap
PROPERTIES
    HistorySurvivesRaces
    RequestsFinish
