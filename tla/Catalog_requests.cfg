SPECIFICATION Spec
CONSTANTS
    Requests = {p1, p2}
    Inputs <- MCInputs
    Imports <- MCImports
    MaxFaults = 1
INVARIANTS
    TypeOK
    
    LostAuditNeedsFault
    ImportReportIsTrue
    StaleLookupNeedsRival
PROPERTIES
    RequestsFinish
