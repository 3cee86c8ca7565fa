SPECIFICATION Spec
CONSTANTS
    Plugins = 2
    ReportSchema = "1.0.0"
    PanelSchema = "1.0.0"
    MaxRequests = 3
INVARIANTS
    OpeningLists
CHECK_DEADLOCK FALSE
