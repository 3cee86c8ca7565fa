SPECIFICATION Spec
CONSTANTS
    Plugins = 2
    ReportSchema = "2.0.0"
    PanelSchema = "1.0.0"
    MaxRequests = 3
INVARIANTS
    ReportIsShown
CHECK_DEADLOCK FALSE
