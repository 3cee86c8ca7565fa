SPECIFICATION FairSpec
CONSTANTS
    Plugins = 2
    ReportSchema = "1.0.0"
    PanelSchema = "1.0.0"
    MaxRequests = 3
INVARIANTS
    TypeOK
    AnswerIsOwn
PROPERTIES
    PanelSettles
    HiddenStartsNothing
CHECK_DEADLOCK FALSE
