SPECIFICATION FairSpec
CONSTANTS
    Operations = {o1}
    Calls <- SettingCalls
    Fates <- Reliable
    InitOp = InitOp
    NestedOp = NestedOp
    NoOp = NoOp
CHECK_DEADLOCK FALSE
PROPERTIES
    InitReports
