SPECIFICATION FairSpec
CONSTANTS
    Operations = {o1, o2}
    Calls <- AllCalls
    Fates <- AnyFate
    InitOp = InitOp
    NestedOp = NestedOp
    NoOp = NoOp
CHECK_DEADLOCK FALSE
PROPERTIES
    OperationsRun
