SPECIFICATION Spec
CONSTANTS
    Operations = {o1}
    Calls <- SettingCalls
    Fates <- AnyFate
    InitOp = InitOp
    NestedOp = NestedOp
    NoOp = NoOp
CHECK_DEADLOCK FALSE
INVARIANTS
    CommandsInAtMode
