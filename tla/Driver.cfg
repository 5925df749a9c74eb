SPECIFICATION Spec
CONSTANTS
    Operations = {o1, o2, o3}
    Calls <- AllCalls
    Fates <- AnyFate
    InitOp = InitOp
    NestedOp = NestedOp
    NoOp = NoOp
CHECK_DEADLOCK FALSE
INVARIANTS
    TypeOK
    ModeInStep
    PollSetUpOnce
    SuccessObeyed
PROPERTIES
    QueueSpec
