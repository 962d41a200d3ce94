CONSTANTS
    NoRegister = NoRegister
    Block = {"b1", "b2", "b3"}
    Entry = "b1"
    Function <- MCFunction
    Name <- MCName
    Value <- MCValue
    Bottom = NoRegister
    MergeValues <- MergeTracked
    Changes <- TrackedChanges
    Transfer <- TrackingTransfer
SPECIFICATION ASpec
INVARIANTS ChangesReal
CHECK_DEADLOCK FALSE
