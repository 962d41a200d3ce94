CONSTANTS
    None = None
    Block <- MCBlock
    Entry = "b1"
    Function <- Assigned
    Var <- MCVar
    Name <- MCName
    Value <- TypeInfo
    Bottom <- NoType
    MergeValues <- MergeTypes
    Changes <- TypesChange
    Transfer <- TypeTransfer
SPECIFICATION FairTSpec
INVARIANTS ATypeOK Propagated UpToDate RewritesRight
PROPERTIES Terminates Progresses
CHECK_DEADLOCK FALSE
