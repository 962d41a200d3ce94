CONSTANTS
    Expression <- MCExpression
    Depth <- MCDepth
    Programs <- MCPrograms
    MaxChoices = 4
    MaxLength = 2
SPECIFICATION Spec
INVARIANTS ETypeOK RunsRight VisibleRight
