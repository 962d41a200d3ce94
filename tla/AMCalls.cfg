SPECIFICATION Spec
CONSTANTS
    None = None
    Dots = Dots
    Name <- MCName
    Prefix <- MCPrefix
    Sites <- MCSites
    Callees <- MCCallees
    Ellipses <- MCEllipses
    StaticNamedArgMatch = TRUE
INVARIANTS AMTypeOK ArgOrderRight BindsAsR
