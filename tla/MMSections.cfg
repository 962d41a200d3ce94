CONSTANTS
    m1 = m1
    m2 = m2
    Manager <- MCManager
    Requests <- MCRequests
    Base <- MCBase
    PageSize = 8
    DefaultAlignment = 2
    Spare = 2
    UnsignedLimit = 8
    MaxSections = 3
SYMMETRY Symmetry
SPECIFICATION Spec
INVARIANTS MMTypeOK SectionsApart RightsMatch StatepointsOwn
CHECK_DEADLOCK FALSE
