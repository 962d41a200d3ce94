CONSTANTS
    Nil = Nil
    None = None
    NoOrder = NoOrder
    AB = AB
    BA = BA
    ABC = ABC
    Prim = Prim
    Quote = Quote
    Unit = Unit
    InOrder = InOrder
    Swapped = Swapped
    s1 = s1
    s2 = s2
    Kind <- MCKind
    BodyType <- MCBodyType
    Order <- MCOrder
    Orders <- MCOrders
    Site = {s1}
    Fun = {f}
    Lit = {AB, BA}
    Addr = {a1, a2, a3, a4}
    Size <- MCSize
    MaxDepth = 1
    EnableJit = 0
    Hot = FALSE
    Collects = TRUE
SPECIFICATION Spec
INVARIANTS RightOrder
