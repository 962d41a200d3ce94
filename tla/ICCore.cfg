CONSTANTS
    Nil = Nil
    None = None
    NoOrder = NoOrder
    AB = AB
    BA = BA
    ABC = ABC
    Prim = Prim
    Quote = Quote
    Unit = Unit
    InOrder = InOrder
    Swapped = Swapped
    s1 = s1
    s2 = s2
    Kind <- MCKind
    BodyType <- MCBodyType
    Order <- MCOrder
    Orders <- MCOrders
    Site = {s1, s2}
    Fun = {f}
    Lit = {AB, ABC, Quote}
    Addr = {a1, a2, a3}
    Size <- MCDiffSize
    MaxDepth = 2
    EnableJit = 3
    Hot = TRUE
    Collects = TRUE
SPECIFICATION Spec
SYMMETRY Symmetric
INVARIANTS TypeOK AtMostOneMiss RightCode RightKind
