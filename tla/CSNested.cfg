CONSTANTS
    Ast = Ast
    Nil = Nil
    None = None
    Session = {s1}
    Obj = {o1, o2, o3, o4, o5, o6}
    Arity = {n1}
    Warns = FALSE
    Switches = FALSE
    MaxDepth = 2
    MaxPool = 1
SPECIFICATION Spec
SYMMETRY Symmetric
INVARIANTS NamesKnown NoHollowCode ConstantsAlive
