CONSTANTS
    Ast = Ast
    Nil = Nil
    None = None
    Session = {s1, s2}
    Obj = {o1, o2, o3, o4, o5, o6}
    Arity = {n1}
    Warns = TRUE
    Switches = FALSE
    MaxDepth = 1
    MaxPool = 1
SPECIFICATION Spec
SYMMETRY Symmetric
INVARIANTS NamesKnown
