CONSTANTS
    Ast = Ast
    Nil = Nil
    None = None
    Session = {s1, s2}
    Obj = {o1, o2, o3, o4}
    Arity = {n1}
    Warns = TRUE
    Switches = TRUE
    MaxDepth = 3
    MaxPool = 2
SPECIFICATION Spec
SYMMETRY Symmetric
INVARIANTS TypeOK OneWillPatch SlotsMatch
