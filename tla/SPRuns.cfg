SPECIFICATION FairSpec
CONSTANTS
    None = None
    Const = Const
    Reg <- MCReg
    Block <- MCBlock
    Function <- MCFunction
    Name <- MCName
    Modules <- MCModules
    Programs <- MCPrograms
    Obj <- MCObj
    MaxDepth = 2
INVARIANTS SPTypeOK Settled UsesAlive RootsAssigned PatchesRight
PROPERTIES CompileEnds Advances
