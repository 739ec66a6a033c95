CONSTANTS
    Op <- MC_Op
    Vn <- MC_Vn
    NoOp = NoOp
    NoVn = NoVn
    MaxIn = 2
    TypeLocked <- MC_TypeLocked
SPECIFICATION Spec
CONSTRAINT StoreBound
INVARIANTS
    TypeOK
    ReaderListExact
    DefOutputAgree
    ConstantSingleReader
    NoDanglingLink
