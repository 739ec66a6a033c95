CONSTANTS
    Op = {p1, p2, p3, p4}
    NoOp = NoOp
    Blocks <- MC_Blocks
    Entry = "b1"
    Pred <- MC_Pred
SYMMETRY OpSymmetry
SPECIFICATION Spec
INVARIANTS
    TypeOK
    MarkersFirst
    IndirectsBeforeEffect
    BranchLast
    DefBeforeUse
