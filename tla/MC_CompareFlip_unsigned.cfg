CONSTANTS
    ByteBits = 2
    IntbBytes = 4
    Ids <- MC_Ids
    P = P
    Graphs <- UnsignedGraphs
SPECIFICATION Spec
INVARIANTS
    TypeOK
    TruthKept
    OutsideReadersKept
CHECK_DEADLOCK FALSE
