CONSTANTS
    ByteBits = 2
    IntbBytes = 4
    Ids <- MC_Ids
    P = P
    Graphs <- SignedGraphs
SPECIFICATION Spec
INVARIANT
    TruthKept
