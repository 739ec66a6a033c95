\* Walks over every tree of four varnodes, checked against the recursive
\* reference verdict, and over graphs with loops, on which the walk must
\* still end.
CONSTANTS
    Vn <- MC_Vn4
    Root <- MC_Root
    Call <- MC_Call
    Graphs <- WalkGraphs
SPECIFICATION Spec
\* The walk ends; execute returns to its caller.
CHECK_DEADLOCK FALSE
INVARIANTS TypeOK ResultMatchesReference
PROPERTY WalkTerminates
