\* Acyclic graphs of four varnodes in which a varnode may be read on two
\* paths (the mark left by the first path cuts the second short), and trees
\* in which checkConditionalExe holds for one solid slot only.
CONSTANTS
    Vn <- MC_Vn4
    Root <- MC_Root
    Call <- MC_Call
    Graphs <- CounterGraphs
SPECIFICATION Spec
\* The walk ends; execute returns to its caller.
CHECK_DEADLOCK FALSE
INVARIANT ResultMatchesReference
