CONSTANTS
    Op <- MC_Op
    Free <- MC_Free
    Blocks <- MC_Blocks
    Entry = "b0"
    Width = 2
    HashOf <- MC_HashOf
    Graphs <- MC_Graphs
    TermDepth <- MC_TermDepth
    MaxLevel <- MC_MaxLevel
SPECIFICATION Spec
INVARIANT TypeOK
INVARIANT ValuesKept
INVARIANT DefDominatesUse
INVARIANT NZMaskSound
INVARIANT TrialUseSound
INVARIANT IndirectOnlySound
