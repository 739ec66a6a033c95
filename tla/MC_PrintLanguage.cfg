CONSTANTS
    Leaf = Leaf
    NoAtom = NoAtom
    Trees <- MC_Trees
    NoTree = NoTree
    Strings <- MC_Strings
    NoString = NoString
SPECIFICATION PLSpec
INVARIANTS
    TypeOK
    EmitsInfix
    ParensSufficient
    DecodesInput
    ReencodesInput
PROPERTIES
    InfixRefinement
CHECK_DEADLOCK FALSE
