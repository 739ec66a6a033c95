CONSTANTS
    Null = Null
    MaxSpaces <- MC_MaxSpaces
    XmlLists <- MC_XmlLists
    DefNames <- MC_DefNames
    CSpecs <- MC_CSpecs
    PSpecs <- MC_PSpecs
    ProtoNames <- MC_ProtoNames
    PieceSize <- MC_PieceSize
    JoinReqs <- MC_JoinReqs
    PieceSpace <- MC_PieceSpace
    PieceOffset <- MC_PieceOffset
    BigEndian = FALSE
    Registers <- MC_Registers
    FloatExts <- MC_FloatExts
    JoinPairs <- MC_JoinPairs
    MaxJoins <- MC_MaxJoins
    SizeBits <- MC_SizeBits
    UintbBits <- MC_UintbBits
    ShiftLimit <- MC_ShiftLimit
    InvarCap <- MC_InvarCap
    PtrSize = 8
    TagOp = 34
    TagVoid = 35
    TagSpaceid = 36
    TagAddrsz = 37
    TagEnd = 96
    Streams <- MC_Streams
    RegisterOf <- MC_RegisterOf
    XmlOps <- MC_XmlOps
    Garbage <- MC_Garbage
SPECIFICATION Spec
INVARIANTS
    TypeOK
    ManagerWellFormed
    SpaceOwnership
    JoinFound
    JoinReplyExact
    ProtoRegistryUsable
    OpRoundTrip
PROPERTIES
    JoinRefinement
CHECK_DEADLOCK FALSE
