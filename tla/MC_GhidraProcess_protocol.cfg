\* Two architectures; a client that sends every command, only ids it was
\* given, setAction strings that name a root action, none or an unknown
\* one, and print strings that are empty or an unknown language.
CONSTANTS
    a1 = a1
    a2 = a2
    a3 = a3
    Arch <- MC_Arch2
    Null = Null
    GenericCmds <- MC_GenericCmds
    InitMayFail = TRUE
    StrayIds <- NoStrayIds
    ArchIdInit <- MC_ArchIdInit
    ActionNames <- MC_ActionNames
    ActionStrings <- MC_ActionStrings
    PrintStrings <- SomePrintStrings
    FnAddr = "fn"
    Addrs <- MC_Addrs
    Throws <- RawThrows
    ClientCmds <- AllCmds
    MaxRequests = 7
SPECIFICATION Spec
\* deregisterProgram ends the process: main leaves its loop on status 1.
CHECK_DEADLOCK FALSE
INVARIANTS
    TypeOK
    ActsOnAddressed
    
PROPERTY
    RegisteredIdsStable
