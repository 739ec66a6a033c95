\* A client that may send ids it was never given, ArchitectureGhidra::init
\* that may throw and request documents that may not parse.
CONSTANTS
    a1 = a1
    a2 = a2
    a3 = a3
    Arch <- MC_Arch
    Null = Null
    GenericCmds <- MC_GenericCmds
    InitMayFail = TRUE
    StrayIds <- SomeStrayIds
    ArchIdInit <- MC_ArchIdInit
    ActionNames <- MC_ActionNames
    ActionStrings <- FewActionStrings
    PrintStrings <- FewPrintStrings
    FnAddr = "fn"
    Addrs <- MC_Addrs
    Throws <- XmlThrows
    ClientCmds <- AllCmds
    MaxRequests = 8
SPECIFICATION Spec
\* deregisterProgram ends the process: main leaves its loop on status 1.
CHECK_DEADLOCK FALSE
INVARIANT RequestIsolated
