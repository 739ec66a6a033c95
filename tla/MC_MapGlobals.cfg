\* One call of mapGlobals over every bank of the locations.
CONSTANTS
    Locs <- MC_Locs
    PreSyms <- MC_PreSyms
    Owned <- MC_Owned
SPECIFICATION Spec
\* mapGlobals is one call: the model stops once it has returned.
CHECK_DEADLOCK FALSE
INVARIANT GlobalsMapped
