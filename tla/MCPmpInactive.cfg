SPECIFICATION Spec
CONSTANTS
    NrEntries = 4
    PerReg = 2
    XlenMod = 1024
    CfgVals <- MCCfgVals
    AddrVals <- MCAddrVals
    Probes <- MCProbes
INVARIANT
    InactiveGrantsAll
