CONSTANTS
    Entries = 2
    NrFrames = 4
    Regs = {1}
    Values <- MCValues
    AmoOps <- MCAmoOps
    AmoResult <- MCAmoResult
    Statuses <- MCStatuses
    Images <- MCImages
    PmpConfigs <- MCPmpConfigs
    DataFrames = {2, 3}
    Vas <- MCVas
SPECIFICATION Spec
INVARIANT
    PhysicalAddressesAreWide
