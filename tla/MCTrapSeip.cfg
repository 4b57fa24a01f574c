\* The external interrupt line stays low.
CONSTANTS
    AddrSpace = 8
    Targets = {4}
    GuestOps <- MCGuestOps
    FaultCauses = {5, 13}
    Lines = {}
SPECIFICATION Spec
CHECK_DEADLOCK FALSE
PROPERTY SeipIsLogicalOr
