\* A supervisor that writes its restricted views.
CONSTANTS
    AddrSpace = 8
    Targets = {4}
    GuestOps <- MCGuestOps
    FaultCauses = {5, 13}
    Lines = {"mei", "mti"}
SPECIFICATION Spec
CHECK_DEADLOCK FALSE
PROPERTY SupervisorViewRestricted
