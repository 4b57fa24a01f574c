\* Guest that nests traps of all three levels.
CONSTANTS
    AddrSpace = 8
    Targets = {4}
    GuestOps <- MCGuestOps
    FaultCauses = {5, 13}
    Lines = {"mei", "mti"}
SPECIFICATION Spec
CHECK_DEADLOCK FALSE
INVARIANTS
    TypeOK
    FrameIntact
    HandlerShielded
    InterruptAllowed
    NoSpuriousInterrupt
    ExceptionAtomic
PROPERTIES
    PrivilegeDiscipline
    HandlerNotReentered
    NoEscalationThroughViews
    ReturnResumes
