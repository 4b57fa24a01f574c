CONSTANTS
    UartFifoSize = 1
    NewLines = {2}
    WordBase = 3
    MaxTyped = 3
    MaxSent = 2
SPECIFICATION Spec
INVARIANTS
    TypeOK
    OutputComplete
    InputAccounted
    TimerExact
    ClaimHeld
PROPERTIES
    ReadInOrder
    EntryJustified
    InputServed
