\* A FIFO of three (16 in the code) with the levels one and three.
CONSTANTS
    FifoSize = 3
    RxLevels = {1, 3}
SPECIFICATION Spec
INVARIANTS
    TypeOK
    OutputPrompt
PROPERTIES
    InputServed
    TransmitInterruptIsFinal
