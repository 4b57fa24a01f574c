SPECIFICATION Spec
CONSTANTS
    Size = 4
    CounterMod = 8
    Vals = {0, 1}
    Zero = 0
    MaxBatch = 3
INVARIANTS
    TypeOK
    ReservationHolds
PROPERTY
    ImplementsQueue
