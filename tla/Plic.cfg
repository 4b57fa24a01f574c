\* Ids of word 0, as in the SoC: the UART's id 10 and two software-pended ids.
CONSTANTS
    Ids = {1, 10, 12}
    Driven = {10}
    Prios = {0, 2, 9}
    Thresholds = {0, 2}
SPECIFICATION FairSpec
INVARIANTS
    TypeOK
    OfferedIsHighest
    ClaimsTracked
PROPERTIES
    ExclusiveClaim
    DeviceServed
