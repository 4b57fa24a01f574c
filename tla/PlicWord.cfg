\* An id of word 1 while word 0 has nothing enabled and pending.
CONSTANTS
    Ids = {10, 37}
    Driven = {10}
    Prios = {1}
    Thresholds = {0}
SPECIFICATION Spec
INVARIANT OfferedIdIsPending
