CONSTANTS
    MaxFiles = 2
    MaxFuns = 2
    Base = 3
    Step = 1
SPECIFICATION Spec
INVARIANTS FindsContaining
CHECK_DEADLOCK FALSE
