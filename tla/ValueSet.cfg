SPECIFICATION Spec
CONSTANTS
    Regs = {"r0", "sp"}
    SP = "sp"
    Base <- MCBase
    Segment <- MCSegment
    Immediates <- MCImmediates
    Words = {0, 2, 6}
    Width = 4
    Cases = {}
    MaxSteps = 4
INVARIANTS TypeOK ValueInValueSet
\* The trace ends.
CHECK_DEADLOCK FALSE
