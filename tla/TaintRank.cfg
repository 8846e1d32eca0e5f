SPECIFICATION Spec
CONSTANTS
    Register = {"r0", "r1", "r2"}
    Traces <- MCTraces
    ROOT = 3
    FULL = 2
INVARIANTS TypeOK TaintComplete RankingSound
PROPERTIES WorkAdvances
\* The analysis ends.
CHECK_DEADLOCK FALSE
