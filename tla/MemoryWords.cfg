SPECIFICATION Spec
CONSTANTS
    Places <- MCWords
    Builds = {FALSE}
    MaxAccess = 3
INVARIANT BytesSound
CHECK_DEADLOCK FALSE
