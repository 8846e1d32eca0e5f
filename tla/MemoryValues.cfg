SPECIFICATION Spec
CONSTANTS
    Places <- MCPlaces
    Builds = {TRUE, FALSE}
    MaxAccess = 4
INVARIANTS TypeOK BytesSound
CHECK_DEADLOCK FALSE
