CONSTANTS
    Regions <- MCRegions
    NativePages = {0, 3, 6}
SPECIFICATION Spec
INVARIANTS TypeOK RestoreExact ProtectionInvisible
