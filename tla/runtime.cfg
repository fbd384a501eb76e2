SPECIFICATION MCSpec
CONSTANTS
    Slots = {s1, s2, s3}
    MaxBlocks = 3
    Calls <- MCCalls
SYMMETRY Symmetry
INVARIANTS StorageInv ReadonlyStays NativeAfterWholeCall NoForeignAccess 
