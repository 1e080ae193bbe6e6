SPECIFICATION Spec
CONSTANTS
    Files = {f1, f2}
    Slots = {s1, s2}
    Sizes = {1}
    Limits = {1, 2}
    Kinds = {"file", "support", "logo"}
    MaxFaults = 1
    None = None
INVARIANT TypeOK
INVARIANT LiveHasObject
INVARIANT OrphansAreLostUploads
PROPERTY DriftHasTwoSources
PROPERTY NoUploadBeyondLimit
PROPERTY DeletedIsPurged
CHECK_DEADLOCK FALSE
