SPECIFICATION Spec
CONSTANTS
    Keys = {k1, k2}
    Own = {i1}
    Instances = {i1, i2}
    Facts <- TwoFacts
    MaxActivations = 1
    Interval = 2
    InvalidFor = 1
    Grace = 1
    Calls = {c1, c2}
    None = None
INVARIANT RecordOfOnePiece
PROPERTY YesIsRecent
SYMMETRY Symmetry
CHECK_DEADLOCK FALSE
