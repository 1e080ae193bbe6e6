SPECIFICATION Spec
CONSTANTS
    Desks = {d1, d2}
    Slugs = {"slug", "other"}
    Shapes <- MCShapes
    Texts = {"1", "x"}
    Numerals = {"1"}
    Definitions = {1, 2}
    Builds = {1, 2, 3}
    Numbers <- MCNumbers
    MaxRequests = 3
    None = None
INVARIANT TypeOK
INVARIANT OfferIsNewest
INVARIANT BuildIsThere
PROPERTY NeverBackToDraft
PROPERTY PermanentUnlessOutdated
CHECK_DEADLOCK FALSE
