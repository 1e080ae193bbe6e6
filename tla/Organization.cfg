SPECIFICATION Spec
CONSTANTS
    People = {f, g, h}
    Members = {f}
    Founder = f
    Invitations = {i1, i2}
    Keys = {k1, k2}
    Slots = {s1, s2}
    Desks = {d1, d2}
    SeatLimits = {1, 2}
    KeyLimits = {1}
    Unlimited = Unlimited
    None = None
INVARIANT TypeOK
INVARIANT OneOwnerUnlessOvertaken
INVARIANT NoDeadlock
PROPERTY SeatsAreAQuota
PROPERTY KeysAreAQuota
PROPERTY WithdrawnAdmitsNobody
CONSTRAINT NotOvertaken
SYMMETRY Symmetry
CHECK_DEADLOCK FALSE
