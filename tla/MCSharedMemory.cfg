CONSTANTS
    Producers = {p1, p2}
    Rings = 2
    Capacity = 2
    Crumbs = 3
    Modulus = 16
    Writers = {p1, p2}
    ShotSeq <- MCShotSeq
    ListMax = 1
    Stamps <- MCStamps
    Policies <- MCPolicies
    Updates = 2
SPECIFICATION RegionSpec
INVARIANTS AcceptedIsPublished SectionsAreWholeOrEmpty UrgentFramesFirst
SYMMETRY Interchangeable
CHECK_DEADLOCK FALSE
