CONSTANTS
    Name = {"robot", "ground"}
    Link = {"base", "arm", "floor"}
    Owner <- MCOwner
    Pose = {0, 1}
    Client = {"simulation", "kinematic", "behavior"}
    PairItem <- MCPairItem
    MaxPairs = 3
    MaxSessions = 2
SPECIFICATION Spec
INVARIANTS
    CachesFresh
    ContactsOnTheirPair
    StateConsistent
    PairsFollowBodies
CHECK_DEADLOCK FALSE
