SPECIFICATION OrphanSpec
CONSTANTS
    p1 = p1
    p2 = p2
    s1 = s1
    Polkit <- MCPolkit
    Sudo <- MCSudo
    MaxTries = 3
    MaxOut = 0
SYMMETRY MCSymmetry
INVARIANTS
    QueueIsTheOpenRequests
    NobodyWaitsUnqueued
    OnlyTheHeadConverses
    HeardHeadIsAsked
    SecretsOnlyWhenAsked
PROPERTIES
    OnlyFailuresAreCounted
