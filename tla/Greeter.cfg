SPECIFICATION FairSpec
CONSTANTS
    Users = {u1, u2}
    MaxAttempts = 2
    CooldownSeconds = 2
    MaxLogins = 3
    MaxAsks = 2
INVARIANTS
    RepliesPair
    SpentOnce
    LockedOut
    QuestionsReachTheCard
    RemembersWhoLoggedIn
PROPERTIES
    SecretsAreUsed
CHECK_DEADLOCK FALSE
