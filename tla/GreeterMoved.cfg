SPECIFICATION Spec
CONSTANTS
    Users = {u1, u2}
    MaxAttempts = 2
    CooldownSeconds = 2
    MaxLogins = 2
    MaxAsks = 2
INVARIANT AnswersTheirUser
CHECK_DEADLOCK FALSE
