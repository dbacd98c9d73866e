SPECIFICATION ImpatientSpec
CONSTANTS
    p1 = p1
    p2 = p2
    s1 = s1
    Polkit <- OnePolkit
    Sudo <- OneSudo
    MaxTries = 2
    MaxOut = 1
    MaxCrashes = 1
    MaxCmds = 2
INVARIANTS
    ViewCatchesUp
    FieldLiveWhenAsked
    OneAnswerPerPrompt
PROPERTIES
    KeepsPromise
    EveryCallerIsAnswered
CHECK_DEADLOCK FALSE
