SPECIFICATION FairSpec
CONSTANTS
    Source = {"pacman", "aur"}
    MaxRelease = 2
    FromWizard = FALSE
    MayDie = FALSE
INVARIANT FreshVerdict
PROPERTY RunEnds
PROPERTY VerdictReturns
CHECK_DEADLOCK FALSE
