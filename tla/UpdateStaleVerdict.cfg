SPECIFICATION Spec
CONSTANTS
    Source = {"pacman"}
    MaxRelease = 1
    FromWizard = TRUE
    MayDie = FALSE
INVARIANT FreshVerdict
CHECK_DEADLOCK FALSE
