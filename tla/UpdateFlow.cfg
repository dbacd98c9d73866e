SPECIFICATION Spec
CONSTANTS
    Source = {"pacman", "aur", "flatpak"}
    MaxRelease = 1
    FromWizard = TRUE
    MayDie = TRUE
INVARIANTS
    CheckingIsBacked
    AuthViewTruthful
    NoPartialUpgrade
    OkMeansAll
PROPERTIES
    KeepsOrder
CHECK_DEADLOCK FALSE
