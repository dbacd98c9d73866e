SPECIFICATION FairSpec
CONSTANTS
  Elsewhere = Elsewhere  None = None
  Pictures = {p, q}
  Unreadable = {{}, {"imv"}}
  MaxEvents = 2
INVARIANTS
    OtherKeysKept
    QuietIsExported
    ChoiceHolds
PROPERTIES
    DesktopFollows
    BrowseEnds
CHECK_DEADLOCK FALSE
