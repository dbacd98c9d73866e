SPECIFICATION FairSpec
CONSTANTS
  Elsewhere = Elsewhere  None = None
  Pictures = {p, q}
  Unreadable = {{}}
  MaxEvents = 1
PROPERTY
  WallpaperFollows
CHECK_DEADLOCK FALSE
