SPECIFICATION FairSpec
CONSTANTS
  Tops <- MCTops  Rows <- MCRows  Of <- MCOf
  Separators = {4}
  Labels <- MCLabels  Clean <- MCClean
  Texts = {"save", "open", "none"}  NoText = "none"
  Shortcuts <- MCShortcuts  NoShortcut = "-"  Combos = {"s", "F2"}
  Layouts <- MCLayouts
  Payloads <- MCPayloads
  MaxChanges = 3
INVARIANTS
    PatchIsRefetch
    RestIsTrue
    ShellHasTheCache
PROPERTIES
    ShellShowsTheApp
CHECK_DEADLOCK FALSE
