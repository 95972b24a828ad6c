SPECIFICATION LiveSpec
CONSTANTS
  h1 = h1
  h2 = h2
  x = x
  xSlash = xSlash
  y = y
  z = z
  Main = main
  Urls <- MCUrls
  Trim <- MCTrim
  Handlers = {h1}
  Configs <- MCConfigs
  Feeds <- OneFeed
  Tables <- NoRows
  EditModes <- EitherMode
  MaxEdits = 2
  MaxCrashes = 1
  OwnPairs = {"fails"}
  MaxYears = 1
PROPERTIES
  BootCompletes
  WatchedEditTakesEffect
  PairKept
INVARIANT PairOnDiskIsServed
