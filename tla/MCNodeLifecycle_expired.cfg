SPECIFICATION Spec
CONSTANTS
  h1 = h1
  h2 = h2
  x = x
  xSlash = xSlash
  y = y
  z = z
  Main = main
  Urls <- MCUrls
  Trim <- MCTrim
  Handlers = {h1}
  Configs <- MCConfigs
  Feeds <- OneFeed
  Tables <- NoRows
  EditModes <- InPlace
  MaxEdits = 0
  MaxCrashes = 1
  OwnPairs = {"none"}
  MaxYears = 1
PROPERTY StartsWithValidPair
