SPECIFICATION Spec
CONSTANTS
  h1 = h1
  h2 = h2
  x = x
  xSlash = xSlash
  y = y
  z = z
  Main = main
  Urls <- MCUrls
  Trim <- MCTrim
  Handlers = {h1}
  Configs <- MCConfigs
  Feeds <- MCFeeds
  Tables <- NoRows
  EditModes <- InPlace
  MaxEdits = 0
  MaxCrashes = 0
  OwnPairs = {"loads"}
  MaxYears = 0
INVARIANT FetchedArePersisted
