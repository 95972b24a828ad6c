SPECIFICATION Spec
CONSTANTS
  h1 = h1
  h2 = h2
  x = x
  xSlash = xSlash
  y = y
  z = z
  Main = main
  Urls <- MCUrls
  Trim <- MCTrim
  Handlers = {h1, h2}
  Configs <- TwoOrNone
  Feeds <- MCFeeds
  Tables <- OneRow
  EditModes <- EitherMode
  MaxEdits = 1
  MaxCrashes = 1
  OwnPairs = {"loads"}
  MaxYears = 0
SYMMETRY HandlerSymmetry
INVARIANTS
  TypeOK
  NoDuplicateUrl
  ConfigInForce
  NoGhostMirror
  NoEditLost
PROPERTY NeverClobbers
