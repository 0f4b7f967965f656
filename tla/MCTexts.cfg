CONSTANTS
  CharsPerToken = 4
  UserAgent <- TheUserAgent
  NoDelay = NoDelay
  RobotsPaths <- ThePaths
  BundleParts <- TheBundleParts
  MaxName = 4
  Dim = 3
  Parts <- TheParts
SPECIFICATION TextsSpec
INVARIANTS
  RobotsExact
  PagesRead
  RecordsHold
  RequestsUnderstood
  InputsRead
CHECK_DEADLOCK FALSE
