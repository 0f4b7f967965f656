CONSTANTS
  Urls <- TheUrls
  Scope <- TheScope
  MaxPages = 5
  MaxDepth = 3
  Replies <- TheReplies
  MaxAttempts = 2
  MaxRedirects = 1
  ByteCeiling = 2
  Seed <- Root
  Bodies = {v1, v2}
  EmptyBody = EmptyBody
  Unseen = Unseen
  MaxRuns = 2
  MaxEdits = 1
  Sites <- TheSites
SPECIFICATION FairSpec
INVARIANTS
  FrontierExact
  ReachesAll
PROPERTIES
  ImplementsBoundedCrawl
  ReportsExact
  RunsEnd
CHECK_DEADLOCK FALSE
