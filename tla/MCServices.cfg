SPECIFICATION ServicesSpec
CONSTANTS
  Callers = {c1, c2}
  Items = {t1, t2}
  Capacity = 1
  MaxLost = 1
  NoItem = NoItem
  PageRequests = {r1, r2}
  MaxFrames = 1
  MaxUnread = 3
  Start = 2
  Every = 2
  RunLimit = 3
  EndOfTime = 9
  StoredUrls = {u1, u2}
  Hashes = {h1, h2}
  NoPage = NoPage
  MaxChanges = 3
  Lines <- TheLines
  NoId = 0
  MaxLines = 3
  NextPages = {p1, p2, p3}
  NoNext = NoNext
  PageLimit = 3
  Null = Null
  Blocks = {b1, b2, b3}
  Selectors = {s1, s2, s3}
  Known = {s1, s2}
  MaxCalls = 4
  Requests <- TheRequests
  MaxPolls = 2
  Replies <- TheReplies
  MaxAttempts = 3
  MaxRedirects = 1
  ByteCeiling = 2
INVARIANTS
  ScheduleExact
  ResponsesExact
  WalkExact
  OwnershipExact
  TierRight
  SessionOrdered
  DeliversRequested
PROPERTIES
  PermitsExact
  SettleCounts
  LoadsWhatWasSaved
  EveryoneIsServed
  RetriesExact
  CallReturns
CHECK_DEADLOCK FALSE
