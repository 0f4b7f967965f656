CONSTANTS
  Requests <- TheRequests
  MaxPolls = 2
  Replies <- TheReplies
  MaxAttempts = 3
  MaxRedirects = 1
  ByteCeiling = 2
SPECIFICATION CaptureSpec
INVARIANT SnapshotEmitsRequested
CHECK_DEADLOCK FALSE
