SPECIFICATION Spec
CONSTANTS
  minInterval = 1
  maxInterval = 3
  minExpires = 3
  maxExpires = 6
  maxPollCount = 8
  slowDownBump = 1
  maxSlowDownBumps = 2
  authHTTPTimeout = 2
  MaxLate = 1
  HeadStart = 1
  Intervals <- OfferedIntervals
  Lifetimes <- OfferedLifetimes
INVARIANTS TypeOK NeverPollsEarly ApprovalIsSeen ReturnsInTime WindowClosesBeforeCap
CHECK_DEADLOCK FALSE
