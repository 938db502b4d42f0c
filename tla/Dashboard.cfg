SPECIFICATION DashboardSpec
CONSTANTS
  MaxPosts = 1
  MaxCalls = 2
  MaxLate = 1
INVARIANTS RestartKeepsView
PROPERTIES RowIsClosed ViewIsClosed
CHECK_DEADLOCK FALSE
