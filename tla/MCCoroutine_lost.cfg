SPECIFICATION FairSpec
CONSTANTS
  MaxSessions = 2
  Args = {"a"}
  Timeouts = {}
  MaxNow = 0
  MaxIdx = 4
  MAX_RESUME_PER_TICK = 10000
  Nested = TRUE
  Nil = Nil
  Lengths <- LuaJITBorder
PROPERTY ReadyRuns
