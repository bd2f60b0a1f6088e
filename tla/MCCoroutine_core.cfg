SPECIFICATION FairSpec
CONSTANTS
  MaxSessions = 2
  Args = {"a"}
  Timeouts = {1, 2}
  MaxNow = 3
  MaxIdx = 4
  MAX_RESUME_PER_TICK = 1
  Nested = FALSE
  Nil = Nil
  Lengths <- AnyBorder
INVARIANTS ReadyIffAnswered TimeoutIsDue NobodyOverdue
PROPERTIES AnswerKept TimedWaitEnds
