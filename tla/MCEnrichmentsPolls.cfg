SPECIFICATION Spec
CONSTANTS
  Ops = {o1, o2}
  Targets = {t1}
  Keys = {k1}
  Requests = {q1, q2, q3}
  Quota = {s1, s2}
  Minute = 4
  PollGap = 2
  Deadline = 1
  MaxPolls = 2
  MaxCrashes = 1
  NoRow = NoRow
  NoKey = NoKey
  NoCall = NoCall
  NoOp = NoOp
PROPERTY PollsAreSpaced
CHECK_DEADLOCK FALSE
